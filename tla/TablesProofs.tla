---------------------------- MODULE TablesProofs ----------------------------
(***************************************************************************)
(* Proofs about Tables, for any datasets, names and numbers, chains of any *)
(* length and any limits.                                                  *)
(***************************************************************************)
EXTENDS Tables, OrderLemmas, FunctionTheorems

-----------------------------------------------------------------------------
(* The inductive invariant: what is true of any table of a chain.          *)

\* Rows have a value per column.
Typed(t) ==
    /\ t \in Table(data)
    /\ \A i \in DOMAIN t.rows : Len(t.rows[i].values) = Len(t.columns)

\* Two rows stand for different records, and for some.  A lone row may stand
\* for none: the total of an empty table does.
Apart(t) ==
    \A i, j \in DOMAIN t.rows : i # j =>
        t.rows[i].of # {} /\ t.rows[i].of \cap t.rows[j].of = {}

\* Rows of the file are one record each.
Single(t) == ~t.derived => \A i \in DOMAIN t.rows : \E x \in t.rows[i].of : t.rows[i].of = {x}

\* A column a tool counted has a number in every row, which is no more than the
\* records the row stands for; or one, for a lone row that stands for none.
Counted(t) ==
    \A c \in DOMAIN t.columns : t.columns[c].counts =>
        /\ t.columns[c].made = "number"
        /\ \A i \in DOMAIN t.rows :
              /\ t.rows[i].values[c] \in Nat
              /\ \/ t.rows[i].values[c] <= Cardinality(t.rows[i].of)
                 \/ t.rows[i].values[c] <= 1

\* A ranking is in the order its last sort gave it, all along.
Ranked(t) ==
    t.ordered => \A i, j \in DOMAIN t.rows : i < j => t.rows[i].rank < t.rows[j].rank

Sound(t) == Typed(t) /\ Apart(t) /\ Single(t) /\ Counted(t) /\ Ranked(t)

IInv == depth \in 0..MaxSteps /\ data \in Data /\ Sound(table)

-----------------------------------------------------------------------------
(* What a tool reads.                                                      *)

\* A name a table has means one of its columns.
LEMMA AtIsAColumn ==
  ASSUME NEW t, t.columns \in Seq(ColumnSpec), NEW name, Has(t, name)
  PROVE  At(t, name) \in DOMAIN t.columns /\ t.columns[At(t, name)].name = name
<1> DEFINE S == {i \in DOMAIN t.columns : t.columns[i].name = name}
<1>1. S \in SUBSET Nat
  OBVIOUS
<1>4. S # {}
  <2>1. PICK i \in DOMAIN Names(t) : Names(t)[i] = name
    BY DEF Has, Range
  <2> QED
    BY <2>1 DEF Names
<1>2. PICK i \in S : \A j \in S : i <= j
  <2> HIDE DEF S
  <2> QED
    BY <1>1, <1>4, LeastNumber
<1>3. \A j \in 1..(i - 1) : t.columns[j].name # name
  BY <1>1, <1>2
<1> QED
  BY <1>2, <1>3 DEF At

\* The dataset is a sound table.
LEMMA BaseIsSound == ASSUME data \in Data PROVE Sound(BaseTable(data))
<1> DEFINE t == BaseTable(data)
           columns == [i \in DOMAIN BaseName |-> Derived(BaseName[i], BaseType[i])]
           rows == [i \in DOMAIN data |-> [values |-> data[i], of |-> {i}, rank |-> 0]]
<1>1. /\ data \in Seq(Seq(Cell)) /\ \A i \in DOMAIN data : Len(data[i]) = Len(BaseName)
      /\ BaseName \in Seq(Name) /\ BaseType \in Seq(Type) /\ Len(BaseType) = Len(BaseName)
  BY TablesAssumption
<1>2. /\ t.columns = columns /\ t.rows = rows /\ t.derived = FALSE /\ t.ordered = FALSE
      /\ t = [columns |-> columns, rows |-> rows, derived |-> FALSE, size |-> NoColumn,
              ordered |-> FALSE]
  BY DEF BaseTable, Bundle
<1>3. columns \in Seq(ColumnSpec) /\ Len(columns) = Len(BaseName)
      /\ \A i \in DOMAIN columns : columns[i].counts = FALSE
  <2>1. \A i \in DOMAIN BaseName : Derived(BaseName[i], BaseType[i]) \in ColumnSpec
        /\ Derived(BaseName[i], BaseType[i]).counts = FALSE
    BY <1>1 DEF Derived, Column, ColumnSpec, Holds
  <2> QED
    BY <1>1, <2>1
<1>4. rows \in Seq(Row(data)) /\ DOMAIN rows = DOMAIN data
  <2>1. \A i \in DOMAIN data :
          [values |-> data[i], of |-> {i}, rank |-> 0] \in Row(data)
    BY <1>1 DEF Row
  <2> QED
    BY <1>1, <2>1
<1> HIDE DEF columns
<1>5. Typed(t)
  BY <1>1, <1>2, <1>3, <1>4 DEF Typed, Table
<1>6. Apart(t) /\ Single(t) /\ Ranked(t)
  <2>1. \A i \in DOMAIN t.rows : t.rows[i].of = {i}
    BY <1>2
  <2> HIDE DEF t, rows
  <2> QED
    BY <1>2, <2>1 DEF Apart, Single, Ranked
<1>7. Counted(t)
  BY <1>2, <1>3 DEF Counted
<1> QED
  BY <1>5, <1>6, <1>7 DEF Sound

\* So is whatever a call reads, whose columns have the contract's types again.
LEMMA SourceIsSound == IInv => Sound(Source)
<1> SUFFICES ASSUME IInv PROVE Sound(Source)
  OBVIOUS
<1>1. CASE depth = 0
  BY <1>1, BaseIsSound DEF IInv, Source
<1>2. CASE depth # 0
  <2> DEFINE t == [table EXCEPT !.columns = ColumnsOf(table)]
  <2>1. table \in Table(data) /\ t = Source
    BY <1>2 DEF IInv, Sound, Typed, Source
  <2>2. \A name : Known(name) \subseteq Type
    BY TablesAssumption DEF Known
  <2>3. \A i \in DOMAIN table.columns :
          /\ ColumnsOf(table)[i] \in ColumnSpec
          /\ ColumnsOf(table)[i].counts = table.columns[i].counts
          /\ ColumnsOf(table)[i].made = table.columns[i].made
    <3> TAKE i \in DOMAIN table.columns
    <3>1. table.columns[i] \in ColumnSpec
      BY <2>1 DEF Table
    <3>2. CASE Known(table.columns[i].name) = {}
      BY <3>1, <3>2 DEF ColumnsOf
    <3>3. CASE Known(table.columns[i].name) # {}
      <4> DEFINE type == CHOOSE type \in Known(table.columns[i].name) : TRUE
      <4>1. type \in Type
        BY <2>2, <3>3
      <4>2. ColumnsOf(table)[i] = [table.columns[i] EXCEPT !.type = type]
        BY <3>3 DEF ColumnsOf
      <4> HIDE DEF type
      <4> QED
        BY <3>1, <4>1, <4>2 DEF ColumnSpec
    <3> QED
      BY <3>2, <3>3
  <2>4. /\ ColumnsOf(table) \in Seq(ColumnSpec)
        /\ DOMAIN ColumnsOf(table) = DOMAIN table.columns
        /\ Len(ColumnsOf(table)) = Len(table.columns)
    <3>1. /\ table.columns \in Seq(ColumnSpec)
          /\ DOMAIN ColumnsOf(table) = DOMAIN table.columns
          /\ ColumnsOf(table) = [i \in DOMAIN table.columns |-> ColumnsOf(table)[i]]
      BY <2>1 DEF Table, ColumnsOf
    <3>2. Len(table.columns) \in Nat /\ DOMAIN table.columns = 1..Len(table.columns)
      BY <3>1
    <3> HIDE DEF t
    <3> QED
      BY <2>3, <3>1, <3>2, MadeIsSequence
  <2>5. /\ t \in Table(data) /\ t.columns = ColumnsOf(table) /\ t.rows = table.rows
        /\ t.derived = table.derived /\ t.ordered = table.ordered
    BY <2>1, <2>4 DEF Table
  <2> HIDE DEF t
  <2>6. Typed(t)
    BY <2>4, <2>5 DEF IInv, Sound, Typed
  <2>7. Apart(t) /\ Single(t) /\ Ranked(t)
    BY <2>5 DEF IInv, Sound, Apart, Single, Ranked
  <2>8. Counted(t)
    BY <2>3, <2>4, <2>5 DEF IInv, Sound, Counted
  <2> QED
    BY <2>1, <2>6, <2>7, <2>8 DEF Sound
<1> QED
  BY <1>1, <1>2

-----------------------------------------------------------------------------
(* The tools that keep, reorder or widen rows.                             *)

\* Whoever takes some rows, each once, has a sound table again, with the order
\* it had if they are in it.
LEMMA TakenRowsAreSound ==
  ASSUME NEW t, Sound(t), NEW n \in Nat, NEW at \in [1..n -> DOMAIN t.rows], IsInjective(at),
         NEW o \in BOOLEAN, o => t.ordered /\ \A i, j \in 1..n : i < j => at[i] < at[j]
  PROVE  Sound([t EXCEPT !.rows = [i \in 1..n |-> t.rows[at[i]]], !.ordered = o])
<1> DEFINE rows == [i \in 1..n |-> t.rows[at[i]]]
           u == [t EXCEPT !.rows = rows, !.ordered = o]
<1>1. t \in Table(data) /\ \A i \in DOMAIN t.rows : Len(t.rows[i].values) = Len(t.columns)
  BY DEF Sound, Typed
<1>2. rows \in Seq(Row(data)) /\ DOMAIN rows = 1..n
  <2>1. \A i \in 1..n : t.rows[at[i]] \in Row(data)
    BY <1>1 DEF Table
  <2> QED
    BY <2>1
<1>3. /\ u \in Table(data) /\ u.columns = t.columns /\ u.rows = rows
      /\ u.derived = t.derived /\ u.ordered = o
  <2> HIDE DEF rows
  <2> QED
    BY <1>1, <1>2 DEF Table
<1>4. \A i \in 1..n : rows[i] = t.rows[at[i]] /\ at[i] \in DOMAIN t.rows
  OBVIOUS
<1>5. \A i, j \in 1..n : i # j => at[i] # at[j]
  BY DEF IsInjective
<1> HIDE DEF u, rows
<1>6. Typed(u)
  BY <1>1, <1>2, <1>3, <1>4 DEF Typed
<1>7. Apart(u)
  BY <1>2, <1>3, <1>4, <1>5 DEF Sound, Apart
<1>8. Single(u)
  <2> SUFFICES ASSUME ~u.derived, NEW i \in DOMAIN u.rows PROVE \E x : u.rows[i].of = {x}
    BY DEF Single
  <2>1. ~t.derived /\ u.rows[i] = t.rows[at[i]] /\ at[i] \in DOMAIN t.rows
    BY <1>2, <1>3, <1>4
  <2>2. \E x : t.rows[at[i]].of = {x}
    BY <2>1 DEF Sound, Single
  <2> QED
    BY <2>1, <2>2
<1>9. Counted(u)
  BY <1>2, <1>3, <1>4 DEF Sound, Counted
<1>10. Ranked(u)
  BY <1>2, <1>3, <1>4 DEF Sound, Ranked
<1> QED
  BY <1>6, <1>7, <1>8, <1>9, <1>10 DEF Sound, u, rows

\* A sound table that is stored is a step of the invariant.
LEMMA StoredIsSound ==
  ASSUME IInv, NEW t, Store(t), Sound(t) PROVE IInv'
<1>1. depth' \in 0..MaxSteps /\ data' = data /\ table' = t
  BY TablesAssumption DEF IInv, Store
<1>2. Sound(table)'
  BY <1>1 DEF Sound, Typed, Apart, Single, Counted, Ranked
<1> QED
  BY <1>1, <1>2 DEF IInv

\* The places an order is made of are finitely many, and each is there once.
LEMMA PlacesInOrder ==
  ASSUME NEW n \in Nat, NEW P \in SUBSET (1..n)
  PROVE  /\ IsFiniteSet(P) /\ Cardinality(P) \in Nat
         /\ \A at \in InPlace(P) :
               /\ at \in [1..Cardinality(P) -> P] /\ IsInjective(at)
               /\ \A i, j \in 1..Cardinality(P) : i < j => at[i] < at[j]
<1>1. IsFiniteSet(P)
  <2>1. IsFiniteSet(1..n)
    BY FS_Interval
  <2> QED
    BY <2>1, FS_Subset
<1>2. Cardinality(P) \in Nat
  BY <1>1, FS_CardinalityType
<1> QED
  BY <1>1, <1>2 DEF InPlace, InOrder

\* A filter keeps the rows that pass in their order.
LEMMA FilterIsSound ==
  ASSUME IInv, NEW name, NEW limit, FilterRows(name, limit) PROVE IInv'
<1> DEFINE Keeps(v) == v # NoValue /\ v < limit
           P == {i \in DOMAIN Source.rows : Keeps(Value(Source, Source.rows[i], name))}
<1>1. Sound(Source) /\ Source \in Table(data)
  BY SourceIsSound DEF Sound, Typed
<1>2. PICK at \in InPlace(P) : Store([Source EXCEPT !.rows = Rows(at)])
  BY DEF FilterRows
<1>3. P \in SUBSET (1..Len(Source.rows)) /\ Len(Source.rows) \in Nat
      /\ DOMAIN Source.rows = 1..Len(Source.rows)
  BY <1>1 DEF Table
<1> HIDE DEF P
<1>4. /\ Cardinality(P) \in Nat
      /\ at \in [1..Cardinality(P) -> P] /\ IsInjective(at)
      /\ \A i, j \in 1..Cardinality(P) : i < j => at[i] < at[j]
  BY <1>1, <1>2, <1>3, PlacesInOrder
<1> DEFINE u == [Source EXCEPT !.rows = [i \in 1..Cardinality(P) |-> Source.rows[at[i]]],
                               !.ordered = Source.ordered]
<1>5. Sound(u)
  <2>1. Source.ordered \in BOOLEAN /\ at \in [1..Cardinality(P) -> DOMAIN Source.rows]
    BY <1>1, <1>3, <1>4 DEF Table
  <2> QED
    BY <1>1, <1>4, <2>1, TakenRowsAreSound
<1>6. u = [Source EXCEPT !.rows = Rows(at)]
  BY <1>1, <1>4 DEF Rows, Table
<1> QED
  BY <1>2, <1>5, <1>6, StoredIsSound

\* A cut keeps a run of them,
LEMMA LimitIsSound ==
  ASSUME IInv, NEW n \in Limits, NEW offset \in Number, LimitRows(n, offset) PROVE IInv'
<1> DEFINE upto == Min({Len(Source.rows), offset + n})
           m == IF upto <= offset THEN 0 ELSE upto - offset
           at == [i \in 1..m |-> offset + i]
           u == [Source EXCEPT !.rows = [i \in 1..m |-> Source.rows[at[i]]],
                               !.ordered = Source.ordered]
<1>1. Sound(Source) /\ Source \in Table(data)
  BY SourceIsSound DEF Sound, Typed
<1>2. /\ Source.rows \in Seq(Row(data)) /\ Len(Source.rows) \in Nat
      /\ DOMAIN Source.rows = 1..Len(Source.rows)
  BY <1>1 DEF Table
<1>3. n \in Nat /\ offset \in Nat
  BY TablesAssumption DEF Limits
<1>4. upto \in Nat /\ upto <= Len(Source.rows)
  <2>1. /\ upto \in Nat
        /\ upto = IF Len(Source.rows) <= offset + n THEN Len(Source.rows) ELSE offset + n
    BY <1>2, <1>3, MinOfTwo
  <2> QED
    BY <1>2, <1>3, <2>1
<1> HIDE DEF upto
<1>5. m \in Nat /\ at \in [1..m -> DOMAIN Source.rows] /\ IsInjective(at)
      /\ \A i, j \in 1..m : i < j => at[i] < at[j]
  BY <1>2, <1>3, <1>4 DEF IsInjective
<1>6. SubSeq(Source.rows, offset + 1, upto) = [i \in 1..m |-> Source.rows[at[i]]]
  <2>1. SubSeq(Source.rows, offset + 1, upto)
          = [i \in 1..m |-> Source.rows[i + (offset + 1) - 1]]
    BY <1>2, <1>3, <1>4
  <2> QED
    BY <1>3, <2>1
<1>7. Store([Source EXCEPT !.rows = SubSeq(Source.rows, offset + 1, upto)])
  BY DEF LimitRows, upto
<1> HIDE DEF m, at
<1>8. Sound(u)
  <2>1. Source.ordered \in BOOLEAN
    BY <1>1 DEF Table
  <2> QED
    BY <1>1, <1>5, <2>1, TakenRowsAreSound
<1>9. u = [Source EXCEPT !.rows = SubSeq(Source.rows, offset + 1, upto)]
  BY <1>1, <1>6 DEF Table
<1> QED
  BY <1>7, <1>8, <1>9, StoredIsSound

\* and a sample some of them, which are a ranking no longer.
LEMMA SampleIsSound ==
  ASSUME IInv, NEW n \in Limits, SampleRows(n) PROVE IInv'
<1>1. Sound(Source) /\ Source \in Table(data)
  BY SourceIsSound DEF Sound, Typed
<1>2. n \in Nat
  BY TablesAssumption DEF Limits
<1>3. CASE Store(Source)
  BY <1>1, <1>3, StoredIsSound
<1>4. ASSUME NEW pick \in [1..n -> DOMAIN Source.rows], IsInjective(pick),
             Store(Sample(Rows(pick)))
      PROVE  IInv'
  <2> DEFINE u == [Source EXCEPT !.rows = [i \in 1..n |-> Source.rows[pick[i]]],
                                 !.ordered = FALSE]
  <2>1. Sound(u)
    BY <1>1, <1>2, <1>4, TakenRowsAreSound
  <2>2. u = Sample(Rows(pick))
    BY <1>1, <1>4 DEF Sample, Rows, Table
  <2> QED
    BY <1>4, <2>1, <2>2, StoredIsSound
<1> QED
  BY <1>3, <1>4 DEF SampleRows, Picked

\* A row whose rank or values are replaced is a row, for the same records.
LEMMA RowWithRank ==
  ASSUME NEW d, NEW r \in Row(d), NEW k \in Nat
  PROVE  /\ [r EXCEPT !.rank = k] \in Row(d) /\ [r EXCEPT !.rank = k].rank = k
         /\ [r EXCEPT !.rank = k].values = r.values /\ [r EXCEPT !.rank = k].of = r.of
BY DEF Row

LEMMA RowWithValues ==
  ASSUME NEW d, NEW r \in Row(d), NEW v \in Seq(Cell)
  PROVE  /\ [r EXCEPT !.values = v] \in Row(d) /\ [r EXCEPT !.values = v].values = v
         /\ [r EXCEPT !.values = v].rank = r.rank /\ [r EXCEPT !.values = v].of = r.of
BY DEF Row

\* A sort has all of them, numbered in their new order.
LEMMA SortIsSound ==
  ASSUME IInv, NEW by, NEW direction, NEW nulls, SortRows(by, direction, nulls) PROVE IInv'
<1> DEFINE P == DOMAIN Source.rows
<1>1. Sound(Source) /\ Source \in Table(data)
  BY SourceIsSound DEF Sound, Typed
<1>2. Len(Source.rows) \in Nat /\ P = 1..Len(Source.rows) /\ Cardinality(P) = Len(Source.rows)
  <2>1. Len(Source.rows) \in Nat /\ P = 1..Len(Source.rows)
    BY <1>1 DEF Table
  <2> QED
    BY <2>1, FS_Interval
<1>3. PICK at \in [1..Cardinality(P) -> P] :
        /\ IsInjective(at)
        /\ Store([Source EXCEPT !.ordered = TRUE, !.rows =
                     [n \in DOMAIN at |-> [Source.rows[at[n]] EXCEPT !.rank = n]]])
  BY DEF SortRows, InOrder
<1> DEFINE n == Len(Source.rows)
           t == [Source EXCEPT !.rows = [i \in 1..n |-> Source.rows[at[i]]], !.ordered = FALSE]
           rows == [i \in 1..n |-> [t.rows[i] EXCEPT !.rank = i]]
           u == [t EXCEPT !.ordered = TRUE, !.rows = rows]
<1>4. Sound(t)
  <2>1. at \in [1..n -> DOMAIN Source.rows] /\ n \in Nat
    BY <1>2
  <2> QED
    BY <1>1, <1>3, <2>1, TakenRowsAreSound
<1>5. /\ t \in Table(data) /\ DOMAIN t.rows = 1..n
      /\ \A i \in 1..n : t.rows[i] \in Row(data) /\ Len(t.rows[i].values) = Len(t.columns)
  <2>1. t \in Table(data) /\ \A i \in DOMAIN t.rows : Len(t.rows[i].values) = Len(t.columns)
    BY <1>4 DEF Sound, Typed
  <2>2. DOMAIN t.rows = 1..n /\ t.rows \in Seq(Row(data))
    <3>1. t.rows \in Seq(Row(data))
      BY <2>1 DEF Table
    <3>2. t.rows = [i \in 1..n |-> Source.rows[at[i]]]
      BY <1>1 DEF Table
    <3> QED
      BY <3>1, <3>2
  <2> HIDE DEF t
  <2> QED
    BY <2>1, <2>2
<1>6. u = [Source EXCEPT !.ordered = TRUE, !.rows =
              [i \in DOMAIN at |-> [Source.rows[at[i]] EXCEPT !.rank = i]]]
  <2>1. rows = [i \in DOMAIN at |-> [Source.rows[at[i]] EXCEPT !.rank = i]]
    BY <1>1, <1>2 DEF Table
  <2> QED
    BY <1>1, <2>1 DEF Table
<1> HIDE DEF t
<1>7. /\ rows \in Seq(Row(data)) /\ DOMAIN rows = 1..n
      /\ \A i \in 1..n : /\ rows[i].values = t.rows[i].values /\ rows[i].of = t.rows[i].of
                         /\ rows[i].rank = i
  <2>1. \A i \in 1..n :
          /\ [t.rows[i] EXCEPT !.rank = i] \in Row(data)
          /\ rows[i].values = t.rows[i].values /\ rows[i].of = t.rows[i].of
          /\ rows[i].rank = i
    <3> TAKE i \in 1..n
    <3>1. i \in Nat /\ t.rows[i] \in Row(data)
      BY <1>2, <1>5
    <3>2. rows[i] = [t.rows[i] EXCEPT !.rank = i]
      OBVIOUS
    <3> HIDE DEF rows
    <3> QED
      BY <3>1, <3>2, RowWithRank
  <2>2. rows = [i \in 1..n |-> rows[i]] /\ n \in Nat /\ \A i \in 1..n : rows[i] \in Row(data)
    BY <1>2, <2>1
  <2> HIDE DEF rows, n
  <2>3. rows \in Seq(Row(data)) /\ DOMAIN rows = 1..n
    BY <2>2, MadeIsSequence
  <2> QED
    BY <2>1, <2>3
<1> HIDE DEF rows
<1>8. /\ u \in Table(data) /\ u.columns = t.columns /\ u.rows = rows
      /\ u.derived = t.derived /\ u.ordered = TRUE
  BY <1>5, <1>7 DEF Table
<1> HIDE DEF u, n
<1>9. Sound(u)
  <2>1. Typed(u) /\ Apart(u) /\ Ranked(u)
    BY <1>4, <1>5, <1>7, <1>8 DEF Sound, Typed, Apart, Ranked
  <2>2. Single(u)
    <3> SUFFICES ASSUME ~u.derived, NEW i \in DOMAIN u.rows PROVE \E x : u.rows[i].of = {x}
      BY DEF Single
    <3>1. ~t.derived /\ u.rows[i].of = t.rows[i].of /\ i \in DOMAIN t.rows
      BY <1>5, <1>7, <1>8
    <3>2. \E x : t.rows[i].of = {x}
      BY <1>4, <3>1 DEF Sound, Single
    <3> QED
      BY <3>1, <3>2
  <2>3. Counted(u)
    BY <1>4, <1>5, <1>7, <1>8 DEF Sound, Counted
  <2> QED
    BY <2>1, <2>2, <2>3 DEF Sound
<1> QED
  BY <1>3, <1>6, <1>9, StoredIsSound

\* A column more, which counts nothing.
LEMMA WiderIsSound ==
  ASSUME NEW t, Sound(t), NEW c \in ColumnSpec, c.counts = FALSE,
         NEW cells \in [DOMAIN t.rows -> Cell]
  PROVE  Sound([t EXCEPT !.columns = Append(@, c), !.rows =
                   [i \in DOMAIN @ |-> [t.rows[i] EXCEPT !.values = Append(t.rows[i].values, cells[i])]]])
<1> DEFINE rows == [i \in DOMAIN t.rows |->
                      [t.rows[i] EXCEPT !.values = Append(t.rows[i].values, cells[i])]]
           u == [t EXCEPT !.columns = Append(@, c), !.rows = rows]
<1>1. /\ t \in Table(data) /\ DOMAIN t.rows = 1..Len(t.rows) /\ Len(t.rows) \in Nat
      /\ t.columns \in Seq(ColumnSpec) /\ Append(t.columns, c) \in Seq(ColumnSpec)
      /\ \A i \in DOMAIN t.rows :
            t.rows[i] \in Row(data) /\ Len(t.rows[i].values) = Len(t.columns)
  BY DEF Sound, Typed, Table
<1>2. \A i \in DOMAIN t.rows :
        /\ rows[i] \in Row(data)
        /\ rows[i].values = Append(t.rows[i].values, cells[i])
        /\ rows[i].of = t.rows[i].of /\ rows[i].rank = t.rows[i].rank
  <2> TAKE i \in DOMAIN t.rows
  <2> DEFINE v == Append(t.rows[i].values, cells[i])
  <2>1. t.rows[i] \in Row(data) /\ v \in Seq(Cell)
    BY <1>1 DEF Row
  <2>2. rows[i] = [t.rows[i] EXCEPT !.values = v]
    OBVIOUS
  <2> HIDE DEF rows, v
  <2>3. /\ rows[i] \in Row(data) /\ rows[i].values = v
        /\ rows[i].of = t.rows[i].of /\ rows[i].rank = t.rows[i].rank
    BY <2>1, <2>2, RowWithValues
  <2> QED
    BY <2>3 DEF v
<1>3. rows \in Seq(Row(data)) /\ DOMAIN rows = DOMAIN t.rows
  <2> HIDE DEF u
  <2>1. rows = [i \in 1..Len(t.rows) |-> rows[i]]
        /\ \A i \in 1..Len(t.rows) : rows[i] \in Row(data)
    BY <1>1, <1>2
  <2> HIDE DEF rows
  <2> QED
    BY <1>1, <2>1, MadeIsSequence
<1> HIDE DEF rows
<1>4. /\ u \in Table(data) /\ u.columns = Append(t.columns, c) /\ u.rows = rows
      /\ u.derived = t.derived /\ u.ordered = t.ordered
  BY <1>1, <1>3 DEF Table
<1> HIDE DEF u
<1>5. \A i \in DOMAIN t.rows :
        /\ t.rows[i].values \in Seq(Cell) /\ cells[i] \in Cell
        /\ Len(rows[i].values) = Len(t.columns) + 1
        /\ \A j \in DOMAIN t.columns : rows[i].values[j] = t.rows[i].values[j]
  <2> TAKE i \in DOMAIN t.rows
  <2>1. t.rows[i].values \in Seq(Cell) /\ cells[i] \in Cell
    BY <1>1 DEF Row
  <2>2. /\ Len(t.rows[i].values) = Len(t.columns) /\ t.columns \in Seq(ColumnSpec)
        /\ rows[i].values = Append(t.rows[i].values, cells[i])
    BY <1>1, <1>2
  <2> DEFINE w == t.rows[i].values
             x == cells[i]
  <2>3. Len(Append(w, x)) = Len(w) + 1 /\ \A j \in 1..Len(w) : Append(w, x)[j] = w[j]
    <3>1. w \in Seq(Cell) /\ x \in Cell
      BY <2>1
    <3> HIDE DEF w, x
    <3> QED
      BY <3>1
  <2>4. DOMAIN t.columns = 1..Len(t.columns)
    BY <2>2
  <2>5. rows[i].values = Append(w, x) /\ Len(w) = Len(t.columns)
    BY <2>2
  <2> HIDE DEF w, x
  <2>6. Len(rows[i].values) = Len(t.columns) + 1
        /\ \A j \in DOMAIN t.columns : rows[i].values[j] = w[j]
    BY <2>3, <2>4, <2>5
  <2> QED
    BY <2>1, <2>6 DEF w
<1>6. Typed(u)
  BY <1>1, <1>3, <1>4, <1>5 DEF Typed
<1>7. Apart(u) /\ Ranked(u)
  BY <1>2, <1>3, <1>4 DEF Sound, Apart, Ranked
<1>8. Single(u)
  <2> SUFFICES ASSUME ~u.derived, NEW i \in DOMAIN u.rows PROVE \E x : u.rows[i].of = {x}
    BY DEF Single
  <2>1. ~t.derived /\ u.rows[i].of = t.rows[i].of /\ i \in DOMAIN t.rows
    BY <1>2, <1>3, <1>4
  <2>2. \E x : t.rows[i].of = {x}
    BY <2>1 DEF Sound, Single
  <2> QED
    BY <2>1, <2>2
<1>9. Counted(u)
  <2> SUFFICES ASSUME NEW k \in DOMAIN u.columns, u.columns[k].counts
               PROVE  /\ u.columns[k].made = "number"
                      /\ \A i \in DOMAIN u.rows :
                            /\ u.rows[i].values[k] \in Nat
                            /\ \/ u.rows[i].values[k] <= Cardinality(u.rows[i].of)
                               \/ u.rows[i].values[k] <= 1
    BY DEF Counted
  <2>1. k \in DOMAIN t.columns /\ u.columns[k] = t.columns[k]
    BY <1>1, <1>4
  <2> QED
    BY <1>2, <1>3, <1>4, <1>5, <2>1 DEF Sound, Counted
<1> QED
  BY <1>6, <1>7, <1>8, <1>9 DEF Sound, u, rows

\* The value of a column in a row.
LEMMA ValueIsACell ==
  ASSUME NEW t, Typed(t), NEW i \in DOMAIN t.rows, NEW name, Has(t, name)
  PROVE  Value(t, t.rows[i], name) \in Cell
<1>1. At(t, name) \in DOMAIN t.columns
  BY AtIsAColumn DEF Typed, Table
<1>2. t.rows[i].values \in Seq(Cell) /\ Len(t.rows[i].values) = Len(t.columns)
      /\ t.columns \in Seq(ColumnSpec)
  <2>1. t.columns \in Seq(ColumnSpec) /\ t.rows \in Seq(Row(data))
    BY DEF Typed, Table
  <2>2. t.rows[i] \in Row(data)
    BY <2>1
  <2> QED
    BY <2>1, <2>2 DEF Typed, Row
<1> QED
  BY <1>1, <1>2 DEF Value

\* derive_column adds a constant or a copy.
LEMMA DeriveIsSound ==
  ASSUME IInv, NEW name \in NewName, DeriveColumn(name) PROVE IInv'
<1>1. Sound(Source) /\ Typed(Source)
  BY SourceIsSound DEF Sound
<1>2. \A type \in Type : Derived(name, type) \in ColumnSpec /\ Derived(name, type).counts = FALSE
  BY TablesAssumption DEF Derived, Column, Holds, ColumnSpec
<1>3. ASSUME NEW n \in Number, Store(Wider(name, "numerical", LAMBDA i : n)) PROVE IInv'
  <2> DEFINE cells == [i \in DOMAIN Source.rows |-> n]
             c == Derived(name, "numerical")
             u == [Source EXCEPT !.columns = Append(@, c), !.rows =
                       [i \in DOMAIN @ |->
                           [Source.rows[i] EXCEPT !.values = Append(Source.rows[i].values, cells[i])]]]
  <2>1. cells \in [DOMAIN Source.rows -> Cell] /\ c \in ColumnSpec /\ c.counts = FALSE
    BY <1>2, TablesAssumption DEF Cell, Type
  <2>2. Wider(name, "numerical", LAMBDA i : n) = u
    BY <1>1 DEF Wider, Written, Typed, Table
  <2> HIDE DEF cells, c
  <2>3. Sound(u)
    BY <1>1, <2>1, WiderIsSound
  <2> QED
    BY <1>3, <2>2, <2>3, StoredIsSound
<1>4. ASSUME NEW other, Has(Source, other), NEW type \in {"numerical", "text"},
             Store(Wider(name, type, LAMBDA i : Value(Source, Source.rows[i], other)))
      PROVE  IInv'
  <2> DEFINE cells == [i \in DOMAIN Source.rows |-> Value(Source, Source.rows[i], other)]
             c == Derived(name, type)
             u == [Source EXCEPT !.columns = Append(@, c), !.rows =
                       [i \in DOMAIN @ |->
                           [Source.rows[i] EXCEPT !.values = Append(Source.rows[i].values, cells[i])]]]
  <2>1. cells \in [DOMAIN Source.rows -> Cell] /\ c \in ColumnSpec /\ c.counts = FALSE
    BY <1>1, <1>2, <1>4, ValueIsACell DEF Type
  <2>2. Wider(name, type, LAMBDA i : Value(Source, Source.rows[i], other)) = u
    BY <1>1 DEF Wider, Written, Typed, Table
  <2> HIDE DEF cells, c
  <2>3. Sound(u)
    BY <1>1, <2>1, WiderIsSound
  <2> QED
    BY <1>4, <2>2, <2>3, StoredIsSound
<1>5. CASE \E n \in Number : Store(Wider(name, "numerical", LAMBDA i : n))
  BY <1>3, <1>5
<1>6. ASSUME NEW other, Reads(Source, other),
             Store(Wider(name, IF IsNumber(Source, other) THEN "numerical" ELSE "text",
                         LAMBDA i : Value(Source, Source.rows[i], other)))
      PROVE  IInv'
  <2>1. Has(Source, other)
    BY <1>6 DEF Reads
  <2>2. CASE IsNumber(Source, other)
    BY <1>4, <1>6, <2>1, <2>2 DEF Wider
  <2>3. CASE ~IsNumber(Source, other)
    BY <1>4, <1>6, <2>1, <2>3 DEF Wider
  <2> QED
    BY <2>2, <2>3
<1> QED
  BY <1>5, <1>6 DEF DeriveColumn

\* Some of the columns, each maybe more than once.
LEMMA ProjectedIsSound ==
  ASSUME NEW t, Sound(t), NEW n \in Nat, NEW at \in [1..n -> DOMAIN t.columns]
  PROVE  Sound([t EXCEPT !.columns = [i \in 1..n |-> t.columns[at[i]]], !.rows =
                   [r \in DOMAIN @ |-> [t.rows[r] EXCEPT !.values =
                       [i \in 1..n |-> t.rows[r].values[at[i]]]]]])
<1> DEFINE columns == [i \in 1..n |-> t.columns[at[i]]]
           rows == [r \in DOMAIN t.rows |-> [t.rows[r] EXCEPT !.values =
                       [i \in 1..n |-> t.rows[r].values[at[i]]]]]
           u == [t EXCEPT !.columns = columns, !.rows = rows]
<1>1. /\ t \in Table(data) /\ DOMAIN t.rows = 1..Len(t.rows) /\ Len(t.rows) \in Nat
      /\ t.columns \in Seq(ColumnSpec) /\ DOMAIN t.columns = 1..Len(t.columns)
      /\ \A r \in DOMAIN t.rows :
            t.rows[r] \in Row(data) /\ Len(t.rows[r].values) = Len(t.columns)
  BY DEF Sound, Typed, Table
<1>2. columns \in Seq(ColumnSpec) /\ DOMAIN columns = 1..n /\ Len(columns) = n
      /\ \A i \in 1..n : columns[i] = t.columns[at[i]] /\ at[i] \in DOMAIN t.columns
  <2>1. /\ columns = [i \in 1..n |-> columns[i]]
        /\ \A i \in 1..n : columns[i] = t.columns[at[i]] /\ at[i] \in DOMAIN t.columns
    OBVIOUS
  <2>2. \A i \in 1..n : t.columns[at[i]] \in ColumnSpec
    BY <1>1
  <2> HIDE DEF columns
  <2> QED
    BY <2>1, <2>2, MadeIsSequence
<1>3. \A r \in DOMAIN t.rows :
        /\ rows[r] \in Row(data) /\ rows[r].of = t.rows[r].of /\ rows[r].rank = t.rows[r].rank
        /\ Len(rows[r].values) = n
        /\ \A i \in 1..n : rows[r].values[i] = t.rows[r].values[at[i]]
  <2> TAKE r \in DOMAIN t.rows
  <2> DEFINE v == [i \in 1..n |-> t.rows[r].values[at[i]]]
  <2>1. t.rows[r] \in Row(data) /\ v \in Seq(Cell) /\ Len(v) = n
    <3>1. t.rows[r] \in Row(data) /\ t.rows[r].values \in Seq(Cell)
      BY <1>1 DEF Row
    <3>2. \A i \in 1..n : t.rows[r].values[at[i]] \in Cell
      BY <1>1, <3>1
    <3> QED
      BY <3>1, <3>2
  <2>2. rows[r] = [t.rows[r] EXCEPT !.values = v] /\ \A i \in 1..n : v[i] = t.rows[r].values[at[i]]
    OBVIOUS
  <2> HIDE DEF rows, v
  <2>3. /\ rows[r] \in Row(data) /\ rows[r].values = v
        /\ rows[r].of = t.rows[r].of /\ rows[r].rank = t.rows[r].rank
    BY <2>1, <2>2, RowWithValues
  <2> QED
    BY <2>1, <2>2, <2>3
<1>4. rows \in Seq(Row(data)) /\ DOMAIN rows = DOMAIN t.rows
  <2>1. rows = [r \in 1..Len(t.rows) |-> rows[r]]
        /\ \A r \in 1..Len(t.rows) : rows[r] \in Row(data)
    BY <1>1, <1>3
  <2> HIDE DEF rows
  <2> QED
    BY <1>1, <2>1, MadeIsSequence
<1> HIDE DEF rows, columns
<1>5. /\ u \in Table(data) /\ u.columns = columns /\ u.rows = rows
      /\ u.derived = t.derived /\ u.ordered = t.ordered
  BY <1>1, <1>2, <1>4 DEF Table
<1> HIDE DEF u
<1>6. Typed(u) /\ Apart(u) /\ Ranked(u)
  BY <1>2, <1>3, <1>4, <1>5 DEF Sound, Typed, Apart, Ranked
<1>7. Single(u)
  <2> SUFFICES ASSUME ~u.derived, NEW r \in DOMAIN u.rows PROVE \E x : u.rows[r].of = {x}
    BY DEF Single
  <2>1. ~t.derived /\ u.rows[r].of = t.rows[r].of /\ r \in DOMAIN t.rows
    BY <1>3, <1>4, <1>5
  <2>2. \E x : t.rows[r].of = {x}
    BY <2>1 DEF Sound, Single
  <2> QED
    BY <2>1, <2>2
<1>8. Counted(u)
  <2> SUFFICES ASSUME NEW k \in DOMAIN u.columns, u.columns[k].counts
               PROVE  /\ u.columns[k].made = "number"
                      /\ \A i \in DOMAIN u.rows :
                            /\ u.rows[i].values[k] \in Nat
                            /\ \/ u.rows[i].values[k] <= Cardinality(u.rows[i].of)
                               \/ u.rows[i].values[k] <= 1
    BY DEF Counted
  <2>1. k \in 1..n /\ u.columns[k] = t.columns[at[k]] /\ at[k] \in DOMAIN t.columns
    BY <1>2, <1>5
  <2> QED
    BY <1>3, <1>4, <1>5, <2>1 DEF Sound, Counted
<1> QED
  BY <1>6, <1>7, <1>8 DEF Sound, u, rows, columns

\* select_columns keeps those that were asked for, in the order of the table.
LEMMA SelectIsSound ==
  ASSUME IInv, NEW wanted, SelectColumns(wanted) PROVE IInv'
<1> DEFINE P == Kept(wanted)
           n == Cardinality(P)
<1>1. Sound(Source) /\ Source \in Table(data)
  BY SourceIsSound DEF Sound, Typed
<1>2. Source.columns \in Seq(ColumnSpec) /\ Len(Source.columns) \in Nat
      /\ DOMAIN Source.columns = 1..Len(Source.columns)
  BY <1>1 DEF Table
<1>3. P \in SUBSET (1..Len(Source.columns))
  BY <1>2 DEF Kept
<1>4. PICK at \in InPlace(P) :
        Store([Source EXCEPT !.columns = Specs(at), !.rows =
                  [r \in DOMAIN @ |-> Written(r,
                      [i \in DOMAIN at |-> Value(Source, @[r], Names(Source)[at[i]])])]])
  BY DEF SelectColumns
<1> HIDE DEF P
<1>5. n \in Nat /\ at \in [1..n -> P]
  BY <1>2, <1>3, <1>4, PlacesInOrder
<1> HIDE DEF n
<1> DEFINE to == [i \in 1..n |-> At(Source, Names(Source)[at[i]])]
           u == [Source EXCEPT !.columns = [i \in 1..n |-> Source.columns[to[i]]], !.rows =
                    [r \in DOMAIN @ |-> [Source.rows[r] EXCEPT !.values =
                        [i \in 1..n |-> Source.rows[r].values[to[i]]]]]]
<1>6. to \in [1..n -> DOMAIN Source.columns]
  <2>1. \A i \in 1..n : Has(Source, Names(Source)[at[i]])
    BY <1>2, <1>3, <1>5 DEF Has, Range, Names
  <2>2. \A i \in 1..n : At(Source, Names(Source)[at[i]]) \in DOMAIN Source.columns
    BY <1>2, <2>1, AtIsAColumn
  <2> QED
    BY <2>2
<1>7. Sound(u)
  <2> HIDE DEF to
  <2> QED
    BY <1>1, <1>5, <1>6, ProjectedIsSound
<1>8. Specs(at) = [i \in 1..n |-> Source.columns[to[i]]]
  BY <1>5 DEF Specs
<1>9. ASSUME NEW r \in DOMAIN Source.rows
      PROVE  Written(r, [i \in DOMAIN at |-> Value(Source, Source.rows[r], Names(Source)[at[i]])])
               = [Source.rows[r] EXCEPT !.values = [i \in 1..n |-> Source.rows[r].values[to[i]]]]
  <2>1. [i \in DOMAIN at |-> Value(Source, Source.rows[r], Names(Source)[at[i]])]
          = [i \in 1..n |-> Source.rows[r].values[to[i]]]
    BY <1>5 DEF Value
  <2> QED
    BY <2>1 DEF Written
<1>10. Store(u)
  BY <1>4, <1>8, <1>9
<1> QED
  BY <1>7, <1>10, StoredIsSound

-----------------------------------------------------------------------------
(* The tools that compute rows.                                            *)

\* Rows are grouped by what a function says of them: every row is in a group,
\* and in one only.
LEMMA AlikeIsPartition ==
  ASSUME NEW K, IsFiniteSet(DOMAIN K)
  PROVE  /\ IsFiniteSet(Alike(K)) /\ UNION Alike(K) = DOMAIN K
         /\ \A g \in Alike(K) : g # {} /\ g \subseteq DOMAIN K /\ \A i, j \in g : K[i] = K[j]
         /\ \A g, h \in Alike(K) : g # h => g \cap h = {}
<1> DEFINE f == [i \in DOMAIN K |-> {j \in DOMAIN K : K[j] = K[i]}]
<1>1. f \in Surjection(DOMAIN K, Alike(K))
  BY DEF Surjection, Alike
<1>2. IsFiniteSet(Alike(K))
  <2> HIDE DEF f
  <2> QED
    BY <1>1, FS_Surjection
<1>3. \A i \in DOMAIN K : i \in {j \in DOMAIN K : K[j] = K[i]}
  OBVIOUS
<1>4. UNION Alike(K) = DOMAIN K
  BY <1>3 DEF Alike
<1>5. ASSUME NEW g \in Alike(K)
      PROVE  g # {} /\ g \subseteq DOMAIN K /\ \A i, j \in g : K[i] = K[j]
  <2>1. PICK i \in DOMAIN K : g = {j \in DOMAIN K : K[j] = K[i]}
    BY DEF Alike
  <2> QED
    BY <2>1
<1>6. ASSUME NEW g \in Alike(K), NEW h \in Alike(K), g # h PROVE g \cap h = {}
  <2>1. PICK i \in DOMAIN K : g = {j \in DOMAIN K : K[j] = K[i]}
    BY DEF Alike
  <2>2. PICK k \in DOMAIN K : h = {j \in DOMAIN K : K[j] = K[k]}
    BY DEF Alike
  <2> QED
    BY <1>6, <2>1, <2>2
<1> QED
  BY <1>2, <1>4, <1>5, <1>6

\* Groups of rows, none of them empty unless it is the only one.
Grouping(G) ==
    /\ IsFiniteSet(G)
    /\ \A g \in G : g \subseteq DOMAIN Source.rows
    /\ \A g, h \in G : g # h => g # {} /\ g \cap h = {}

\* The rows of a group stand for as many records as they are, or are one.
LEMMA StandingIsLarge ==
  ASSUME IInv, NEW g \in SUBSET (DOMAIN Source.rows)
  PROVE  /\ IsFiniteSet(g) /\ Cardinality(g) \in Nat
         /\ Standing(g) \in SUBSET (DOMAIN data)
         /\ Cardinality(g) <= Cardinality(Standing(g)) \/ Cardinality(g) <= 1
<1>1. Sound(Source) /\ Source \in Table(data)
  BY SourceIsSound DEF Sound, Typed
<1>2. /\ Len(Source.rows) \in Nat /\ DOMAIN Source.rows = 1..Len(Source.rows)
      /\ \A i \in DOMAIN Source.rows : Source.rows[i].of \subseteq DOMAIN data
  <2>1. Source.rows \in Seq(Row(data))
    BY <1>1 DEF Table
  <2>2. \A i \in DOMAIN Source.rows : Source.rows[i] \in Row(data)
    BY <2>1
  <2> QED
    BY <2>1, <2>2 DEF Row
<1>3. IsFiniteSet(g) /\ Cardinality(g) \in Nat
  BY <1>2, PlacesInOrder
<1>4. Standing(g) \in SUBSET (DOMAIN data)
  BY <1>2 DEF Standing
<1>5. IsFiniteSet(Standing(g))
  <2>1. data \in Seq(Seq(Cell))
    BY TablesAssumption DEF IInv
  <2>2. IsFiniteSet(DOMAIN data)
    <3>1. DOMAIN data = 1..Len(data) /\ Len(data) \in Nat
      BY <2>1
    <3> QED
      BY <3>1, FS_Interval
  <2> QED
    BY <1>4, <2>2, FS_Subset
<1>6. ASSUME ~(Cardinality(g) <= 1) PROVE Cardinality(g) <= Cardinality(Standing(g))
  <2>1. \A i \in g : \E j \in g : j # i
    <3> SUFFICES ASSUME NEW i \in g, \A j \in g : j = i PROVE FALSE
      OBVIOUS
    <3>1. g = {i}
      OBVIOUS
    <3> QED
      BY <1>6, <3>1, FS_Singleton
  <2>2. \A i \in g : Source.rows[i].of # {}
    BY <1>1, <2>1 DEF Sound, Apart
  <2> DEFINE f == [i \in g |-> CHOOSE x \in Source.rows[i].of : TRUE]
  <2>3. \A i \in g : f[i] \in Source.rows[i].of
    BY <2>2
  <2> HIDE DEF f
  <2>4. f \in [g -> Standing(g)]
    <3>1. DOMAIN f = g /\ f = [i \in g |-> f[i]]
      BY DEF f
    <3> QED
      BY <2>3, <3>1 DEF Standing
  <2>5. \A i, j \in g : f[i] = f[j] => i = j
    BY <1>1, <2>3 DEF Sound, Apart
  <2>6. f \in Injection(g, Standing(g))
    BY <2>4, <2>5 DEF Injection, IsInjective
  <2> QED
    BY <1>5, <2>6, FS_Injection
<1> QED
  BY <1>3, <1>4, <1>6

\* A table of groups: a row for each, in some order, with the values given for it.
GroupTable(G, at, columns, size, values) ==
    Bundle(columns, [i \in 1..Cardinality(G) |->
               [values |-> values[at[i]], of |-> Standing(at[i]), rank |-> 0]],
           TRUE, size, FALSE)

\* A table of groups is sound when what it counts are their rows.
LEMMA GroupedIsSound ==
  ASSUME IInv, NEW G, Grouping(G), NEW at \in [1..Cardinality(G) -> G], IsInjective(at),
         NEW columns \in Seq(ColumnSpec), NEW size \in {NoColumn} \cup Name,
         NEW values \in [G -> Seq(Cell)], \A g \in G : Len(values[g]) = Len(columns),
         \A c \in DOMAIN columns : columns[c].counts =>
            columns[c].made = "number" /\ \A g \in G : values[g][c] = Cardinality(g)
  PROVE  Sound(GroupTable(G, at, columns, size, values))
<1> DEFINE n == Cardinality(G)
           rows == [i \in 1..n |-> [values |-> values[at[i]], of |-> Standing(at[i]), rank |-> 0]]
           u == Bundle(columns, rows, TRUE, size, FALSE)
<1>1. n \in Nat
  BY FS_CardinalityType DEF Grouping
<1>2. \A i \in 1..n :
        /\ at[i] \in G /\ at[i] \in SUBSET (DOMAIN Source.rows)
        /\ rows[i] = [values |-> values[at[i]], of |-> Standing(at[i]), rank |-> 0]
        /\ rows[i].values = values[at[i]] /\ rows[i].of = Standing(at[i])
  BY DEF Grouping
<1> HIDE DEF n
<1>3. \A i \in 1..n : rows[i] \in Row(data)
  <2> TAKE i \in 1..n
  <2>1. Standing(at[i]) \in SUBSET (DOMAIN data) /\ values[at[i]] \in Seq(Cell)
    BY <1>2, StandingIsLarge
  <2>2. [values |-> values[at[i]], of |-> Standing(at[i]), rank |-> 0] \in Row(data)
    BY <2>1 DEF Row
  <2> QED
    BY <2>2
<1>4. rows \in Seq(Row(data)) /\ DOMAIN rows = 1..n
  <2>1. rows = [i \in 1..n |-> rows[i]]
    OBVIOUS
  <2> HIDE DEF rows
  <2> QED
    BY <1>1, <1>3, <2>1, MadeIsSequence
<1> HIDE DEF rows
<1>5. /\ u \in Table(data) /\ u.columns = columns /\ u.rows = rows
      /\ u.derived = TRUE /\ u.ordered = FALSE
  BY <1>4 DEF Table, Bundle
<1> HIDE DEF u
<1>6. Typed(u)
  BY <1>2, <1>4, <1>5 DEF Typed
<1>7. Apart(u)
  <2> SUFFICES ASSUME NEW i \in 1..n, NEW j \in 1..n, i # j
               PROVE  rows[i].of # {} /\ rows[i].of \cap rows[j].of = {}
    BY <1>4, <1>5 DEF Apart
  <2>1. at[i] # at[j]
    BY DEF IsInjective, n
  <2>2. at[i] # {} /\ at[j] # {} /\ at[i] \cap at[j] = {}
        /\ at[i] \subseteq DOMAIN Source.rows /\ at[j] \subseteq DOMAIN Source.rows
    BY <1>2, <2>1 DEF Grouping
  <2>3. \A k, l \in DOMAIN Source.rows : k # l =>
          Source.rows[k].of # {} /\ Source.rows[k].of \cap Source.rows[l].of = {}
    BY SourceIsSound DEF Sound, Apart
  <2>6. PICK k \in at[i], l \in at[j] : k # l
    BY <2>2
  <2>4. Standing(at[i]) # {}
    <3>1. Source.rows[k].of # {}
      BY <2>2, <2>3, <2>6
    <3> QED
      BY <3>1 DEF Standing
  <2>5. Standing(at[i]) \cap Standing(at[j]) = {}
    BY <2>2, <2>3 DEF Standing
  <2> QED
    BY <1>2, <2>4, <2>5
<1>8. Single(u) /\ Ranked(u)
  BY <1>5 DEF Single, Ranked
<1>9. Counted(u)
  <2> SUFFICES ASSUME NEW c \in DOMAIN columns, columns[c].counts
               PROVE  /\ columns[c].made = "number"
                      /\ \A i \in 1..n :
                            /\ rows[i].values[c] \in Nat
                            /\ \/ rows[i].values[c] <= Cardinality(rows[i].of)
                               \/ rows[i].values[c] <= 1
    BY <1>4, <1>5 DEF Counted
  <2>1. columns[c].made = "number" /\ \A g \in G : values[g][c] = Cardinality(g)
    OBVIOUS
  <2>2. \A i \in 1..n : rows[i].values[c] = Cardinality(at[i]) /\ rows[i].of = Standing(at[i])
    BY <1>2, <2>1
  <2>3. \A i \in 1..n :
          /\ Cardinality(at[i]) \in Nat
          /\ Cardinality(at[i]) <= Cardinality(Standing(at[i])) \/ Cardinality(at[i]) <= 1
    BY <1>2, StandingIsLarge
  <2> QED
    BY <2>1, <2>2, <2>3
<1> QED
  BY <1>6, <1>7, <1>8, <1>9 DEF Sound, GroupTable, u, rows, n


\* A call reads finitely many rows, each with a value per column.
LEMMA SourceRows ==
  ASSUME IInv
  PROVE  /\ Sound(Source) /\ Typed(Source) /\ Source \in Table(data)
         /\ Source.columns \in Seq(ColumnSpec) /\ Len(Source.columns) \in Nat
         /\ DOMAIN Source.columns = 1..Len(Source.columns)
         /\ Len(Source.rows) \in Nat /\ DOMAIN Source.rows = 1..Len(Source.rows)
         /\ IsFiniteSet(DOMAIN Source.rows) /\ Cardinality(DOMAIN Source.rows) = Len(Source.rows)
<1>1. Sound(Source) /\ Typed(Source) /\ Source \in Table(data)
  BY SourceIsSound DEF Sound, Typed
<1>2. /\ Source.columns \in Seq(ColumnSpec) /\ Len(Source.columns) \in Nat
      /\ DOMAIN Source.columns = 1..Len(Source.columns)
      /\ Len(Source.rows) \in Nat /\ DOMAIN Source.rows = 1..Len(Source.rows)
  BY <1>1 DEF Table
<1>3. IsFiniteSet(DOMAIN Source.rows) /\ Cardinality(DOMAIN Source.rows) = Len(Source.rows)
  BY <1>2, FS_Interval
<1> QED
  BY <1>1, <1>2, <1>3

\* The groups of an aggregate, with or without keys.
LEMMA GroupsAreAGrouping ==
  ASSUME IInv, NEW keys
  PROVE  /\ Grouping(Groups(keys)) /\ UNION Groups(keys) = DOMAIN Source.rows
         /\ keys # <<>> => \A g \in Groups(keys) : g # {}
<1>1. CASE keys = <<>>
  <2>1. Groups(keys) = {DOMAIN Source.rows}
    BY <1>1 DEF Groups
  <2>2. IsFiniteSet(Groups(keys))
    BY <2>1, FS_Singleton
  <2> QED
    BY <1>1, <2>1, <2>2 DEF Grouping
<1>2. CASE keys # <<>>
  <2>1. Groups(keys) = Alike(KeyOf(keys)) /\ DOMAIN KeyOf(keys) = DOMAIN Source.rows
    BY <1>2 DEF Groups, KeyOf
  <2>2. IsFiniteSet(DOMAIN KeyOf(keys))
    BY <2>1, SourceRows
  <2> DEFINE K == KeyOf(keys)
  <2>3. /\ IsFiniteSet(Alike(K)) /\ UNION Alike(K) = DOMAIN K
        /\ \A g \in Alike(K) : g # {} /\ g \subseteq DOMAIN K
        /\ \A g, h \in Alike(K) : g # h => g \cap h = {}
    <3> HIDE DEF K
    <3> QED
      BY <2>1, <2>2, AlikeIsPartition DEF K
  <2> QED
    BY <2>1, <2>3 DEF Grouping
<1> QED
  BY <1>1, <1>2

\* The members of finitely many sets, each tagged with its own, are finitely many.
LEMMA TotalIsNumber ==
  ASSUME NEW f, IsFiniteSet(DOMAIN f), \A i \in DOMAIN f : f[i] \in Nat
  PROVE  /\ Total(f) \in Nat
         /\ IsFiniteSet(UNION {{i} \X (1..f[i]) : i \in DOMAIN f})
<1> DEFINE S == {{i} \X (1..f[i]) : i \in DOMAIN f}
           F == [i \in DOMAIN f |-> {i} \X (1..f[i])]
<1>1. IsFiniteSet(S)
  <2>1. F \in Surjection(DOMAIN f, S)
    BY DEF Surjection
  <2> HIDE DEF F, S
  <2> QED
    BY <2>1, FS_Surjection
<1>2. \A T \in S : IsFiniteSet(T)
  <2> SUFFICES ASSUME NEW i \in DOMAIN f PROVE IsFiniteSet({i} \X (1..f[i]))
    OBVIOUS
  <2>1. IsFiniteSet({i})
    BY FS_Singleton
  <2>3. f[i] \in Int
    OBVIOUS
  <2>2. IsFiniteSet(1..f[i])
    BY <2>3, FS_Interval
  <2> QED
    BY <2>1, <2>2, FS_Product
<1>3. IsFiniteSet(UNION S)
  <2> HIDE DEF S
  <2> QED
    BY <1>1, <1>2, FS_UNION
<1> QED
  BY <1>3, FS_CardinalityType DEF Total

\* What a function takes some values to has a greatest value, and is finite.
LEMMA RangeHasGreatest ==
  ASSUME NEW f, IsFiniteSet(DOMAIN f), DOMAIN f # {}, \A i \in DOMAIN f : f[i] \in Nat,
         f = [i \in DOMAIN f |-> f[i]]
  PROVE  IsFiniteSet(Range(f)) /\ Max(Range(f)) \in Nat
<1>1. Range(f) \in SUBSET Nat /\ Range(f) # {}
  BY DEF Range
<1>2. f \in Surjection(DOMAIN f, Range(f))
  BY DEF Surjection, Range
<1>3. IsFiniteSet(Range(f))
  BY <1>2, FS_Surjection
<1> QED
  BY <1>1, <1>3, MaxIsGreatest

\* A measure of a group is a number, or nothing when no row of it has a value.
LEMMA MeasureIsACell ==
  ASSUME IInv, NEW m \in Measures, NEW g \in SUBSET (DOMAIN Source.rows)
  PROVE  MeasureValue(m, g) \in Cell
<1>1. IsFiniteSet(g) /\ Cardinality(g) \in Nat
  BY StandingIsLarge
<1>2. CASE m.column = NoColumn
  BY <1>1, <1>2 DEF MeasureValue, Cell
<1>3. CASE m.column # NoColumn
  <2> DEFINE present == {i \in g : Value(Source, Source.rows[i], m.column) # NoValue}
             found == [i \in present |-> Value(Source, Source.rows[i], m.column)]
  <2>1. m.function \in Functions /\ m.column \in Range(Names(Source)) /\ Has(Source, m.column)
    BY <1>3 DEF Measures, Has
  <2>2. \A i \in present : found[i] \in Nat
    BY <2>1, SourceRows, ValueIsACell DEF Cell
  <2>3. IsFiniteSet(present) /\ Cardinality(present) \in Nat /\ DOMAIN found = present
    BY <1>1, FS_Subset, FS_CardinalityType
  <2>4. MeasureValue(m, g) = Measured(m.function, m.column, g)
    BY <1>3 DEF MeasureValue
  <2>5. Measured(m.function, m.column, g)
          = IF m.function = "count" THEN Cardinality(DOMAIN found)
            ELSE IF DOMAIN found = {} THEN NoValue
            ELSE IF m.function = "sum" THEN Total(found) ELSE Max(Range(found))
    BY DEF Measured
  <2>6. found = [i \in DOMAIN found |-> found[i]]
    OBVIOUS
  <2> HIDE DEF found, present
  <2>7. CASE m.function = "count"
    BY <2>3, <2>4, <2>5, <2>7 DEF Cell
  <2>8. CASE m.function # "count" /\ DOMAIN found = {}
    BY <2>4, <2>5, <2>8 DEF Cell
  <2>9. CASE m.function = "sum" /\ DOMAIN found # {}
    <3>1. Total(found) \in Nat
      BY <2>2, <2>3, TotalIsNumber
    <3>2. MeasureValue(m, g) = Total(found)
      BY <2>4, <2>5, <2>9
    <3> QED
      BY <3>1, <3>2 DEF Cell
  <2>10. CASE m.function = "max" /\ DOMAIN found # {}
    <3>1. Max(Range(found)) \in Nat
      BY <2>2, <2>3, <2>6, <2>10, RangeHasGreatest
    <3>2. MeasureValue(m, g) = Max(Range(found))
      BY <2>4, <2>5, <2>10
    <3> QED
      BY <3>1, <3>2 DEF Cell
  <2> QED
    BY <2>1, <2>7, <2>8, <2>9, <2>10 DEF Functions
<1> QED
  BY <1>2, <1>3

\* A table of groups where a counted column is the number of rows of a group.
Summarises(t, G) ==
    \E at \in [1..Cardinality(G) -> G], columns \in Seq(ColumnSpec),
       size \in {NoColumn} \cup Name, values \in [G -> Seq(Cell)] :
       /\ IsInjective(at)
       /\ \A g \in G : Len(values[g]) = Len(columns)
       /\ \A c \in DOMAIN columns : columns[c].counts =>
             columns[c].made = "number" /\ \A g \in G : values[g][c] = Cardinality(g)
       /\ t = GroupTable(G, at, columns, size, values)

\* Its last column is a counted one.
Sized(t) == t.columns # <<>> /\ t.columns[Len(t.columns)].counts

\* Such a table is sound, and stands for the rows that are in a group.
LEMMA SummaryIsSound ==
  ASSUME IInv, NEW G, Grouping(G), NEW t, Summarises(t, G)
  PROVE  /\ Sound(t) /\ Disjoint(t.rows)
         /\ Covered(t.rows) = Standing(UNION G)
<1> DEFINE n == Cardinality(G)
<1>1. PICK at \in [1..n -> G], columns \in Seq(ColumnSpec),
           size \in {NoColumn} \cup Name, values \in [G -> Seq(Cell)] :
        /\ IsInjective(at)
        /\ \A g \in G : Len(values[g]) = Len(columns)
        /\ \A c \in DOMAIN columns : columns[c].counts =>
              columns[c].made = "number" /\ \A g \in G : values[g][c] = Cardinality(g)
        /\ t = GroupTable(G, at, columns, size, values)
  BY DEF Summarises
<1>2. Sound(t)
  BY <1>1, GroupedIsSound
<1>3. /\ DOMAIN t.rows = 1..n
      /\ \A i \in 1..n : t.rows[i].of = Standing(at[i]) /\ at[i] \in G
  BY <1>1 DEF Bundle, GroupTable
<1>4. Disjoint(t.rows)
  BY <1>2 DEF Sound, Apart, Disjoint
<1>5. Covered(t.rows) = Standing(UNION G)
  <2>1. {at[i] : i \in 1..n} = G
    BY <1>1, CountingReachesAll DEF Grouping
  <2> HIDE DEF n
  <2>2. ASSUME NEW x \in Covered(t.rows) PROVE x \in Standing(UNION G)
    <3>1. PICK i \in 1..n : x \in t.rows[i].of
      BY <1>3 DEF Covered, Range
    <3>2. PICK j \in at[i] : x \in Source.rows[j].of
      BY <1>3, <3>1 DEF Standing
    <3>3. j \in UNION G
      BY <1>3
    <3> QED
      BY <3>2, <3>3 DEF Standing
  <2>3. ASSUME NEW x \in Standing(UNION G) PROVE x \in Covered(t.rows)
    <3>1. PICK j \in UNION G : x \in Source.rows[j].of
      BY DEF Standing
    <3>2. PICK g \in G : j \in g
      OBVIOUS
    <3>3. PICK i \in 1..n : at[i] = g
      BY <2>1
    <3>4. x \in t.rows[i].of
      BY <1>3, <3>1, <3>2, <3>3 DEF Standing
    <3> QED
      BY <1>3, <3>4 DEF Covered, Range
  <2> QED
    BY <2>2, <2>3
<1> QED
  BY <1>2, <1>4, <1>5

\* The value of a group under its keys.
LEMMA GroupKeyIsCells ==
  ASSUME IInv, NEW keys \in KeyLists, NEW g \in Groups(keys)
  PROVE  GroupKey(keys, g) \in Seq(Cell) /\ Len(GroupKey(keys, g)) = Len(keys)
<1>1. CASE keys = <<>>
  BY <1>1 DEF GroupKey
<1>2. CASE keys # <<>>
  <2> DEFINE i == CHOOSE i \in g : TRUE
             v == [k \in DOMAIN keys |-> Value(Source, Source.rows[i], keys[k])]
  <2>1. PICK name \in Range(Names(Source)) : keys = <<name>>
    BY <1>2 DEF KeyLists
  <2>2. i \in g /\ i \in DOMAIN Source.rows
    BY <1>2, GroupsAreAGrouping DEF Grouping
  <2> HIDE DEF i
  <2>3. GroupKey(keys, g) = v
    BY <1>2, <2>2 DEF GroupKey, KeyOf, i
  <2>4. Value(Source, Source.rows[i], name) \in Cell
    BY <2>1, <2>2, SourceRows, ValueIsACell DEF Has
  <2>5. DOMAIN keys = 1..1 /\ Len(keys) = 1 /\ keys[1] = name
    BY <2>1
  <2>6. v = [k \in 1..1 |-> v[k]] /\ \A k \in 1..1 : v[k] \in Cell
    BY <2>4, <2>5
  <2> HIDE DEF v
  <2>7. v \in Seq(Cell) /\ Len(v) = 1
    BY <2>6, MadeIsSequence
  <2> QED
    BY <2>3, <2>5, <2>7
<1> QED
  BY <1>1, <1>2

\* The names the tools give.
LEMMA WordsAreNames ==
  /\ <<"count">> \in Name /\ <<"n">> \in Name /\ <<"n_rows">> \in Name
  /\ <<"group_size">> \in Name /\ <<"bin">> \in Name
<1>1. /\ "count" \in Word /\ "n" \in Word /\ "n_rows" \in Word /\ "group_size" \in Word
      /\ "bin" \in Word
  BY WordAssumption
<1>2. \A w \in Word : <<w>> \in Name
  BY DEF Name
<1> QED
  BY <1>1, <1>2

\* The column of a measure.
LEMMA MeasureColumnIsAColumn ==
  ASSUME IInv, NEW m \in Measures
  PROVE  /\ MeasureColumn(m) \in ColumnSpec
         /\ MeasureColumn(m).counts =>
               MeasureColumn(m).made = "number" /\ MeasureColumn(m).name = <<"count">>
               /\ m.column = NoColumn
         /\ MeasureColumn(m).name = <<"count">> => MeasureColumn(m).counts
<1>1. CASE m.column = NoColumn
  <2>1. <<"count">> \in Name
    BY WordsAreNames
  <2> QED
    BY <1>1, <2>1 DEF MeasureColumn, Counting, Column, ColumnSpec, Type
<1>2. CASE m.column # NoColumn
  <2>1. m.function \in Functions /\ m.column \in Range(Names(Source)) /\ Has(Source, m.column)
    BY <1>2 DEF Measures, Has
  <2>2. At(Source, m.column) \in DOMAIN Source.columns
        /\ Source.columns[At(Source, m.column)].name = m.column
    BY <2>1, SourceRows, AtIsAColumn
  <2>3. Source.columns[At(Source, m.column)] \in ColumnSpec
    BY <2>2, SourceRows
  <2>4. m.column \in Name /\ m.function \in Word
    BY <2>1, <2>2, <2>3, WordAssumption DEF ColumnSpec, Functions
  <2>5. <<m.function>> \o m.column \in Name /\ <<m.function>> \o m.column # <<"count">>
    <3> DEFINE title == <<m.function>> \o m.column
    <3>1. title \in Seq(Word) /\ Len(title) = 1 + Len(m.column) /\ Len(m.column) \in Nat \ {0}
      BY <2>4 DEF Name
    <3>2. Len(<<>>) = 0 /\ Len(<<"count">>) = 1
      OBVIOUS
    <3> HIDE DEF title
    <3>3. title # <<>> /\ title # <<"count">>
      <4>1. Len(title) # 0 /\ Len(title) # 1
        BY <3>1
      <4> QED
        BY <3>2, <4>1
    <3> QED
      BY <3>1, <3>3 DEF title, Name
  <2> QED
    BY <1>2, <2>3, <2>5 DEF MeasureColumn, Derived, Column, Holds, ColumnSpec, Type
<1> QED
  BY <1>1, <1>2

\* The name of the column of sizes.
LEMMA SizeNameIsAName == \A taken : SizeName(taken) \in {NoColumn} \cup Name
<1> TAKE taken
<1> DEFINE free == {i \in DOMAIN SizeNames : SizeNames[i] \notin taken}
<1>1. \A i \in DOMAIN SizeNames : SizeNames[i] \in Name
  BY WordsAreNames DEF SizeNames
<1>2. free \in SUBSET Nat
  BY DEF SizeNames
<1>3. SizeName(taken) = IF free = {} THEN NoColumn ELSE SizeNames[Min(free)]
  BY DEF SizeName
<1>4. free # {} => Min(free) \in DOMAIN SizeNames
  <2>1. free # {} => Min(free) \in free
    <3> HIDE DEF free
    <3> QED
      BY <1>2, MinIsLeast
  <2> QED
    BY <2>1
<1> QED
  BY <1>1, <1>3, <1>4

\* aggregate makes a table of its groups, with their sizes at the end.
LEMMA AggregateSummarises ==
  ASSUME IInv, NEW keys \in KeyLists, NEW m \in Measures, Aggregate(keys, m)
  PROVE  \E t : Store(t) /\ Summarises(t, Groups(keys)) /\ Sized(t)
<1> DEFINE G == Groups(keys)
           keyed == [i \in DOMAIN keys |->
                        [Source.columns[At(Source, keys[i])] EXCEPT !.counts = FALSE]]
           plain == Append(keyed, MeasureColumn(m))
           counted == MeasureColumn(m).name = <<"count">>
           size == IF counted THEN <<"count">>
                   ELSE SizeName({plain[i].name : i \in DOMAIN plain})
           columns == IF counted THEN plain ELSE Append(plain, Counting(size))
           Cells(g) == Append(GroupKey(keys, g), MeasureValue(m, g))
           values == [g \in G |-> IF counted THEN Cells(g) ELSE Append(Cells(g), Cardinality(g))]
<1>1. PICK at \in [1..Cardinality(G) -> G] :
        /\ IsInjective(at)
        /\ Store(Bundle(columns, [i \in DOMAIN at |->
                   [values |-> IF counted THEN Cells(at[i])
                               ELSE Append(Cells(at[i]), Cardinality(at[i])),
                    of |-> Standing(at[i]), rank |-> 0]], TRUE, size, FALSE))
  BY DEF Aggregate, InOrder
<1>2. /\ Grouping(G) /\ \A g \in G : g \in SUBSET (DOMAIN Source.rows)
      /\ size # NoColumn
  <2>1. size # NoColumn
    BY DEF Aggregate
  <2> QED
    BY <2>1, GroupsAreAGrouping DEF Grouping
<1>3. keyed \in Seq(ColumnSpec) /\ Len(keyed) = Len(keys) /\ Len(keys) \in Nat
      /\ DOMAIN keys = 1..Len(keys) /\ \A i \in 1..Len(keys) : ~keyed[i].counts
  <2>1. Len(keys) \in Nat /\ DOMAIN keys = 1..Len(keys)
    BY DEF KeyLists
  <2>2. ASSUME NEW i \in 1..Len(keys)
        PROVE  [Source.columns[At(Source, keys[i])] EXCEPT !.counts = FALSE] \in ColumnSpec
               /\ ~[Source.columns[At(Source, keys[i])] EXCEPT !.counts = FALSE].counts
    <3>1. Has(Source, keys[i])
      BY <2>1 DEF Aggregate
    <3>2. At(Source, keys[i]) \in DOMAIN Source.columns
      BY <3>1, SourceRows, AtIsAColumn
    <3>3. Source.columns[At(Source, keys[i])] \in ColumnSpec
      BY <3>2, SourceRows
    <3> QED
      BY <3>3 DEF ColumnSpec
  <2>3. keyed = [i \in 1..Len(keys) |-> keyed[i]]
        /\ \A i \in 1..Len(keys) : keyed[i] \in ColumnSpec /\ ~keyed[i].counts
    BY <2>1, <2>2
  <2> HIDE DEF keyed
  <2> QED
    BY <2>1, <2>3, MadeIsSequence
<1>4. MeasureColumn(m) \in ColumnSpec
  BY MeasureColumnIsAColumn
<1>5. size \in {NoColumn} \cup Name /\ Counting(size) \in ColumnSpec
  <2>1. size \in {NoColumn} \cup Name
    BY WordsAreNames, SizeNameIsAName
  <2> HIDE DEF size
  <2> QED
    BY <1>2, <2>1 DEF Counting, Column, ColumnSpec, Type
<1>6. \A g \in G : GroupKey(keys, g) \in Seq(Cell) /\ Len(GroupKey(keys, g)) = Len(keys)
                   /\ MeasureValue(m, g) \in Cell /\ Cardinality(g) \in Nat
  BY <1>2, GroupKeyIsCells, MeasureIsACell, StandingIsLarge
<1> HIDE DEF G, keyed, size
<1>7. /\ columns \in Seq(ColumnSpec)
      /\ Len(columns) = IF counted THEN Len(keys) + 1 ELSE Len(keys) + 2
      /\ \A c \in 1..Len(columns) :
            columns[c] = IF c <= Len(keys) THEN keyed[c]
                         ELSE IF c = Len(keys) + 1 THEN MeasureColumn(m) ELSE Counting(size)
  <2>1. /\ plain \in Seq(ColumnSpec) /\ Len(plain) = Len(keys) + 1
        /\ \A c \in 1..(Len(keys) + 1) :
              plain[c] = IF c <= Len(keys) THEN keyed[c] ELSE MeasureColumn(m)
    BY <1>3, <1>4
  <2> HIDE DEF plain, counted
  <2>2. CASE counted
    BY <1>3, <2>1, <2>2
  <2>3. CASE ~counted
    BY <1>3, <1>5, <2>1, <2>3
  <2> QED
    BY <2>2, <2>3
<1>8. ASSUME NEW g \in G
      PROVE  /\ values[g] \in Seq(Cell) /\ Len(values[g]) = Len(columns)
             /\ values[g][Len(keys) + 1] = MeasureValue(m, g)
             /\ ~counted => values[g][Len(keys) + 2] = Cardinality(g)
  <2>1. /\ Cells(g) \in Seq(Cell) /\ Len(Cells(g)) = Len(keys) + 1
        /\ Cells(g)[Len(keys) + 1] = MeasureValue(m, g)
    BY <1>3, <1>6
  <2>2. values[g] = IF counted THEN Cells(g) ELSE Append(Cells(g), Cardinality(g))
    OBVIOUS
  <2>3. Cardinality(g) \in Cell
    BY <1>6 DEF Cell
  <2> HIDE DEF values, Cells, counted, columns
  <2>4. CASE counted
    BY <1>3, <1>7, <2>1, <2>2, <2>4
  <2>5. CASE ~counted
    BY <1>3, <1>7, <2>1, <2>2, <2>3, <2>5
  <2> QED
    BY <2>4, <2>5
<1>9. values \in [G -> Seq(Cell)]
  <2>1. values = [g \in G |-> values[g]]
    OBVIOUS
  <2> HIDE DEF values
  <2> QED
    BY <1>8, <2>1
<1>10. ASSUME NEW c \in DOMAIN columns, columns[c].counts
       PROVE  columns[c].made = "number" /\ \A g \in G : values[g][c] = Cardinality(g)
  <2>1. c \in 1..Len(columns) /\ Len(columns) \in Nat
    BY <1>7
  <2> HIDE DEF values, columns
  <2>2. CASE c <= Len(keys)
    BY <1>3, <1>7, <1>10, <2>1, <2>2
  <2>3. CASE c = Len(keys) + 1
    <3>1. columns[c] = MeasureColumn(m)
      BY <1>3, <1>7, <2>1, <2>3
    <3>2. m.column = NoColumn /\ columns[c].made = "number"
      BY <1>10, <3>1, MeasureColumnIsAColumn
    <3>3. \A g \in G : MeasureValue(m, g) = Cardinality(g)
      BY <3>2 DEF MeasureValue
    <3> QED
      BY <1>8, <2>3, <3>2, <3>3
  <2>4. CASE c = Len(keys) + 2
    <3>1. columns[c] = Counting(size) /\ ~counted
      BY <1>3, <1>7, <2>1, <2>4
    <3> HIDE DEF counted
    <3>2. columns[c].made = "number"
      BY <3>1 DEF Counting, Column
    <3> QED
      BY <1>8, <2>4, <3>1, <3>2
  <2> HIDE DEF counted
  <2> QED
    BY <1>3, <1>7, <2>1, <2>2, <2>3, <2>4
<1>11. GroupTable(G, at, columns, size, values)
         = Bundle(columns, [i \in DOMAIN at |->
                   [values |-> IF counted THEN Cells(at[i])
                               ELSE Append(Cells(at[i]), Cardinality(at[i])),
                    of |-> Standing(at[i]), rank |-> 0]], TRUE, size, FALSE)
  <2> HIDE DEF counted, Cells, columns
  <2>1. DOMAIN at = 1..Cardinality(G) /\ \A i \in 1..Cardinality(G) : at[i] \in G
    OBVIOUS
  <2> QED
    BY <2>1 DEF GroupTable
<1> DEFINE t == GroupTable(G, at, columns, size, values)
<1>12. Store(t)
  BY <1>1, <1>11
<1>13. Summarises(t, G)
  <2> HIDE DEF values, columns
  <2> QED
    BY <1>1, <1>5, <1>7, <1>8, <1>9, <1>10 DEF Summarises
<1>14. Sized(t)
  <2>1. t.columns = columns
    BY DEF GroupTable, Bundle
  <2>2. counted => MeasureColumn(m).counts
    BY MeasureColumnIsAColumn
  <2>3. Counting(size).counts
    BY DEF Counting, Column
  <2> HIDE DEF columns, counted, t
  <2>4. Len(columns) >= 1 /\ columns # <<>> /\ columns[Len(columns)].counts
    <3>1. Len(columns) \in Nat \ {0} /\ Len(<<>>) = 0
      BY <1>3, <1>7
    <3>2. columns[Len(columns)] = IF counted THEN MeasureColumn(m) ELSE Counting(size)
      BY <1>3, <1>7, <3>1
    <3> QED
      BY <2>2, <2>3, <3>1, <3>2
  <2> QED
    BY <2>1, <2>4 DEF Sized
<1> QED
  BY <1>12, <1>13, <1>14 DEF G

\* The values of a numeric column in some of the rows, without the missing ones.
LEMMA FoundValues ==
  ASSUME IInv, NEW name \in Range(Names(Source)), NEW P \in SUBSET (DOMAIN Source.rows)
  PROVE  /\ {Value(Source, Source.rows[i], name) : i \in P} \ {NoValue} \in SUBSET Nat
         /\ IsFiniteSet({Value(Source, Source.rows[i], name) : i \in P} \ {NoValue})
<1> DEFINE all == {Value(Source, Source.rows[i], name) : i \in P}
           f == [i \in P |-> Value(Source, Source.rows[i], name)]
<1>1. all \ {NoValue} \in SUBSET Nat
  BY SourceRows, ValueIsACell DEF Has, Cell
<1>2. IsFiniteSet(P)
  BY StandingIsLarge
<1>3. f \in Surjection(P, all)
  BY DEF Surjection
<1> HIDE DEF f, all
<1>4. IsFiniteSet(all)
  BY <1>2, <1>3, FS_Surjection
<1>5. IsFiniteSet(all \ {NoValue})
  BY <1>4, FS_Subset
<1> QED
  BY <1>1, <1>5 DEF all

\* Where the bands begin and end.
LEMMA ExtentOfValues ==
  ASSUME IInv, NEW name \in Range(Names(Source)), Extent(name)[1] < Extent(name)[2]
  PROVE  /\ Extent(name)[1] \in Nat /\ Extent(name)[2] \in Nat
         /\ \A i \in DOMAIN Source.rows :
               LET v == Value(Source, Source.rows[i], name)
               IN v # NoValue => v \in Nat /\ Extent(name)[1] <= v
<1> DEFINE all == {Value(Source, row, name) : row \in Range(Source.rows)} \ {NoValue}
<1>1. all = {Value(Source, Source.rows[i], name) : i \in DOMAIN Source.rows} \ {NoValue}
  BY DEF Range
<1>2. all \in SUBSET Nat /\ IsFiniteSet(all)
  BY <1>1, FoundValues
<1>3. Extent(name) = IF all = {} THEN <<0, 0>> ELSE <<Min(all), Max(all)>>
  BY DEF Extent
<1>4. \A i \in DOMAIN Source.rows :
        Value(Source, Source.rows[i], name) # NoValue => Value(Source, Source.rows[i], name) \in all
  BY <1>1
<1> HIDE DEF all
<1>5. all # {}
  BY <1>3
<1>6. Extent(name)[1] = Min(all) /\ Extent(name)[2] = Max(all)
  BY <1>3, <1>5
<1>7. Min(all) \in all /\ \A y \in all : Min(all) <= y
  BY <1>2, <1>5, MinIsLeast
<1>8. Max(all) \in all
  BY <1>2, <1>5, MaxIsGreatest
<1> QED
  BY <1>2, <1>4, <1>6, <1>7, <1>8

\* A band is one of those asked for.
LEMMA BandIsNumber ==
  ASSUME NEW v \in Cell, NEW extent, NEW n \in Nat, n >= 2,
         extent[1] \in Nat, extent[2] \in Nat, extent[1] < extent[2],
         v # NoValue => extent[1] <= v
  PROVE  Band(v, extent, n) \in 0..(n - 1)
<1>1. CASE v = NoValue
  BY <1>1 DEF Band
<1>2. CASE v # NoValue
  <2> DEFINE a == v - extent[1]
             b == extent[2] - extent[1]
  <2>1. a \in Nat /\ b \in Nat /\ b > 0
    BY <1>2 DEF Cell
  <2> HIDE DEF a, b
  <2>2. a * n \in Nat
    BY <2>1
  <2>3. \A x \in Nat : x \div b \in Nat
    BY <2>1
  <2>4. (a * n) \div b \in Nat
    BY <2>2, <2>3
  <2>5. Min({(a * n) \div b, n - 1}) \in 0..(n - 1)
    <3>1. n - 1 \in Nat
      OBVIOUS
    <3> QED
      BY <2>4, <3>1, MinOfTwo
  <2> QED
    BY <1>2, <2>5 DEF Band, a, b
<1> QED
  BY <1>1, <1>2

\* And it rises with the value.
LEMMA BandRises ==
  ASSUME NEW v \in Nat, NEW w \in Nat, NEW extent, NEW n \in Nat, n >= 2,
         extent[1] \in Nat, extent[2] \in Nat, extent[1] < extent[2],
         extent[1] <= v, v <= w
  PROVE  Band(v, extent, n) <= Band(w, extent, n)
<1> DEFINE a == v - extent[1]
           b == w - extent[1]
           d == extent[2] - extent[1]
<1>1. a \in Nat /\ b \in Nat /\ d \in Nat \ {0} /\ a <= b
  OBVIOUS
<1> HIDE DEF a, b, d
<1>2. a * n \in Nat /\ b * n \in Nat /\ a * n <= b * n
  <2>1. n * a <= n * b /\ n * a = a * n /\ n * b = b * n
    BY <1>1, ProductRises
  <2>2. \A x \in Nat : x * n \in Nat
    OBVIOUS
  <2> QED
    BY <1>1, <2>1, <2>2
<1> DEFINE k == a * n
           l == b * n
           i == k \div d
           j == l \div d
<1>3. i <= j
  <2>1. k \in Int /\ l \in Int /\ k <= l
    BY <1>2
  <2> HIDE DEF k, l
  <2> QED
    BY <1>1, <2>1, QuotientRises
<1>4. i \in Nat /\ j \in Nat
  <2>1. \A x \in Nat : x \div d \in Nat
    BY <1>1
  <2> QED
    BY <1>2, <2>1
<1> HIDE DEF i, j
<1>5. Min({i, n - 1}) <= Min({j, n - 1})
  <2>1. n - 1 \in Nat
    OBVIOUS
  <2>2. /\ Min({i, n - 1}) = IF i <= n - 1 THEN i ELSE n - 1
        /\ Min({j, n - 1}) = IF j <= n - 1 THEN j ELSE n - 1
    BY <1>4, <2>1, MinOfTwo
  <2> QED
    BY <1>3, <1>4, <2>1, <2>2
<1>6. v # NoValue /\ w # NoValue
  BY TablesAssumption
<1> QED
  BY <1>5, <1>6 DEF Band, a, b, d, i, j, k, l

\* There is a name that is free: the names in question are more than the taken.
LEMMA FreeIsAName ==
  ASSUME NEW c \in Name, NEW taken, IsFiniteSet(taken)
  PROVE  Free(c, taken) \in Name
<1> DEFINE K == Cardinality(taken)
           Stem(n) == c \o [i \in 1..n |-> "_"]
           Clash(n) == {Append(Stem(n), "from"), Append(Stem(n), "to")} \cap taken # {}
<1>1. K \in Nat
  BY FS_CardinalityType
<1>2. "_" \in Word /\ "from" \in Word /\ "to" \in Word
  BY WordAssumption
<1>3. ASSUME NEW n \in Nat
      PROVE  /\ Stem(n) \in Name /\ Len(Stem(n)) = Len(c) + n
             /\ Len(Append(Stem(n), "from")) = Len(c) + n + 1
             /\ Len(Append(Stem(n), "to")) = Len(c) + n + 1
  <2> DEFINE tail == [i \in 1..n |-> "_"]
  <2>1. tail \in Seq(Word) /\ Len(tail) = n
    <3>1. tail = [i \in 1..n |-> tail[i]] /\ \A i \in 1..n : tail[i] \in Word
      BY <1>2
    <3> HIDE DEF tail
    <3> QED
      BY <3>1, MadeIsSequence
  <2> HIDE DEF tail
  <2>2. c \o tail \in Seq(Word) /\ Len(c \o tail) = Len(c) + n
    BY <2>1 DEF Name
  <2>3. Stem(n) = c \o tail
    BY DEF tail
  <2> HIDE DEF Stem
  <2>4. Stem(n) \in Seq(Word) /\ Len(Stem(n)) = Len(c) + n
    BY <2>2, <2>3
  <2>5. Len(c) \in Nat /\ \A w \in Word : Len(Append(Stem(n), w)) = Len(Stem(n)) + 1
    BY <2>4 DEF Name
  <2>6. Stem(n) \in Name
    <3>1. Len(c) # 0 /\ Len(<<>>) = 0
      BY DEF Name
    <3>2. Len(Stem(n)) # 0
      BY <2>4, <2>5, <3>1
    <3> QED
      BY <2>4, <3>1, <3>2 DEF Name
  <2> HIDE DEF Clash
  <2> QED
    BY <1>2, <2>4, <2>5, <2>6
<1>4. \E n \in 0..K : ~Clash(n)
  <2> SUFFICES ASSUME \A n \in 0..K : Clash(n) PROVE FALSE
    OBVIOUS
  <2> DEFINE f == [n \in 0..K |->
                     CHOOSE name \in taken :
                         name \in {Append(Stem(n), "from"), Append(Stem(n), "to")}]
  <2> HIDE DEF Stem
  <2>1. \A n \in 0..K : f[n] \in taken /\ Len(f[n]) = Len(c) + n + 1
    <3> TAKE n \in 0..K
    <3>1. \E name \in taken : name \in {Append(Stem(n), "from"), Append(Stem(n), "to")}
      OBVIOUS
    <3>2. f[n] \in taken /\ f[n] \in {Append(Stem(n), "from"), Append(Stem(n), "to")}
      BY <3>1
    <3>3. n \in Nat
      BY <1>1
    <3> HIDE DEF f
    <3> QED
      BY <1>3, <3>2, <3>3
  <2>2. Len(c) \in Nat
    BY DEF Name
  <2>3. f = [n \in 0..K |-> f[n]]
    OBVIOUS
  <2> HIDE DEF f, K
  <2>4. f \in Injection(0..K, taken)
    <3>1. f \in [0..K -> taken]
      BY <2>1, <2>3
    <3>2. \A m, n \in 0..K : f[m] = f[n] => m = n
      BY <1>1, <2>1, <2>2
    <3> QED
      BY <3>1, <3>2 DEF Injection, IsInjective
  <2>5. Cardinality(0..K) <= K
    BY <2>4, FS_Injection DEF K
  <2>6. Cardinality(0..K) = K + 1
    BY <1>1, FS_Interval
  <2> QED
    BY <1>1, <2>5, <2>6
<1>5. \E n \in 0..K : ~Clash(n) /\ \A m \in 0..(n - 1) : Clash(m)
  <2> DEFINE S == {n \in 0..K : ~Clash(n)}
  <2> HIDE DEF Clash
  <2>1. S \in SUBSET Nat /\ S # {}
    BY <1>1, <1>4
  <2>2. PICK n \in S : \A m \in S : n <= m
    <3> HIDE DEF S
    <3> QED
      BY <2>1, LeastNumber
  <2>3. n \in 0..K /\ ~Clash(n)
    OBVIOUS
  <2>4. \A m \in 0..(n - 1) : Clash(m)
    BY <1>1, <2>2, <2>3
  <2> QED
    BY <2>3, <2>4
<1> DEFINE first == CHOOSE n \in 0..K : ~Clash(n) /\ \A m \in 0..(n - 1) : Clash(m)
<1>6. Free(c, taken) = Stem(first)
  BY DEF Free
<1> HIDE DEF Clash, Stem
<1>7. first \in 0..K
  BY <1>5
<1> HIDE DEF first, K
<1>8. first \in Nat
  BY <1>1, <1>7
<1> QED
  BY <1>3, <1>6, <1>8

\* The values of a row of a band.
BinValues(c, n, P, G) ==
    [g \in G |->
        LET found == {Value(Source, Source.rows[i], c) : i \in g} \ {NoValue}
        IN <<GroupBand(c, n, P, g),
             IF found = {} THEN NoValue ELSE Min(found),
             IF found = {} THEN NoValue ELSE Max(found),
             Cardinality(g)>>]

\* They are cells, and the last is the number of rows of the band.
LEMMA BinValuesAreCells ==
  ASSUME IInv, NEW c \in Range(Names(Source)), NEW n \in BinCounts,
         NEW P \in SUBSET (DOMAIN Source.rows), Binnable(c), NEW G, G = Alike(BandOf(c, n, P)),
         NEW g \in G
  PROVE  /\ BinValues(c, n, P, G)[g] \in Seq(Cell) /\ Len(BinValues(c, n, P, G)[g]) = 4
         /\ BinValues(c, n, P, G)[g][4] = Cardinality(g)
<1> DEFINE found == {Value(Source, Source.rows[i], c) : i \in g} \ {NoValue}
           low == IF found = {} THEN NoValue ELSE Min(found)
           high == IF found = {} THEN NoValue ELSE Max(found)
<1>1. g # {} /\ g \in SUBSET P /\ g \in SUBSET (DOMAIN Source.rows)
  <2>1. IsFiniteSet(P) /\ DOMAIN BandOf(c, n, P) = P
    BY StandingIsLarge DEF BandOf
  <2> DEFINE K == BandOf(c, n, P)
  <2>3. IsFiniteSet(DOMAIN K) /\ g \in Alike(K)
    BY <2>1
  <2> HIDE DEF K
  <2>2. g # {} /\ g \subseteq DOMAIN K
    BY <2>3, AlikeIsPartition
  <2> QED
    BY <2>1, <2>2 DEF K
<1>2. found \in SUBSET Nat /\ IsFiniteSet(found)
  BY <1>1, FoundValues
<1>3. BinValues(c, n, P, G)[g] = <<GroupBand(c, n, P, g), low, high, Cardinality(g)>>
  BY DEF BinValues
<1> HIDE DEF found
<1>4. low \in Cell /\ high \in Cell
  <2>1. found # {} => Min(found) \in Nat /\ Max(found) \in Nat
    BY <1>2, MinIsLeast, MaxIsGreatest
  <2> QED
    BY <2>1 DEF Cell
<1>5. GroupBand(c, n, P, g) \in Nat
  <2> DEFINE i == CHOOSE i \in g : TRUE
             v == Value(Source, Source.rows[i], c)
  <2>1. i \in g
    BY <1>1
  <2> HIDE DEF i
  <2>2. i \in P /\ i \in DOMAIN Source.rows
    BY <1>1, <2>1
  <2>3. GroupBand(c, n, P, g) = Band(v, Extent(c), n)
    BY <2>2 DEF GroupBand, BandOf, i
  <2>4. /\ Extent(c)[1] \in Nat /\ Extent(c)[2] \in Nat /\ Extent(c)[1] < Extent(c)[2]
        /\ v # NoValue => Extent(c)[1] <= v
    BY <2>2, ExtentOfValues DEF Binnable
  <2>5. v \in Cell
    BY <2>2, SourceRows, ValueIsACell DEF Has
  <2>6. n \in Nat /\ n >= 2
    BY TablesAssumption DEF BinCounts
  <2> HIDE DEF v
  <2> QED
    BY <2>3, <2>4, <2>5, <2>6, BandIsNumber
<1>6. Cardinality(g) \in Cell /\ GroupBand(c, n, P, g) \in Cell
  BY <1>1, <1>5, StandingIsLarge DEF Cell
<1> HIDE DEF low, high
<1> QED
  BY <1>3, <1>4, <1>6

\* A band holds the rows whose values lie between its edges; the last one also
\* those without a value.
LEMMA BandHoldsItsValues ==
  ASSUME IInv, NEW c \in Range(Names(Source)), NEW n \in BinCounts,
         NEW P \in SUBSET (DOMAIN Source.rows), Filled(c) \subseteq P, Binnable(c),
         NEW G, G = Alike(BandOf(c, n, P)), NEW g \in G,
         NEW row, row.values = BinValues(c, n, P, G)[g]
  PROVE  HoldsItsBand(c, n, P, row)
<1> DEFINE V(i) == Value(Source, Source.rows[i], c)
           K == BandOf(c, n, P)
           found == {V(i) : i \in g} \ {NoValue}
           low == IF found = {} THEN NoValue ELSE Min(found)
           high == IF found = {} THEN NoValue ELSE Max(found)
           bin == GroupBand(c, n, P, g)
           without == IF bin = n - 1 THEN P \ Filled(c) ELSE {}
<1>1. n \in Nat /\ n >= 2
  BY TablesAssumption DEF BinCounts
<1>2. /\ Extent(c)[1] \in Nat /\ Extent(c)[2] \in Nat /\ Extent(c)[1] < Extent(c)[2]
      /\ \A i \in DOMAIN Source.rows : V(i) # NoValue => V(i) \in Nat /\ Extent(c)[1] <= V(i)
  BY ExtentOfValues DEF Binnable
<1>3. \A i \in P : K[i] = Band(V(i), Extent(c), n) /\ K[i] \in 0..(n - 1)
  <2> TAKE i \in P
  <2>1. K[i] = Band(V(i), Extent(c), n)
    BY DEF BandOf
  <2>2. V(i) \in Cell
    BY SourceRows, ValueIsACell DEF Has
  <2> HIDE DEF K, V
  <2>3. Band(V(i), Extent(c), n) \in 0..(n - 1)
    BY <1>1, <1>2, <2>2, BandIsNumber
  <2> QED
    BY <2>1, <2>3
<1>4. /\ g \subseteq P /\ g # {} /\ \A i \in g : \A j \in P : j \in g <=> K[j] = K[i]
  <2>1. DOMAIN K = P
    BY DEF BandOf
  <2>2. PICK i \in DOMAIN K : g = {j \in DOMAIN K : K[j] = K[i]}
    BY DEF Alike
  <2> HIDE DEF K
  <2> QED
    BY <2>1, <2>2
<1>5. /\ bin \in 0..(n - 1) /\ \A j \in P : j \in g <=> K[j] = bin
  <2> DEFINE i == CHOOSE i \in g : TRUE
  <2>1. i \in g
    BY <1>4
  <2>2. bin = K[i]
    BY DEF GroupBand
  <2> HIDE DEF i, bin, K
  <2> QED
    BY <1>3, <1>4, <2>1, <2>2
<1>6. row.values = <<bin, low, high, Cardinality(g)>>
  BY DEF BinValues
<1>7. found \in SUBSET Nat /\ IsFiniteSet(found)
  BY <1>4, FoundValues
<1>8. \A i \in P : i \in Filled(c) <=> V(i) # NoValue
  BY DEF Filled
<1>9. \A i \in g : V(i) # NoValue => V(i) \in found
  OBVIOUS
<1>10. \A x \in found : \E i \in g : x = V(i) /\ V(i) # NoValue
  OBVIOUS
<1>11. Between(c, low, high) = {i \in Filled(c) : low # NoValue /\ low <= V(i) /\ V(i) <= high}
  BY DEF Between
<1>12. \A i \in P : V(i) = NoValue => K[i] = n - 1
  BY <1>3 DEF Band
<1>13. found # {} => /\ low \in found /\ high \in found /\ low # NoValue
                     /\ \A x \in found : low <= x /\ x <= high
  <2> HIDE DEF found
  <2>1. found # {} => /\ Min(found) \in found /\ Max(found) \in found
                      /\ \A x \in found : Min(found) <= x /\ x <= Max(found)
    BY <1>7, MinIsLeast, MaxIsGreatest
  <2> QED
    BY <1>7, <2>1, TablesAssumption
<1>14. found = {} => low = NoValue
  OBVIOUS
<1> HIDE DEF V, K, found, low, high, bin
<1>15. ASSUME NEW j \in g PROVE j \in Between(c, low, high) \cup without
  <2>1. CASE V(j) = NoValue
    BY <1>4, <1>5, <1>8, <1>12, <2>1
  <2>2. CASE V(j) # NoValue
    <3>1. V(j) \in found /\ j \in Filled(c)
      BY <1>4, <1>8, <1>9, <2>2
    <3> QED
      BY <1>11, <1>13, <3>1
  <2> QED
    BY <2>1, <2>2
<1>16. ASSUME NEW j \in Between(c, low, high) PROVE j \in g
  <2>1. /\ j \in P /\ j \in DOMAIN Source.rows /\ V(j) # NoValue
        /\ low # NoValue /\ low <= V(j) /\ V(j) <= high
    BY <1>8, <1>11
  <2>2. found # {} /\ low \in found /\ high \in found
    BY <1>13, <1>14, <2>1
  <2>3. PICK k \in g : low = V(k) /\ V(k) # NoValue
    BY <1>10, <2>2
  <2>4. PICK l \in g : high = V(l) /\ V(l) # NoValue
    BY <1>10, <2>2
  <2>5. /\ V(j) \in Nat /\ V(k) \in Nat /\ V(l) \in Nat
        /\ Extent(c)[1] <= V(j) /\ Extent(c)[1] <= V(k)
    BY <1>2, <1>4, <2>1, <2>3, <2>4
  <2>6. Band(V(k), Extent(c), n) <= Band(V(j), Extent(c), n)
    BY <1>1, <1>2, <2>1, <2>3, <2>5, BandRises
  <2>7. Band(V(j), Extent(c), n) <= Band(V(l), Extent(c), n)
    BY <1>1, <1>2, <2>1, <2>4, <2>5, BandRises
  <2>8. K[k] = bin /\ K[l] = bin /\ k \in P /\ l \in P
    BY <1>4, <1>5
  <2>9. K[k] <= K[j] /\ K[j] <= K[l] /\ K[j] \in 0..(n - 1)
    BY <1>3, <2>1, <2>6, <2>7, <2>8
  <2>10. K[j] = bin
    BY <1>1, <1>5, <2>8, <2>9
  <2> QED
    BY <1>5, <2>1, <2>10
<1>17. ASSUME NEW j \in without PROVE j \in g
  <2>1. j \in P /\ j \notin Filled(c) /\ bin = n - 1
    OBVIOUS
  <2> QED
    BY <1>5, <1>8, <1>12, <2>1
<1>18. g = Between(c, low, high) \cup without
  BY <1>15, <1>16, <1>17
<1>19. /\ row.values[1] = bin /\ row.values[2] = low /\ row.values[3] = high
       /\ Size(row) = Cardinality(g)
  BY <1>6 DEF Size
<1> HIDE DEF without
<1> QED
  BY <1>5, <1>18, <1>19 DEF HoldsItsBand, without

\* bin_column makes a table of its bands, with their sizes at the end.
LEMMA BinSummarises ==
  ASSUME IInv, NEW c \in Range(Names(Source)), NEW n \in BinCounts,
         NEW P \in SUBSET (DOMAIN Source.rows), Bands(c, n, P)
  PROVE  /\ Grouping(Alike(BandOf(c, n, P))) /\ UNION Alike(BandOf(c, n, P)) = P
         /\ \E t : /\ Store(t) /\ Summarises(t, Alike(BandOf(c, n, P))) /\ Sized(t)
                   /\ \A i \in DOMAIN t.rows : \E g \in Alike(BandOf(c, n, P)) :
                         t.rows[i].values = BinValues(c, n, P, Alike(BandOf(c, n, P)))[g]
<1> DEFINE G == Alike(BandOf(c, n, P))
           taken == {<<"bin">>, <<"count">>} \cup Range(Names(Source))
           stem == Free(c, taken)
           columns == <<Derived(<<"bin">>, "numerical"), Derived(Append(stem, "from"), "numerical"),
                        Derived(Append(stem, "to"), "numerical"), Counting(<<"count">>)>>
           values == BinValues(c, n, P, G)
<1>1. Grouping(G) /\ UNION G = P
  <2>1. IsFiniteSet(P) /\ DOMAIN BandOf(c, n, P) = P
    BY StandingIsLarge DEF BandOf
  <2> DEFINE K == BandOf(c, n, P)
  <2>4. IsFiniteSet(DOMAIN K)
    BY <2>1
  <2> HIDE DEF K
  <2>2. /\ IsFiniteSet(Alike(K)) /\ UNION Alike(K) = DOMAIN K
        /\ \A g \in Alike(K) : g # {} /\ g \subseteq DOMAIN K
        /\ \A g, h \in Alike(K) : g # h => g \cap h = {}
    BY <2>4, AlikeIsPartition
  <2>3. P \subseteq DOMAIN Source.rows /\ DOMAIN K = P
    BY <2>1 DEF K
  <2> QED
    BY <2>2, <2>3 DEF Grouping, K
<1>2. Binnable(c)
  BY DEF Bands
<1>3. PICK at \in [1..Cardinality(G) -> G] : IsInjective(at) /\ Store(Binned(c, n, P, at))
  BY DEF Bands, InOrder
<1> HIDE DEF G
<1>4. stem \in Name
  <2>1. IsFiniteSet(taken)
    <3>1. IsFiniteSet({<<"bin">>}) /\ IsFiniteSet({<<"count">>})
      BY FS_Singleton
    <3>2. IsFiniteSet({<<"bin">>} \cup {<<"count">>})
      BY <3>1, FS_Union
    <3>3. IsFiniteSet(Range(Names(Source)))
      <4>1. IsFiniteSet(DOMAIN Names(Source))
        BY SourceRows, FS_Interval DEF Names
      <4>2. Names(Source) \in Surjection(DOMAIN Names(Source), Range(Names(Source)))
        BY DEF Surjection, Range, Names
      <4> QED
        BY <4>1, <4>2, FS_Surjection
    <3>4. taken = ({<<"bin">>} \cup {<<"count">>}) \cup Range(Names(Source))
      OBVIOUS
    <3> QED
      BY <3>2, <3>3, <3>4, FS_Union
  <2>2. c \in Name
    <3>1. PICK i \in DOMAIN Source.columns : c = Source.columns[i].name
      BY DEF Range, Names
    <3>2. Source.columns[i] \in ColumnSpec
      BY SourceRows
    <3> QED
      BY <3>1, <3>2 DEF ColumnSpec
  <2> HIDE DEF taken
  <2> QED
    BY <2>1, <2>2, FreeIsAName
<1> HIDE DEF stem
<1>5. /\ columns \in Seq(ColumnSpec) /\ Len(columns) = 4 /\ DOMAIN columns = 1..4
      /\ columns[4].counts /\ columns[4].made = "number"
      /\ \A i \in 1..3 : ~columns[i].counts
  <2>1. "from" \in Word /\ "to" \in Word
    BY WordAssumption
  <2>2. Append(stem, "from") \in Name /\ Append(stem, "to") \in Name
    BY <1>4, <2>1 DEF Name
  <2>3. \A name \in Name : /\ Derived(name, "numerical") \in ColumnSpec
                           /\ ~Derived(name, "numerical").counts
                           /\ Counting(name) \in ColumnSpec /\ Counting(name).counts
                           /\ Counting(name).made = "number"
    BY DEF Derived, Counting, Column, Holds, ColumnSpec, Type
  <2>4. /\ Derived(<<"bin">>, "numerical") \in ColumnSpec
        /\ ~Derived(<<"bin">>, "numerical").counts
        /\ Derived(Append(stem, "from"), "numerical") \in ColumnSpec
        /\ ~Derived(Append(stem, "from"), "numerical").counts
        /\ Derived(Append(stem, "to"), "numerical") \in ColumnSpec
        /\ ~Derived(Append(stem, "to"), "numerical").counts
        /\ Counting(<<"count">>) \in ColumnSpec /\ Counting(<<"count">>).counts
        /\ Counting(<<"count">>).made = "number"
    BY <2>2, <2>3, WordsAreNames
  <2> QED
    BY <2>4
<1> HIDE DEF columns
<1>6. \A g \in G : values[g] \in Seq(Cell) /\ Len(values[g]) = 4 /\ values[g][4] = Cardinality(g)
  BY <1>2, BinValuesAreCells DEF G
<1>7. values = [g \in G |-> values[g]]
  BY DEF BinValues
<1> DEFINE t == GroupTable(G, at, columns, <<"count">>, values)
<1>8. Binned(c, n, P, at) = t
  <2>1. DOMAIN at = 1..Cardinality(G) /\ \A i \in 1..Cardinality(G) : at[i] \in G
    OBVIOUS
  <2> QED
    BY <2>1 DEF Binned, GroupTable, BinValues, columns, stem
<1> HIDE DEF values
<1>9. Summarises(t, G)
  <2>1. values \in [G -> Seq(Cell)]
    BY <1>6, <1>7
  <2>2. \A k \in DOMAIN columns : columns[k].counts =>
          columns[k].made = "number" /\ \A g \in G : values[g][k] = Cardinality(g)
    <3> SUFFICES ASSUME NEW k \in 1..4, columns[k].counts PROVE k = 4
      BY <1>5, <1>6
    <3>1. k \in 1..3 => ~columns[k].counts
      BY <1>5
    <3> QED
      BY <3>1
  <2>3. <<"count">> \in {NoColumn} \cup Name
    BY WordsAreNames
  <2>4. /\ IsInjective(at)
        /\ \A g \in G : Len(values[g]) = Len(columns)
    BY <1>3, <1>5, <1>6
  <2> QED
    BY <1>5, <2>1, <2>2, <2>3, <2>4 DEF Summarises
<1>10. t.columns = columns
  BY DEF GroupTable, Bundle
<1>11. \A i \in DOMAIN t.rows : \E g \in G : t.rows[i].values = values[g]
  <2>1. \A i \in 1..Cardinality(G) : at[i] \in G
    OBVIOUS
  <2> QED
    BY <2>1 DEF GroupTable, Bundle
<1> HIDE DEF t
<1>12. Store(t) /\ Sized(t)
  <2>1. Len(<<>>) = 0
    OBVIOUS
  <2>2. columns # <<>> /\ columns[Len(columns)].counts
    BY <1>5, <2>1
  <2> QED
    BY <1>3, <1>8, <1>10, <2>2 DEF Sized
<1> QED
  BY <1>1, <1>9, <1>11, <1>12 DEF G, values

\* The sizes at the end of the rows add up to the rows that are in a group.
LEMMA SummaryAddsUp ==
  ASSUME IInv, NEW G, Grouping(G), NEW t, Summarises(t, G), Sized(t)
  PROVE  Total([i \in DOMAIN t.rows |-> Size(t.rows[i])]) = Cardinality(UNION G)
<1> DEFINE n == Cardinality(G)
           P == UNION G
<1>1. PICK at \in [1..n -> G], columns \in Seq(ColumnSpec),
           size \in {NoColumn} \cup Name, values \in [G -> Seq(Cell)] :
        /\ IsInjective(at)
        /\ \A g \in G : Len(values[g]) = Len(columns)
        /\ \A k \in DOMAIN columns : columns[k].counts =>
              columns[k].made = "number" /\ \A g \in G : values[g][k] = Cardinality(g)
        /\ t = GroupTable(G, at, columns, size, values)
  BY DEF Summarises
<1> DEFINE f == [i \in 1..n |-> Cardinality(at[i])]
           U == UNION {{i} \X (1..f[i]) : i \in DOMAIN f}
           b == [i \in 1..n |-> CHOOSE h : h \in Bijection(1..Cardinality(at[i]), at[i])]
           F == [p \in U |-> b[p[1]][p[2]]]
<1>2. /\ DOMAIN t.rows = 1..n /\ t.columns = columns
      /\ \A i \in 1..n : t.rows[i].values = values[at[i]] /\ at[i] \in G
  BY <1>1 DEF GroupTable, Bundle
<1>3. [i \in DOMAIN t.rows |-> Size(t.rows[i])] = f
  <2>1. Len(columns) \in DOMAIN columns /\ columns[Len(columns)].counts
    BY <1>2 DEF Sized
  <2>2. \A g \in G : values[g][Len(values[g])] = Cardinality(g)
    BY <1>1, <2>1
  <2>3. \A i \in 1..n : Size(t.rows[i]) = Cardinality(at[i])
    BY <1>2, <2>2 DEF Size
  <2> QED
    BY <1>2, <2>3
<1>4. ASSUME NEW i \in 1..n
      PROVE  /\ f[i] \in Nat
             /\ b[i] \in Bijection(1..f[i], at[i])
  <2>1. IsFiniteSet(at[i]) /\ Cardinality(at[i]) \in Nat
    BY <1>2, StandingIsLarge DEF Grouping
  <2>2. PICK m \in Nat : ExistsBijection(1..m, at[i])
    BY <2>1, FS_NatBijection
  <2>3. m = Cardinality(at[i])
    BY <2>2, FS_CountingElements
  <2>4. \E h : h \in Bijection(1..Cardinality(at[i]), at[i])
    BY <2>2, <2>3 DEF ExistsBijection
  <2> QED
    BY <2>1, <2>4
<1>5. n \in Nat /\ DOMAIN f = 1..n /\ {at[i] : i \in 1..n} = G
  <2>1. n \in Nat /\ {at[i] : i \in 1..n} = G
    BY <1>1, CountingReachesAll DEF Grouping
  <2> QED
    BY <2>1
<1>6. \A p \in U : \E i \in 1..n : \E k \in 1..f[i] : p = <<i, k>>
  OBVIOUS
<1>7. \A i \in 1..n : \A k \in 1..f[i] : <<i, k>> \in U
  OBVIOUS
<1>8. IsFiniteSet(U) /\ Total(f) = Cardinality(U)
  <2>2. IsFiniteSet(1..n)
    <3>1. n \in Int /\ 1 \in Int
      BY <1>5
    <3> HIDE DEF n
    <3> QED
      BY <3>1, FS_Interval
  <2>1. IsFiniteSet(DOMAIN f) /\ \A i \in DOMAIN f : f[i] \in Nat
    <3> HIDE DEF f
    <3> QED
      BY <1>4, <1>5, <2>2
  <2> HIDE DEF f
  <2> QED
    BY <2>1, TotalIsNumber DEF Total
<1>9. \A i \in 1..n : \A k \in 1..f[i] : F[<<i, k>>] = b[i][k]
  BY <1>7
<1>10. \A i \in 1..n : /\ \A k \in 1..f[i] : b[i][k] \in at[i]
                       /\ \A k, l \in 1..f[i] : b[i][k] = b[i][l] => k = l
                       /\ \A x \in at[i] : \E k \in 1..f[i] : b[i][k] = x
  <2> TAKE i \in 1..n
  <2> HIDE DEF b, f, n
  <2>1. b[i] \in Bijection(1..f[i], at[i])
    BY <1>4
  <2>2. /\ b[i] \in [1..f[i] -> at[i]]
        /\ \A k, l \in 1..f[i] : b[i][k] = b[i][l] => k = l
        /\ \A x \in at[i] : \E k \in 1..f[i] : b[i][k] = x
    BY <2>1 DEF Bijection, Injection, Surjection, IsInjective
  <2> QED
    BY <2>2
<1>11. F = [p \in U |-> F[p]]
  OBVIOUS
<1>12. at \in [1..n -> G] /\ IsInjective(at) /\ \A i, j \in 1..n : at[i] = at[j] => i = j
  <2>1. DOMAIN at = 1..n
    OBVIOUS
  <2> QED
    BY <1>1, <2>1 DEF IsInjective
<1> HIDE DEF F, U, f, b, n
<1>13. F \in [U -> P]
  <2>1. ASSUME NEW p \in U PROVE F[p] \in P
    <3>4. PICK i \in 1..n : \E k \in 1..f[i] : p = <<i, k>>
      BY <1>6
    <3>1. PICK k \in 1..f[i] : p = <<i, k>>
      BY <3>4
    <3>2. F[p] \in at[i]
      BY <1>9, <1>10, <3>1
    <3>3. at[i] \in G
      BY <1>2
    <3> QED
      BY <3>2, <3>3
  <2> QED
    BY <1>11, <2>1
<1>14. ASSUME NEW p \in U, NEW q \in U, F[p] = F[q] PROVE p = q
  <2>7. PICK i \in 1..n : \E k \in 1..f[i] : p = <<i, k>>
    BY <1>6
  <2>1. PICK k \in 1..f[i] : p = <<i, k>>
    BY <2>7
  <2>8. PICK j \in 1..n : \E l \in 1..f[j] : q = <<j, l>>
    BY <1>6
  <2>2. PICK l \in 1..f[j] : q = <<j, l>>
    BY <2>8
  <2>3. b[i][k] \in at[i] /\ b[j][l] \in at[j] /\ b[i][k] = b[j][l]
    BY <1>9, <1>10, <1>14, <2>1, <2>2
  <2>4. at[i] = at[j]
    BY <1>2, <2>3 DEF Grouping
  <2>5. i = j
    BY <1>12, <2>4
  <2>6. k = l
    BY <1>10, <2>3, <2>5
  <2> QED
    BY <2>1, <2>2, <2>5, <2>6
<1>15. ASSUME NEW x \in P PROVE \E p \in U : F[p] = x
  <2>1. PICK g \in G : x \in g
    OBVIOUS
  <2>2. PICK i \in 1..n : at[i] = g
    BY <1>5
  <2>3. PICK k \in 1..f[i] : b[i][k] = x
    BY <1>10, <2>1, <2>2
  <2> QED
    BY <1>7, <1>9, <2>3
<1>16. F \in Bijection(U, P)
  BY <1>13, <1>14, <1>15, Fun_IsBij
<1>17. Cardinality(P) = Cardinality(U)
  <2>1. ExistsBijection(U, P)
    BY <1>16 DEF ExistsBijection
  <2> QED
    BY <1>8, <2>1, FS_Bijection
<1> QED
  BY <1>3, <1>8, <1>17

-----------------------------------------------------------------------------
(* The theorems.                                                           *)

\* A chain begins with the dataset.
LEMMA InitIsSound == Init => IInv
<1> SUFFICES ASSUME Init PROVE IInv
  OBVIOUS
<1>1. data \in Data /\ table = BaseTable(data) /\ depth \in 0..MaxSteps
  BY TablesAssumption DEF Init
<1> QED
  BY <1>1, BaseIsSound DEF IInv

\* Every tool keeps tables sound.
LEMMA NextKeeps == IInv /\ [Next]_vars => IInv'
<1> SUFFICES ASSUME IInv, [Next]_vars PROVE IInv'
  OBVIOUS
<1>1. ASSUME NEW name, NEW limit, FilterRows(name, limit) PROVE IInv'
  BY <1>1, FilterIsSound
<1>2. ASSUME NEW name \in NewName, DeriveColumn(name) PROVE IInv'
  BY <1>2, DeriveIsSound
<1>3. ASSUME NEW n \in Limits, NEW offset \in Number, LimitRows(n, offset) PROVE IInv'
  BY <1>3, LimitIsSound
<1>4. ASSUME NEW by, NEW direction, NEW nulls, SortRows(by, direction, nulls) PROVE IInv'
  BY <1>4, SortIsSound
<1>5. ASSUME NEW wanted, SelectColumns(wanted) PROVE IInv'
  BY <1>5, SelectIsSound
<1>6. ASSUME NEW n \in Limits, SampleRows(n) PROVE IInv'
  BY <1>6, SampleIsSound
<1>7. ASSUME NEW keys \in KeyLists, NEW m \in Measures, Aggregate(keys, m) PROVE IInv'
  BY <1>7, AggregateSummarises, GroupsAreAGrouping, SummaryIsSound, StoredIsSound
<1>8. ASSUME NEW c \in Range(Names(Source)), NEW n \in BinCounts, NEW include_nulls \in BOOLEAN,
             BinColumn(c, n, include_nulls)
      PROVE  IInv'
  <2> DEFINE P == IF include_nulls THEN DOMAIN Source.rows ELSE Filled(c)
  <2>1. Bands(c, n, P)
    BY <1>8 DEF BinColumn
  <2>2. P \in SUBSET (DOMAIN Source.rows)
    BY DEF Filled
  <2> HIDE DEF P
  <2> QED
    BY <2>1, <2>2, BinSummarises, SummaryIsSound, StoredIsSound
<1>9. CASE UNCHANGED vars
  <2>1. table' = table /\ data' = data /\ depth' = depth
    BY <1>9 DEF vars
  <2> QED
    BY <2>1 DEF IInv, Sound, Typed, Table, Row, Apart, Single, Counted, Ranked
<1> QED
  BY <1>1, <1>2, <1>3, <1>4, <1>5, <1>6, <1>7, <1>8, <1>9 DEF Next

\* The invariant holds in every reachable state.
THEOREM InductiveInvariant == Spec => []IInv
<1>1. Init => IInv
  BY InitIsSound
<1>2. IInv /\ [Next]_vars => IInv'
  BY NextKeeps
<1> QED
  BY <1>1, <1>2, PTL DEF Spec

\* Tables have the right shape: TypeOK.
THEOREM TypeCorrect == Spec => []TypeOK
<1>1. IInv => TypeOK
  BY DEF IInv, Sound, Typed, TypeOK
<1> QED
  BY <1>1, InductiveInvariant, PTL

\* A table that passes for rows of the file is some of them, each once:
\* ComputedRowsAreMarked.
THEOREM RowsOfTheFile == Spec => []ComputedRowsAreMarked
<1>1. IInv => ComputedRowsAreMarked
  <2> SUFFICES ASSUME IInv, ~table.derived
               PROVE  /\ \A row \in Range(table.rows) : Cardinality(row.of) = 1
                      /\ Cardinality(Covered(table.rows)) = Len(table.rows)
    BY DEF ComputedRowsAreMarked
  <2> DEFINE n == Len(table.rows)
             x == [i \in 1..n |-> CHOOSE x : table.rows[i].of = {x}]
  <2>1. n \in Nat /\ DOMAIN table.rows = 1..n
    BY DEF IInv, Sound, Typed, Table
  <2>2. \A i \in 1..n : table.rows[i].of = {x[i]}
    <3> TAKE i \in 1..n
    <3>1. \E y : table.rows[i].of = {y}
      BY <2>1 DEF IInv, Sound, Single
    <3> QED
      BY <3>1
  <2>3. x = [i \in 1..n |-> x[i]]
    OBVIOUS
  <2> HIDE DEF x, n
  <2>4. ASSUME NEW row \in Range(table.rows) PROVE Cardinality(row.of) = 1
    <3>1. PICK i \in 1..n : row = table.rows[i]
      BY <2>1 DEF Range
    <3> QED
      BY <2>2, <3>1, FS_Singleton
  <2>5. Covered(table.rows) = {x[i] : i \in 1..n}
    BY <2>1, <2>2 DEF Covered, Range
  <2>6. x \in Bijection(1..n, Covered(table.rows))
    <3>1. x \in [1..n -> Covered(table.rows)]
      BY <2>3, <2>5
    <3>2. \A i, j \in 1..n : x[i] = x[j] => i = j
      BY <2>1, <2>2 DEF IInv, Sound, Apart
    <3>3. \A y \in Covered(table.rows) : \E i \in 1..n : x[i] = y
      BY <2>5
    <3> QED
      BY <3>1, <3>2, <3>3, Fun_IsBij
  <2>7. Cardinality(Covered(table.rows)) = n
    <3>1. ExistsBijection(1..n, Covered(table.rows))
      BY <2>6 DEF ExistsBijection
    <3> QED
      BY <2>1, <3>1, FS_CountingElements
  <2> QED
    BY <2>4, <2>7 DEF n
<1> QED
  BY <1>1, InductiveInvariant, PTL

\* What passes for a ranking is in the order of its last sort:
\* RankingsKeepTheirOrder.
THEOREM OrderIsKept == Spec => []RankingsKeepTheirOrder
<1>1. IInv => RankingsKeepTheirOrder
  <2> SUFFICES ASSUME IInv, table.ordered, NEW i \in 2..Len(table.rows)
               PROVE  table.rows[i - 1].rank < table.rows[i].rank
    BY DEF RankingsKeepTheirOrder
  <2>1. Len(table.rows) \in Nat /\ DOMAIN table.rows = 1..Len(table.rows)
    BY DEF IInv, Sound, Typed, Table
  <2>2. i - 1 \in DOMAIN table.rows /\ i \in DOMAIN table.rows /\ i - 1 < i
    BY <2>1
  <2> QED
    BY <2>2 DEF IInv, Sound, Ranked
<1> QED
  BY <1>1, InductiveInvariant, PTL

\* What a preview cut short shows are rows of the table.
LEMMA ShownAreRows ==
  ASSUME IInv, NEW row \in Range(Capped(Preview(table)))
  PROVE  \E i \in DOMAIN table.rows : row = table.rows[i]
<1> DEFINE S == Row(data)
<1>1. table.rows \in Seq(S) /\ Len(table.rows) \in Nat
      /\ DOMAIN table.rows = 1..Len(table.rows)
  BY DEF IInv, Sound, Typed, Table
<1>2. PREVIEW_ROWS \in Nat /\ MAX_AGGREGATE_ROWS \in Nat
  BY TablesAssumption
<1>3. ASSUME NEW rows \in Seq(S), NEW limit \in Nat
      PROVE  LET cut == SubSeq(rows, 1, Min({Len(rows), limit}))
             IN cut \in Seq(S) /\ \A k \in DOMAIN cut : k \in DOMAIN rows /\ cut[k] = rows[k]
  <2> DEFINE m == Min({Len(rows), limit})
  <2>1. Len(rows) \in Nat /\ DOMAIN rows = 1..Len(rows)
    OBVIOUS
  <2>2. m \in Nat /\ m <= Len(rows)
    BY <2>1, MinOfTwo
  <2> HIDE DEF m, S
  <2>3. SubSeq(rows, 1, m) \in Seq(S)
        /\ \A k \in DOMAIN SubSeq(rows, 1, m) :
              k \in DOMAIN rows /\ SubSeq(rows, 1, m)[k] = rows[k]
    BY <2>1, <2>2
  <2> QED
    BY <2>3 DEF m
<1> HIDE DEF S
<1>4. /\ Preview(table) \in Seq(S)
      /\ \A k \in DOMAIN Preview(table) :
            k \in DOMAIN table.rows /\ Preview(table)[k] = table.rows[k]
  BY <1>1, <1>2, <1>3 DEF Preview
<1>5. \A k \in DOMAIN Capped(Preview(table)) :
        k \in DOMAIN Preview(table) /\ Capped(Preview(table))[k] = Preview(table)[k]
  BY <1>2, <1>3, <1>4 DEF Capped
<1> QED
  BY <1>4, <1>5 DEF Range

\* Outside full mode the model sees no row of a small group, if the size of the
\* row is one that a tool counted: ShownGroupsAreLarge.
THEOREM GroupsAreLarge == Spec => []ShownGroupsAreLarge
<1>1. IInv => ShownGroupsAreLarge
  <2> SUFFICES ASSUME IInv, SizeIsCounted, NEW mode \in Mode \ {"full"},
                      NEW row \in Shown(table, mode)
               PROVE  Cardinality(row.of) >= K_ANONYMITY
    BY DEF ShownGroupsAreLarge
  <2>1. /\ SizeIn(table) /\ row \in Range(Capped(Preview(table))) /\ ~SmallGroup(table, row)
    BY DEF Shown, Rendered, Allows
  <2>2. PICK i \in DOMAIN table.rows : row = table.rows[i]
    BY <2>1, ShownAreRows
  <2> DEFINE c == At(table, table.size)
  <2>3. c \in DOMAIN table.columns /\ table.columns[c].counts
    <3>1. table.columns \in Seq(ColumnSpec) /\ Has(table, table.size)
      BY <2>1 DEF IInv, Sound, Typed, Table, SizeIn
    <3> QED
      BY <2>1, <3>1, AtIsAColumn DEF SizeIsCounted
  <2>4. /\ table.columns[c].made = "number" /\ row.values[c] \in Nat
        /\ row.values[c] <= Cardinality(row.of) \/ row.values[c] <= 1
    BY <2>2, <2>3 DEF IInv, Sound, Counted
  <2>5. row.values[c] # NoValue /\ K_ANONYMITY \in Nat \ {0, 1}
    BY <2>4, TablesAssumption
  <2>6. ~(row.values[c] < K_ANONYMITY)
    BY <2>1, <2>4, <2>5 DEF SmallGroup, Value
  <2>7. row.of \in SUBSET (DOMAIN data) /\ IsFiniteSet(DOMAIN data)
    <3>1. table.rows \in Seq(Row(data)) /\ data \in Seq(Seq(Cell))
      BY TablesAssumption DEF IInv, Sound, Typed, Table
    <3>2. table.rows[i] \in Row(data)
      BY <3>1
    <3>3. DOMAIN data = 1..Len(data) /\ Len(data) \in Nat
      BY <3>1
    <3>4. row.of \in SUBSET (DOMAIN data)
      BY <2>2, <3>2 DEF Row
    <3>5. IsFiniteSet(1..Len(data))
      BY <3>3, FS_Interval
    <3> QED
      BY <3>3, <3>4, <3>5
  <2>8. Cardinality(row.of) \in Nat
    BY <2>7, FS_Subset, FS_CardinalityType
  <2> HIDE DEF c
  <2> QED
    BY <2>4, <2>5, <2>6, <2>8
<1> QED
  BY <1>1, InductiveInvariant, PTL

\* So the table accounts for the rows that are in a group.
LEMMA SummaryAccounts ==
  ASSUME IInv, NEW G, Grouping(G), NEW t, Summarises(t, G), Sized(t), table' = t
  PROVE  Accounts(UNION G, table'.rows)
<1>1. Disjoint(t.rows) /\ Covered(t.rows) = Standing(UNION G)
  BY SummaryIsSound
<1>2. Total([i \in DOMAIN t.rows |-> Size(t.rows[i])]) = Cardinality(UNION G)
  BY SummaryAddsUp
<1> QED
  BY <1>1, <1>2 DEF Accounts

\* Groups and bands account for every record read, and a band holds the rows its
\* edges say: EveryRecordIsCounted.
THEOREM NothingIsLost == Spec => EveryRecordIsCounted
<1> DEFINE Accounted == table'.derived => GroupsAccount /\ BandsAccount
<1>1. ASSUME IInv PROVE GroupsAccount
  <2> SUFFICES ASSUME NEW keys \in KeyLists, NEW m \in Measures, Aggregate(keys, m)
               PROVE  Accounts(DOMAIN Source.rows, table'.rows)
    BY DEF GroupsAccount
  <2>1. PICK t : Store(t) /\ Summarises(t, Groups(keys)) /\ Sized(t)
    BY <1>1, AggregateSummarises
  <2>2. Grouping(Groups(keys)) /\ UNION Groups(keys) = DOMAIN Source.rows
    BY <1>1, GroupsAreAGrouping
  <2>3. table' = t
    BY <2>1 DEF Store
  <2>4. Accounts(UNION Groups(keys), table'.rows)
    BY <1>1, <2>1, <2>2, <2>3, SummaryAccounts
  <2> QED
    BY <2>2, <2>4
<1>2. ASSUME IInv PROVE BandsAccount
  <2> SUFFICES ASSUME NEW c \in Range(Names(Source)), NEW n \in BinCounts,
                      NEW include_nulls \in BOOLEAN, BinColumn(c, n, include_nulls),
                      NEW P, P = IF include_nulls THEN DOMAIN Source.rows ELSE Filled(c)
               PROVE  /\ Accounts(P, table'.rows)
                      /\ \A i \in DOMAIN table'.rows : HoldsItsBand(c, n, P, table'.rows[i])
    BY DEF BandsAccount
  <2> DEFINE G == Alike(BandOf(c, n, P))
  <2>1. P \in SUBSET (DOMAIN Source.rows) /\ Filled(c) \subseteq P
    BY DEF Filled
  <2>2. Bands(c, n, P) /\ Binnable(c)
    <3>1. Bands(c, n, P)
      BY DEF BinColumn
    <3> QED
      BY <3>1 DEF Bands
  <2>3. /\ Grouping(G) /\ UNION G = P
        /\ \E t : /\ Store(t) /\ Summarises(t, G) /\ Sized(t)
                  /\ \A i \in DOMAIN t.rows : \E g \in G :
                        t.rows[i].values = BinValues(c, n, P, G)[g]
    BY <1>2, <2>1, <2>2, BinSummarises
  <2> HIDE DEF G
  <2>4. PICK t : /\ Store(t) /\ Summarises(t, G) /\ Sized(t)
                 /\ \A i \in DOMAIN t.rows : \E g \in G :
                       t.rows[i].values = BinValues(c, n, P, G)[g]
    BY <2>3
  <2>5. table' = t
    BY <2>4 DEF Store
  <2>6. Accounts(UNION G, table'.rows)
    BY <1>2, <2>3, <2>4, <2>5, SummaryAccounts
  <2>7. ASSUME NEW i \in DOMAIN t.rows PROVE HoldsItsBand(c, n, P, t.rows[i])
    <3>1. PICK g \in G : t.rows[i].values = BinValues(c, n, P, G)[g]
      BY <2>4
    <3> QED
      BY <1>2, <2>1, <2>2, <3>1, BandHoldsItsValues DEF G
  <2> QED
    BY <2>3, <2>5, <2>6, <2>7
<1>3. IInv /\ [Next]_vars => [Accounted]_vars
  BY <1>1, <1>2
<1> QED
  BY <1>3, InductiveInvariant, PTL DEF Spec, EveryRecordIsCounted
=============================================================================
