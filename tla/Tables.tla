------------------------------- MODULE Tables -------------------------------
(***************************************************************************)
(* A chain of tool calls over one dataset: each call reads a table, the    *)
(* dataset or the result of an earlier call, and stores another (tools/,   *)
(* ToolRunner._resolve), and a preview of it is shown to the language      *)
(* model as far as the account's privacy mode lets it (llm/privacy.py,     *)
(* llm/planner.py).  A call reads one table, so a chain of calls stands    *)
(* for every tree of them.                                                 *)
(*                                                                         *)
(* Three facts travel with a table although no tool can see them in its    *)
(* rows: that the rows were computed (derived), which column counts what a *)
(* row stands for (size) and that the order was chosen (ordered).  Ghost   *)
(* fields say what is really so: the records a row stands for (of), the    *)
(* rank a sort gave it (rank), what a column holds (made) and whether a    *)
(* tool counted it (counts).                                               *)
(***************************************************************************)
EXTENDS Integers, Sequences, FiniteSets, FiniteSetsExt, Functions

CONSTANTS Word,               \* what the names of columns are made of
          Data,               \* the datasets: sequences of records, a value per column
          BaseName,           \* the names of their columns, in order
          BaseType,           \* and the types of their contract
          NoValue, NoColumn,
          NewName,            \* the names a derived column may be given
          Number,             \* the numbers arguments are drawn from
          MaxSteps,           \* bound: calls in a chain
          K_ANONYMITY, MAX_AGGREGATE_ROWS, PREVIEW_ROWS, MAX_GROUPS

Name == Seq(Word) \ {<<>>}
Cell == Nat \cup {NoValue}
Type == {"numerical", "categorical", "text"}

ASSUME WordAssumption ==
    {"count", "sum", "max", "n", "n_rows", "group_size", "bin", "from", "to", "_"} \subseteq Word
ASSUME TablesAssumption ==
    /\ {MaxSteps, MAX_AGGREGATE_ROWS, PREVIEW_ROWS, MAX_GROUPS} \subseteq Nat \ {0}
    /\ K_ANONYMITY \in Nat \ {0, 1}
    /\ NoValue \notin Nat /\ Number \subseteq Nat /\ NewName \subseteq Name
    /\ BaseName \in Seq(Name) /\ BaseType \in Seq(Type) /\ Len(BaseType) = Len(BaseName)
    /\ \A d \in Data : d \in Seq(Seq(Cell)) /\ \A i \in DOMAIN d : Len(d[i]) = Len(BaseName)

VARIABLES data,    \* the dataset
          table,   \* the result the next call reads, as it was stored
          depth    \* how many calls led to it

vars == <<data, table, depth>>

Holds(type) == IF type = "numerical" THEN "number" ELSE "words"
Column(name, type, made, counts) == [name |-> name, type |-> type, made |-> made, counts |-> counts]
Derived(name, type) == Column(name, type, Holds(type), FALSE)
Counting(name) == Column(name, "numerical", "number", TRUE)
Bundle(columns, rows, derived, size, ordered) ==
    [columns |-> columns, rows |-> rows, derived |-> derived, size |-> size, ordered |-> ordered]

BaseTable(d) ==
    Bundle([i \in DOMAIN BaseName |-> Derived(BaseName[i], BaseType[i])],
           [i \in DOMAIN d |-> [values |-> d[i], of |-> {i}, rank |-> 0]],
           FALSE, NoColumn, FALSE)

Init ==
    /\ data \in Data
    /\ table = BaseTable(data)
    /\ depth = 0

-----------------------------------------------------------------------------
(* What a tool sees of the table it reads: a name means its first column,  *)
(* and a name the contract knows has the contract's type again.            *)
Names(t) == [i \in DOMAIN t.columns |-> t.columns[i].name]
Has(t, name) == name \in Range(Names(t))
At(t, name) == CHOOSE i \in DOMAIN t.columns :
                   t.columns[i].name = name /\ \A j \in 1..(i - 1) : t.columns[j].name # name
Value(t, row, name) == row.values[At(t, name)]

Known(name) == {BaseType[i] : i \in {i \in DOMAIN BaseName : BaseName[i] = name}}
ColumnsOf(t) ==
    [i \in DOMAIN t.columns |->
        IF Known(t.columns[i].name) = {} THEN t.columns[i]
        ELSE [t.columns[i] EXCEPT !.type = CHOOSE type \in Known(t.columns[i].name) : TRUE]]
Source == IF depth = 0 THEN BaseTable(data) ELSE [table EXCEPT !.columns = ColumnsOf(table)]

(* A column is read by the rules of its type; the query fails on others.   *)
Reads(t, name) ==
    /\ Has(t, name)
    /\ t.columns[At(t, name)].made = Holds(t.columns[At(t, name)].type)
IsNumber(t, name) == Reads(t, name) /\ t.columns[At(t, name)].type = "numerical"

(* The members of a set in an order: there is one when the order is total. *)
InOrder(S, Precedes(_, _)) ==
    {at \in [1..Cardinality(S) -> S] :
        IsInjective(at) /\ \A i, j \in DOMAIN at : i < j => Precedes(at[i], at[j])}
InPlace(P) == InOrder(P, LAMBDA i, j : i < j)

(* The bundle a call stores.                                               *)
Store(t) ==
    /\ depth < MaxSteps
    /\ table' = t
    /\ depth' = depth + 1
    /\ UNCHANGED data

-----------------------------------------------------------------------------
(* The tools that keep, reorder or widen rows: the three facts go along.   *)
Rows(at) == [i \in DOMAIN at |-> Source.rows[at[i]]]
FilterRows(name, limit) ==
    LET Keeps(v) == v # NoValue /\ v < limit
        passing == {i \in DOMAIN Source.rows : Keeps(Value(Source, Source.rows[i], name))}
    IN Reads(Source, name) /\ \E at \in InPlace(passing) : Store([Source EXCEPT !.rows = Rows(at)])

Written(i, values) == [Source.rows[i] EXCEPT !.values = values]
Wider(name, type, Computed(_)) ==
    [Source EXCEPT !.columns = Append(@, Derived(name, type)),
                   !.rows = [i \in DOMAIN @ |-> Written(i, Append(@[i].values, Computed(i)))]]

DeriveColumn(name) ==
    /\ ~Has(Source, name)
    /\ \/ \E n \in Number : Store(Wider(name, "numerical", LAMBDA i : n))
       \/ \E other \in Range(Names(Source)) :
             /\ Reads(Source, other)
             /\ Store(Wider(name, IF IsNumber(Source, other) THEN "numerical" ELSE "text",
                            LAMBDA i : Value(Source, Source.rows[i], other)))

Limits == {n \in Number : n >= 1}
LimitRows(n, offset) ==
    Store([Source EXCEPT !.rows = SubSeq(@, offset + 1, Min({Len(@), offset + n}))])

Before(v, w, direction, nulls) ==
    CASE v = NoValue -> nulls = "first" /\ w # NoValue
      [] v # NoValue /\ w = NoValue -> nulls = "last"
      [] OTHER -> IF direction = "asc" THEN v < w ELSE v > w
SortRows(by, direction, nulls) ==
    LET Key(i) == Value(Source, Source.rows[i], by)
        Earlier(i, j) == \/ Before(Key(i), Key(j), direction, nulls)
                         \/ Key(i) = Key(j) /\ i < j
    IN /\ Reads(Source, by)
       /\ \E at \in InOrder(DOMAIN Source.rows, Earlier) :
             Store([Source EXCEPT !.ordered = TRUE, !.rows =
                       [n \in DOMAIN at |-> [Source.rows[at[n]] EXCEPT !.rank = n]]])

Kept(wanted) == {i \in DOMAIN Source.columns : Names(Source)[i] \in wanted}
Specs(at) == [i \in DOMAIN at |-> Source.columns[At(Source, Names(Source)[at[i]])]]
\* (Mutant: the columns are dropped from the description, not from the rows.)
SelectNames(wanted) ==
    /\ wanted # {} /\ \A name \in wanted : Has(Source, name)
    /\ \E at \in InPlace(Kept(wanted)) : Store([Source EXCEPT !.columns = Specs(at)])
SelectColumns(wanted) ==
    /\ wanted # {} /\ \A name \in wanted : Has(Source, name)
    /\ \E at \in InPlace(Kept(wanted)) :
          Store([Source EXCEPT !.columns = Specs(at), !.rows =
                    [r \in DOMAIN @ |-> Written(r,
                        [i \in DOMAIN at |-> Value(Source, @[r], Names(Source)[at[i]])])]])

(* A seed decides which rows and in which order; any may come out.         *)
Picked(n, Drawn(_)) ==
    IF Len(Source.rows) <= n THEN Store(Source)
    ELSE \E pick \in [1..n -> DOMAIN Source.rows] :
            IsInjective(pick) /\ Store(Drawn(Rows(pick)))
Sample(rows) == [Source EXCEPT !.rows = rows, !.ordered = FALSE]
\* (Mutant: a sample of an ordered table passes for a ranking.)
SampleRanked(n) == Picked(n, LAMBDA rows : [Sample(rows) EXCEPT !.ordered = Source.ordered])
\* (Mutant: a sample is always rows of the file.)
SampleOfTheFile(n) ==
    ~Source.ordered /\ Picked(n, LAMBDA rows : [Sample(rows) EXCEPT !.derived = FALSE])
SampleRows(n) == ~Source.ordered /\ Picked(n, Sample)

-----------------------------------------------------------------------------
(* aggregate: a row per value of the keys, in their order, with a measure  *)
(* and the size of the group.  A group is the set of the places of its     *)
(* rows, and a sum of numbers the number of their units.                   *)
Alike(Key) == {{j \in DOMAIN Key : Key[j] = Key[i]} : i \in DOMAIN Key}
Total(f) == Cardinality(UNION {{i} \X (1..f[i]) : i \in DOMAIN f})

Functions == {"count", "sum", "max"}
Measured(f, c, group) ==
    LET found == [i \in {i \in group : Value(Source, Source.rows[i], c) # NoValue} |->
                     Value(Source, Source.rows[i], c)]
    IN IF f = "count" THEN Cardinality(DOMAIN found)
       ELSE IF DOMAIN found = {} THEN NoValue
       ELSE IF f = "sum" THEN Total(found) ELSE Max(Range(found))

(* The measures: count(), or a function of a column it can read.           *)
Measures ==
    {[function |-> "count", column |-> NoColumn]}
    \cup {m \in [function : Functions, column : Range(Names(Source))] :
            IF m.function = "sum" THEN IsNumber(Source, m.column) ELSE Reads(Source, m.column)}
MeasureColumn(m) ==
    IF m.column = NoColumn THEN Counting(<<"count">>)
    ELSE IF m.function = "max"
         THEN Column(<<m.function>> \o m.column, "numerical",
                     Source.columns[At(Source, m.column)].made, FALSE)
         ELSE Derived(<<m.function>> \o m.column, "numerical")
MeasureValue(m, group) ==
    IF m.column = NoColumn THEN Cardinality(group) ELSE Measured(m.function, m.column, group)

SizeNames == <<<<"n">>, <<"n_rows">>, <<"group_size">>>>
SizeName(taken) ==
    LET free == {i \in DOMAIN SizeNames : SizeNames[i] \notin taken}
    IN IF free = {} THEN NoColumn ELSE SizeNames[Min(free)]

KeyOf(keys) == [i \in DOMAIN Source.rows |->
                   [k \in DOMAIN keys |-> Value(Source, Source.rows[i], keys[k])]]
Groups(keys) == IF keys = <<>> THEN {DOMAIN Source.rows} ELSE Alike(KeyOf(keys))
GroupKey(keys, group) == IF keys = <<>> THEN <<>> ELSE KeyOf(keys)[CHOOSE i \in group : TRUE]
Sooner(k, l) == \E i \in DOMAIN k :
                    Before(k[i], l[i], "asc", "last") /\ \A j \in 1..(i - 1) : k[j] = l[j]

Covered(rows) == UNION {row.of : row \in Range(rows)}
Standing(group) == UNION {Source.rows[i].of : i \in group}
Aggregate(keys, m) ==
    LET keyed == [i \in DOMAIN keys |->
                     [Source.columns[At(Source, keys[i])] EXCEPT !.counts = FALSE]]
        plain == Append(keyed, MeasureColumn(m))
        counted == MeasureColumn(m).name = <<"count">>
        size == IF counted THEN <<"count">>
                ELSE SizeName({plain[i].name : i \in DOMAIN plain})
        Row(group) ==
            LET values == Append(GroupKey(keys, group), MeasureValue(m, group))
            IN [values |-> IF counted THEN values ELSE Append(values, Cardinality(group)),
                of |-> Standing(group), rank |-> 0]
    IN /\ \A i \in DOMAIN keys : Has(Source, keys[i])
       /\ size # NoColumn
       /\ Cardinality(Groups(keys)) <= MAX_GROUPS
       /\ \E at \in InOrder(Groups(keys), LAMBDA g, h : Sooner(GroupKey(keys, g), GroupKey(keys, h))) :
             Store(Bundle(IF counted THEN plain ELSE Append(plain, Counting(size)),
                          [i \in DOMAIN at |-> Row(at[i])], TRUE, size, FALSE))

(* bin_column: a row per band of equal width that holds a row, with the    *)
(* least and the greatest value found in it.                               *)
Extent(c) ==
    LET values == {Value(Source, row, c) : row \in Range(Source.rows)} \ {NoValue}
    IN IF values = {} THEN <<0, 0>> ELSE <<Min(values), Max(values)>>
(* least() skips a missing value, so a row without one is in the last band.*)
\* (Mutant: the greatest value is not pinned into the last band.)
BandUnpinned(v, extent, n) ==
    IF v = NoValue THEN n - 1 ELSE ((v - extent[1]) * n) \div (extent[2] - extent[1])
Band(v, extent, n) ==
    IF v = NoValue THEN n - 1
    ELSE Min({((v - extent[1]) * n) \div (extent[2] - extent[1]), n - 1})

Free(c, taken) ==
    LET Stem(n) == c \o [i \in 1..n |-> "_"]
        Clash(n) == {Append(Stem(n), "from"), Append(Stem(n), "to")} \cap taken # {}
    IN Stem(CHOOSE n \in 0..Cardinality(taken) : ~Clash(n) /\ \A m \in 0..(n - 1) : Clash(m))
BandOf(c, n, P) == [i \in P |-> Band(Value(Source, Source.rows[i], c), Extent(c), n)]
GroupBand(c, n, P, group) == BandOf(c, n, P)[CHOOSE i \in group : TRUE]

Binned(c, n, P, at) ==
    LET stem == Free(c, {<<"bin">>, <<"count">>} \cup Range(Names(Source)))
        Observed(group) == {Value(Source, Source.rows[i], c) : i \in group} \ {NoValue}
        Row(group) == [values |-> <<GroupBand(c, n, P, group),
                                    IF Observed(group) = {} THEN NoValue ELSE Min(Observed(group)),
                                    IF Observed(group) = {} THEN NoValue ELSE Max(Observed(group)),
                                    Cardinality(group)>>,
                       of |-> Standing(group), rank |-> 0]
    IN Bundle(<<Derived(<<"bin">>, "numerical"), Derived(Append(stem, "from"), "numerical"),
                Derived(Append(stem, "to"), "numerical"), Counting(<<"count">>)>>,
              [i \in DOMAIN at |-> Row(at[i])], TRUE, <<"count">>, FALSE)

Binnable(c) == IsNumber(Source, c) /\ Extent(c)[1] < Extent(c)[2]
Bands(c, n, P) ==
    /\ Binnable(c)
    /\ \E at \in InOrder(Alike(BandOf(c, n, P)),
                         LAMBDA g, h : GroupBand(c, n, P, g) < GroupBand(c, n, P, h)) :
          Store(Binned(c, n, P, at))
Filled(c) == {i \in DOMAIN Source.rows : Value(Source, Source.rows[i], c) # NoValue}
\* (Mutant: rows without a value are always left out.)
BinFilled(c, n, include_nulls) == Bands(c, n, Filled(c))
BinColumn(c, n, include_nulls) ==
    Bands(c, n, IF include_nulls THEN DOMAIN Source.rows ELSE Filled(c))

-----------------------------------------------------------------------------
KeyLists == {<<>>} \cup {<<name>> : name \in Range(Names(Source))}
BinCounts == {n \in Number : n >= 2}

Next ==
    \/ \E name \in Range(Names(Source)), limit \in Number : FilterRows(name, limit)
    \/ \E name \in NewName : DeriveColumn(name)
    \/ \E n \in Limits, offset \in Number : LimitRows(n, offset)
    \/ \E by \in Range(Names(Source)), direction \in {"asc", "desc"}, nulls \in {"first", "last"} :
          SortRows(by, direction, nulls)
    \/ \E wanted \in SUBSET Range(Names(Source)) : SelectColumns(wanted)
    \/ \E n \in Limits : SampleRows(n)
    \/ \E keys \in KeyLists, m \in Measures : Aggregate(keys, m)
    \/ \E c \in Range(Names(Source)), n \in BinCounts, include_nulls \in BOOLEAN :
          BinColumn(c, n, include_nulls)

Spec == Init /\ [][Next]_vars

-----------------------------------------------------------------------------
(* The privacy gate: what each mode lets through, and the rows of a        *)
(* preview that reach the model.                                           *)
Mode == {"strict", "balanced", "full", "local"}
Allows(mode) == [category_values |-> mode \in {"balanced", "full"}, raw_rows |-> mode = "full"]

Preview(t) == SubSeq(t.rows, 1, Min({Len(t.rows), PREVIEW_ROWS}))
Capped(rows) == SubSeq(rows, 1, Min({Len(rows), MAX_AGGREGATE_ROWS}))
SizeIn(t) == t.size # NoColumn /\ Has(t, t.size)

Rendered(t, mode, TooSmall(_)) ==
    IF ~t.derived THEN IF Allows(mode).raw_rows THEN Range(Capped(Preview(t))) ELSE {}
    ELSE IF ~Allows(mode).category_values \/ ~SizeIn(t) THEN {}
    ELSE {row \in Range(Capped(Preview(t))) : ~TooSmall(row)}
(* A preview holds text: the size is read back as a number.                *)
SmallGroup(t, row) ==
    /\ t.columns[At(t, t.size)].made = "number"
    /\ Value(t, row, t.size) # NoValue
    /\ Value(t, row, t.size) < K_ANONYMITY
\* (Mutant: the text of a size is not read as a number.)
ShownAsText(t, mode) == Rendered(t, mode, LAMBDA row : FALSE)
Shown(t, mode) == Rendered(t, mode, LAMBDA row : SmallGroup(t, row))

-----------------------------------------------------------------------------
(* Rows have a value per column, and stand for records of the dataset.     *)
ColumnSpec == [name : Name, type : Type, made : {"number", "words"}, counts : BOOLEAN]
Row(d) == [values : Seq(Cell), of : SUBSET (DOMAIN d), rank : Nat]
Table(d) == [columns : Seq(ColumnSpec), rows : Seq(Row(d)), derived : BOOLEAN,
             size : {NoColumn} \cup Name, ordered : BOOLEAN]
TypeOK ==
    /\ depth \in 0..MaxSteps /\ data \in Data /\ table \in Table(data)
    /\ \A i \in DOMAIN table.rows : Len(table.rows[i].values) = Len(table.columns)

(* A table is taken for rows of the file only while each of its rows is    *)
(* one record of the file, and no two are the same one; whatever was       *)
(* grouped or binned stays marked along the chain.                         *)
ComputedRowsAreMarked ==
    ~table.derived =>
        /\ \A row \in Range(table.rows) : Cardinality(row.of) = 1
        /\ Cardinality(Covered(table.rows)) = Len(table.rows)

(* A table that passes for a ranking still has the order its last sort     *)
(* gave it, whatever was filtered, trimmed, dropped or added since.        *)
RankingsKeepTheirOrder ==
    table.ordered => \A i \in 2..Len(table.rows) : table.rows[i - 1].rank < table.rows[i].rank

(* Outside full mode, a row the model is shown stands for as many records  *)
(* as the gate asks for, if the column it takes for the size of the row is *)
(* one a tool counted; sizes of groups of groups do not overstate.         *)
SizeIsCounted == SizeIn(table) => table.columns[At(table, table.size)].counts
ShownGroupsAreLarge ==
    SizeIsCounted =>
        \A mode \in Mode \ {"full"} :
            \A row \in Shown(table, mode) : Cardinality(row.of) >= K_ANONYMITY

(* Grouping and binning lose no record and count none twice: whichever of  *)
(* the two a call was, its rows stand for disjoint sets of records, which  *)
(* together are the records read, and the sizes shown beside them add up   *)
(* to the rows read (for bands, those with a value unless the others were  *)
(* asked for).  And a band is one of the n asked for, and holds exactly    *)
(* the rows whose value lies between the edges shown with it, the greatest *)
(* value among them; only the last also holds the rows without a value, if *)
(* they are counted (bin_column.py:112 promises a band of their own).      *)
Disjoint(rows) == \A i, j \in DOMAIN rows : i # j => rows[i].of \cap rows[j].of = {}
Size(row) == row.values[Len(row.values)]
Accounts(P, rows) ==
    /\ Covered(rows) = Standing(P)
    /\ Disjoint(rows)
    /\ Total([i \in DOMAIN rows |-> Size(rows[i])]) = Cardinality(P)

Between(c, from, to) ==
    {i \in Filled(c) : /\ from # NoValue /\ from <= Value(Source, Source.rows[i], c)
                      /\ Value(Source, Source.rows[i], c) <= to}
HoldsItsBand(c, n, P, row) ==
    LET bin == row.values[1]
        without == IF bin = n - 1 THEN P \ Filled(c) ELSE {}
    IN /\ bin \in 0..(n - 1)
       /\ Size(row) = Cardinality(Between(c, row.values[2], row.values[3]) \cup without)

\* What a call makes is known by its columns before its rows are worked out.
Titled(names) == Len(table'.columns) >= Len(names) /\ names = SubSeq(Names(table'), 1, Len(names))
GroupsAccount ==
    \A keys \in KeyLists, m \in Measures :
        Titled(Append(keys, MeasureColumn(m).name)) /\ Aggregate(keys, m) =>
            Accounts(DOMAIN Source.rows, table'.rows)
BandsAccount ==
    \A c \in Range(Names(Source)), n \in BinCounts, include_nulls \in BOOLEAN :
        Titled(<<<<"bin">>>>) /\ BinColumn(c, n, include_nulls) =>
            LET P == IF include_nulls THEN DOMAIN Source.rows ELSE Filled(c)
            IN /\ Accounts(P, table'.rows)
               /\ \A i \in DOMAIN table'.rows : HoldsItsBand(c, n, P, table'.rows[i])
EveryRecordIsCounted == [][table'.derived => GroupsAccount /\ BandsAccount]_vars

=============================================================================
