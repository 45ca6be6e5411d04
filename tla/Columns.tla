------------------------------ MODULE Columns ------------------------------
(***************************************************************************)
(* One dataset from upload to report: the file never changes, the contract *)
(* is inferred from it and then corrected, and every surface computes its  *)
(* figures from the two, each with queries of its own.  The properties say *)
(* that the surfaces agree with each other and account for every value.    *)
(***************************************************************************)
EXTENDS Reports

CONSTANTS Files,      \* the files a person may upload, as sequences of columns
          MaxVersion  \* bound: contract versions

ASSUME ColumnsAssumption ==
    /\ \A f \in Files : /\ f \in Seq(Seq(Cell)) /\ f # <<>>
                        /\ \A c \in DOMAIN f : Len(f[c]) = Len(f[1])
    /\ MaxVersion \in Nat \ {0}

VARIABLES file,     \* the stored columns; none before the upload
          contract  \* the current version: a type per column, how sure, who chose

vars == <<file, contract>>

NoContract == [version |-> 0, types |-> <<>>, confidence |-> <<>>, overridden |-> {}]

Init == file = <<>> /\ contract = NoContract

(* create_dataset: store the file and infer the first contract from it.    *)
BuildColumns(f) ==
    LET read == [c \in DOMAIN f |-> Infer(Statistics(f[c]))]
    IN [version |-> 1, types |-> [c \in DOMAIN f |-> read[c].logical_type],
        confidence |-> [c \in DOMAIN f |-> read[c].confidence], overridden |-> {}]

Upload(f) ==
    /\ file = <<>>
    /\ file' = f
    /\ contract' = BuildColumns(f)

(* apply: the next version, with the columns nobody named carried over.    *)
Override(c, type) ==
    /\ file # <<>> /\ contract.version < MaxVersion
    /\ contract' = [version |-> contract.version + 1,
                    types |-> [contract.types EXCEPT ![c] = type],
                    confidence |-> [contract.confidence EXCEPT ![c] = 10],
                    overridden |-> contract.overridden \cup {c}]
    /\ UNCHANGED file

Next ==
    \/ \E f \in Files : Upload(f)
    \/ \E c \in DOMAIN file, type \in LogicalType : Override(c, type)

Spec == Init /\ [][Next]_vars

-----------------------------------------------------------------------------
Valued(c) == Trimmed(file[c]) # <<>>

(* What a request for a column answers: its card, its panel.               *)
Cards(c) == {Card(file[c], contract.types[c])}
Panels(c) == {Panel(file[c], contract.types[c])}

(* A type the system inferred is one that every value of the column has:   *)
(* the consistency report finds nothing at its strictest, no value is      *)
(* missing from the figures of the panel, and only an empty column is a    *)
(* guess.  The patterns are written in three places.                       *)
InferredTypesFit ==
    \A c \in DOMAIN file \ contract.overridden :
    \A card \in Cards(c), panel \in Panels(c) :
        /\ contract.types[c] \in Declared =>
              TypeFinding(c, Statistics(file[c]), contract.types[c], 10000) = {}
        /\ contract.types[c] \in {"numerical", "date"} =>
              panel.block.conforming = panel.completeness.present
        /\ contract.types[c] = "boolean" => panel.block.other_count = 0
        /\ contract.confidence[c] = 0 <=> card.kind = "empty"

(* The card and the panel show the same figures, and the scan for outliers *)
(* finds those that the panel counts.                                      *)
FiguresAgree(c, card, panel) ==
    LET block == panel.block
    IN /\ card.present = panel.completeness.present
       /\ card.distinct = panel.distinct
       /\ card.present + panel.completeness.nulls + panel.completeness.empty = card.total
       /\ card.kind = "numerical" =>
             /\ <<card.conforming, card.low, card.middle, card.high>>
                   = <<block.conforming, block.low, block.median, block.high>>
             /\ card.bins # IndexError => card.bins = block.bins
             /\ OutlierScan(file, contract.types, c, IQR_K, None, None).outliers
                   = block.outlier_count
       /\ card.kind = "date" => <<card.conforming, card.low, card.high>>
                                   = <<block.conforming, block.earliest, block.latest>>
       /\ card.kind = "categorical" =>
             <<card.top, card.others_count, card.others_distinct>>
                = <<block.top, block.others_count, block.others_distinct>>
       /\ card.kind = "boolean" =>
             card.conforming = block.true_count + block.false_count

(* The 1s and 0s of a column: a column declared boolean reads them as true *)
(* and false, inference and corrections do not (D-068, profile.py).        *)
Digits(c) == HowMany(Trimmed(file[c]), LAMBDA t : t.shape = "integer" /\ t.says # "neither")

(* What a correction to a type says it keeps, and what the consistency     *)
(* report finds of a declared type, is what the panel counts: for booleans *)
(* all but the 1s and 0s, which only the panel reads.                      *)
TypesAgree(c, panel) ==
    LET block == panel.block
        type == contract.types[c]
        read == IF type = "boolean" THEN block.true_count + block.false_count - Digits(c)
                ELSE block.conforming
        s == Statistics(file[c])
    IN Valued(c) =>
       /\ type \in Declared =>
             /\ ConformingCount(s, type) = read
             /\ \A f \in TypeConsistency(file, contract.types, 10000) : f.subject = c =>
                   f.conforming = read /\ f.odd = panel.completeness.present - read
       /\ type = "text" => <<block.numeric, block.dateish>>
                             = <<ConformingCount(s, "numerical"), ConformingCount(s, "date")>>

(* The cardinality report counts cells as they are stored and the panel    *)
(* counts texts: the report never counts fewer, and more only if a text is *)
(* stored in two ways; what the panel calls unique the report calls so.    *)
StoredTwice(c) ==
    \E x, y \in {v \in ToSet(file[c]) : Present(v)} : x # y /\ x.text = y.text
DistinctsAgree(c, panel) ==
    \A f \in Cardinalities(file, contract.types, MAX_LEVELS).findings : f.subject = c =>
        /\ panel.distinct <= f.distinct
        /\ panel.distinct < f.distinct <=> StoredTwice(c)
        /\ panel.is_unique /\ panel.distinct > 1 => f.reason = "all_different"

(* The card, the panel, the reports and what a correction says it costs    *)
(* count the same values, although each surface counts for itself, with    *)
(* two differences and no more: 1 and 0 declared boolean, and a text that  *)
(* is stored both with and without spaces.                                 *)
SurfacesAgree ==
    \A c \in DOMAIN file : \A card \in Cards(c), panel \in Panels(c) :
        FiguresAgree(c, card, panel) /\ TypesAgree(c, panel) /\ DistinctsAgree(c, panel)

(* No value is drawn twice or lost: the buckets of every histogram, every  *)
(* calendar and every cycle hold the values that conform, the strip holds  *)
(* the rows, and a ranking with its others holds the values present.       *)
EveryValueIsDrawn ==
    \A c \in DOMAIN file : \A card \in Cards(c), panel \in Panels(c) :
        LET block == panel.block
            type == contract.types[c]
            present == panel.completeness.present
            strip == panel.presence
            Drawn(bins, n) == Total(bins) = n
        IN /\ Drawn(strip.slots, Len(file[c]))
           /\ Total([i \in DOMAIN strip.slots |-> [count |-> strip.slots[i].present]]) = present
           /\ Len(strip.slots) <= MATRIX_SLOTS
           /\ \A i \in DOMAIN strip.slots : strip.slots[i].count \in 1..strip.rows_per_slot
           /\ card.bins \notin {IndexError, <<>>} => Drawn(card.bins, card.conforming)
           /\ Valued(c) =>
              CASE type = "numerical" -> Drawn(block.bins, block.conforming)
                [] type = "date" ->
                     /\ \A chart \in {block.by_year, block.by_month, block.by_weekday,
                                      block.by_month_of_year} : Drawn(chart, block.conforming)
                     /\ \A chart \in {block.by_day, block.by_hour} :
                           chart = <<>> \/ Drawn(chart, block.conforming)
                     /\ block.days_seen <= block.days_in_span
                [] type = "boolean" -> block.other_count \in 0..present
                [] type = "categorical" ->
                     /\ Total(block.top) + block.others_count = present
                     /\ block.others_count >= block.others_distinct
                [] type = "text" ->
                     /\ Drawn(block.length_bins, present) /\ Drawn(block.word_bins, present)
                     /\ Total(block.top) + block.others_count = present
                     /\ block.top_words = <<>> <=> block.tokens_total = 0
                     /\ \A words \in {ToSet(Terms(file[c], 1, block.tokens_total))},
                           pair \in ToSet(block.top_pairs) :
                           \E word \in words : /\ word.value[1] = pair.value[1]
                                               /\ word.count >= pair.count

(* A sampled curve keeps its two ends and never falls: concentration and   *)
(* vocabulary end at the last rank with everything counted, the cumulative *)
(* distribution runs from the least value to the greatest, the marks of    *)
(* the rug include both, and no curve is longer than its limit and one.    *)
CurvesReachTheEnd ==
    \A c \in DOMAIN file : Valued(c) => \A panel \in Panels(c) :
        LET block == panel.block
            type == contract.types[c]
            Reaches(curve, ranks, all) ==
                /\ curve # <<>> => Last(curve) = [rank |-> ranks, count |-> all]
                /\ \A i \in 2..Len(curve) : curve[i - 1].count < curve[i].count
                /\ Len(curve) <= CONCENTRATION_POINTS + 1
        IN CASE type = "categorical" ->
                  /\ Reaches(block.concentration, panel.distinct, panel.completeness.present)
                  /\ block.rare_categories <= panel.distinct
             [] type = "text" ->
                  Reaches(block.vocabulary, block.tokens_distinct, block.tokens_total)
             [] type = "numerical" /\ block.conforming > 0 ->
                  /\ block.ecdf[1] = ECDF_POINTS * block.low
                  /\ Last(block.ecdf) = ECDF_POINTS * block.high
                  /\ \A i \in 2..Len(block.ecdf) : block.ecdf[i - 1] <= block.ecdf[i]
                  /\ block.rug[1].value = block.low /\ Last(block.rug).value = block.high
                  /\ Len(block.rug) <= RUG_POINTS + 1
                  /\ block.low <= block.whiskers[1] /\ block.whiskers[1] <= block.whiskers[2]
                  /\ block.whiskers[2] <= block.high
                  /\ block.outlier_count = 0 <=> block.whiskers = <<block.low, block.high>>
             [] OTHER -> TRUE

(* The reports over several columns account for the rows: two columns are  *)
(* never missing together more often than either is, dropping the rows     *)
(* called redundant leaves one of each, and a crosstab's cells, incomplete *)
(* rows and omitted levels are all the rows.                               *)
ReportsAddUp ==
    file # <<>> =>
        /\ LET holes == Missing(file, 0)
           IN /\ {f.subject : f \in ToSet(holes)}
                    = {c \in DOMAIN file : \E panel \in Panels(c) :
                           panel.completeness.present < Len(file[c])}
              /\ \A p \in CoMissing(file, holes), f \in ToSet(holes) :
                    (\E i \in {1, 2} : f.subject = p.subject[i]) =>
                        p.missing_together <= f.missing
        /\ \A subset \in SUBSET DOMAIN file :
              LET d == Duplicates(file, subset)
                  kept == {[c \in Keys(file, subset) |-> file[c][r]] : r \in Rows(file)}
              IN /\ Cardinality(Rows(file)) - d.redundant_rows = Cardinality(kept)
                 /\ d.duplicate_rows >= 2 * d.duplicate_groups
        /\ \A a, b \in DOMAIN file :
              LET m == Crosstab(file, contract.types, a, b)
                  counted == MapThenSumSet(LAMBDA x : x[3],
                                           {<<x.row, x.column, x.count>> : x \in m.cells})
              IN m # Refused =>
                 /\ counted + m.incomplete <= Cardinality(Rows(file))
                 /\ (m.omitted_rows = 0 /\ m.omitted_columns = 0) <=>
                       counted + m.incomplete = Cardinality(Rows(file))
        /\ \A c \in Cardinalities(file, contract.types, MAX_LEVELS).clean : Valued(c)

(* Every card of the Profile tab can be drawn.                             *)
ProfileOpens == \A c \in DOMAIN file : \A card \in Cards(c) : card.bins # IndexError
=============================================================================
