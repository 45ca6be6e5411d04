------------------------------ MODULE Figures ------------------------------
(***************************************************************************)
(* What the analysis surfaces show of a column: its card on the Profile    *)
(* tab (storage/profile.py) and its panel (storage/column_profile.py).     *)
(* Both are queries over one stored file.  Quantities that the code        *)
(* divides are kept as exact numerators; each operator names its           *)
(* denominator.  Moments of a distribution (mean, deviation, skewness) and *)
(* pattern counts that no other figure depends on are left out.            *)
(***************************************************************************)
EXTENDS Cells

CONSTANTS TOP_N, N_BINS, SAMPLES, \* arguments of the two tools
          EXTREMES, RARE_BELOW, RUG_POINTS, ECDF_POINTS, MATRIX_SLOTS,
          CONCENTRATION_HEAD, CONCENTRATION_POINTS,
          TOP_VALUES, TOP_TERMS, CLOUD_TERMS, DAILY_GRAIN_LIMIT,
          HoursPerDay, DaysPerMonth, MonthsPerYear, DaysPerWeek,
          None,                   \* a figure that is not shown
          IndexError              \* what the request for a card may end in

ASSUME FiguresAssumption ==
    /\ {TOP_N, SAMPLES, EXTREMES, RARE_BELOW, RUG_POINTS, ECDF_POINTS, MATRIX_SLOTS,
        CONCENTRATION_POINTS, TOP_VALUES, TOP_TERMS, HoursPerDay, DaysPerMonth,
        MonthsPerYear, DaysPerWeek} \subseteq Nat \ {0}
    /\ N_BINS \in Nat /\ N_BINS >= 2
    /\ CONCENTRATION_HEAD \in 0..(CONCENTRATION_POINTS - 1)
    /\ CLOUD_TERMS \in Nat /\ CLOUD_TERMS >= TOP_TERMS /\ DAILY_GRAIN_LIMIT \in Nat

AtMost(s, n) == SubSeq(s, 1, Min({n, Len(s)}))
Above0(n) == Max({0, n})
CeilDiv(a, b) == (a + b - 1) \div b
Total(s) == FoldLeft(LAMBDA sum, x : sum + x.count, 0, s)

-----------------------------------------------------------------------------
(* Rankings: how often each value occurs, the commonest first, ties in the *)
(* order of Precedes (the alphabet, or the number line).                   *)
Tally(s, Precedes(_, _)) ==
    InOrder({[value |-> v, count |-> HowMany(s, LAMBDA x : x = v)] : v \in ToSet(s)},
                 LAMBDA a, b : \/ a.count > b.count
                               \/ a.count = b.count /\ Precedes(a.value, b.value))

Alphabetical(t, u) == t.rank < u.rank
TopValues(column, limit) == AtMost(Tally(Trimmed(column), Alphabetical), limit)
OthersCount(column, top) == Len(Trimmed(column)) - Total(top)
Distinct(column) == Cardinality(ToSet(Trimmed(column)))
OthersDistinct(column, top) == Above0(Distinct(column) - Len(top))
Samples(column) ==
    AtMost(InOrder(ToSet(Trimmed(column)), Alphabetical), SAMPLES)

(* A curve of cumulative counts over a ranking, sampled: the head rank by  *)
(* rank, then every step-th rank, and always the last.                     *)
Curve(tally, ranks) ==
    LET kept == InOrder(ranks, <)
    IN [i \in DOMAIN kept |-> [rank |-> kept[i], count |-> Total(SubSeq(tally, 1, kept[i]))]]
Every(tally) ==
    Max({1, CeilDiv(Above0(Len(tally) - CONCENTRATION_HEAD),
                    Max({1, CONCENTRATION_POINTS - CONCENTRATION_HEAD}))})
\* (Mutant: the last rank is kept only if a step lands on it.)
SampledBySteps(tally) ==
    Curve(tally, {r \in 1..Len(tally) : r <= CONCENTRATION_HEAD \/ r % Every(tally) = 0})
Sampled(tally) ==
    Curve(tally, {r \in 1..Len(tally) :
                    r <= CONCENTRATION_HEAD \/ r % Every(tally) = 0 \/ r = Len(tally)})

(* d times the p/d quantile of a sorted sequence, interpolated.            *)
Quantile(s, p, d) ==
    LET i == ((Len(s) - 1) * p) \div d
        over == ((Len(s) - 1) * p) % d
    IN d * s[i + 1] + (IF over = 0 THEN 0 ELSE over * (s[i + 2] - s[i + 1]))

(* The buckets of a histogram of n equal widths between the least and the  *)
(* greatest of a sorted sequence; edges are n times their value.           *)
\* (Mutant: the greatest value has a bucket of its own.)
BucketPastTheLast(x, s, n) == ((x - Head(s)) * n) \div (Last(s) - Head(s))
Bucket(x, s, n) == Min({((x - Head(s)) * n) \div (Last(s) - Head(s)), n - 1})
Edges(s, n) == [i \in 1..(n + 1) |-> n * Head(s) + (i - 1) * (Last(s) - Head(s))]
Histogram(s, n) ==
    [i \in 1..n |-> [lower |-> Edges(s, n)[i], upper |-> Edges(s, n)[i + 1],
                     count |-> HowMany(s, LAMBDA x : Bucket(x, s, n) = i - 1)]]
OneBin(s) == <<[lower |-> Head(s), upper |-> Head(s), count |-> Len(s)]>>

-----------------------------------------------------------------------------
(* The card.                                                               *)
BinEdges(s, n) == IF Last(s) <= Head(s) THEN <<Head(s), Head(s) + 1>> ELSE Edges(s, n)

CardBins(s) ==
    IF s = <<>> THEN <<>>
    ELSE IF Len(BinEdges(s, N_BINS)) < N_BINS + 1 THEN IndexError
    ELSE Histogram(s, N_BINS)

Kind(column, type) ==
    IF Trimmed(column) = <<>> THEN "empty"
    ELSE IF Distinct(column) = 1 THEN "constant" ELSE type

Says(column, word) == HowMany(Trimmed(column), LAMBDA t : t.says = word)

Least(s) == IF s = <<>> THEN None ELSE Head(s)
Greatest(s) == IF s = <<>> THEN None ELSE Last(s)
Median2(s) == IF s = <<>> THEN None ELSE Quantile(s, 1, 2)  \* twice the median
Lengths(column) == LET t == Trimmed(column) IN Sorted([i \in DOMAIN t |-> t[i].length])

(* The single pass over a column that every card is filled from.           *)
Scalars(column) ==
    LET numbers == Numbers(column)
        moments == Moments(column)
        lengths == Lengths(column)
    IN [present |-> Len(Trimmed(column)), distinct |-> Distinct(column),
        numbers |-> Len(numbers), minimum |-> Least(numbers), median |-> Median2(numbers),
        maximum |-> Greatest(numbers),
        moments |-> Len(moments), earliest |-> Least(moments), latest |-> Greatest(moments),
        length_min |-> Least(lengths), length_median |-> Median2(lengths),
        length_max |-> Greatest(lengths),
        true_count |-> Says(column, "true"), false_count |-> Says(column, "false")]

(* A card of the Profile tab; figures its kind does not show are None.     *)
ColumnProfile(kind, total, s) ==
    [kind |-> kind, total |-> total, present |-> s.present, distinct |-> s.distinct,
     conforming |-> None, bins |-> <<>>, low |-> None, middle |-> None, high |-> None,
     top |-> <<>>, others_count |-> 0, others_distinct |-> 0, samples |-> <<>>]

Card(column, type) ==
    LET s == Scalars(column)
        kind == Kind(column, type)
        card == ColumnProfile(kind, Len(column), s)
        top == IF kind \in {"categorical", "constant"} THEN TopValues(column, TOP_N) ELSE <<>>
    IN CASE kind = "empty" -> card
         [] kind = "constant" -> [card EXCEPT !.top = <<Head(top)>>]
         [] kind = "numerical" ->
              [card EXCEPT !.conforming = s.numbers, !.low = s.minimum, !.middle = s.median,
                           !.high = s.maximum, !.bins = CardBins(Numbers(column))]
         [] kind = "date" ->
              [card EXCEPT !.conforming = s.moments, !.low = s.earliest, !.high = s.latest,
                           !.bins = CardBins(Moments(column))]
         [] kind = "boolean" ->
              [card EXCEPT !.conforming = s.true_count + s.false_count,
                           !.top = <<[value |-> "true", count |-> s.true_count],
                                     [value |-> "false", count |-> s.false_count]>>]
         [] kind = "categorical" ->
              [card EXCEPT !.conforming = s.present, !.top = top,
                           !.others_count = OthersCount(column, top),
                           !.others_distinct = OthersDistinct(column, top)]
         [] kind = "text" ->
              [card EXCEPT !.conforming = s.present, !.low = s.length_min,
                           !.middle = s.length_median, !.high = s.length_max,
                           !.samples = Samples(column)]

-----------------------------------------------------------------------------
(* The panel.                                                              *)
Completeness(column, type) ==
    LET Numerical(n) == IF type = "numerical" THEN n ELSE None
    IN [total |-> Len(column), present |-> Len(Trimmed(column)),
        nulls |-> HowMany(column, LAMBDA c : c = Null),
        empty |-> HowMany(column, LAMBDA c : c = Blank),
        zeros |-> Numerical(HowMany(Numbers(column), LAMBDA x : x = 0)),
        negatives |-> Numerical(HowMany(Numbers(column), LAMBDA x : x < 0))]

(* The strip under the header: runs of rows, and how many hold a value.    *)
Presence(column) ==
    LET size == Max({1, CeilDiv(Len(column), MATRIX_SLOTS)})
        slots == CeilDiv(Len(column), size)
        InSlot(row, i) == Min({(row - 1) \div size, slots - 1}) = i - 1
        rows(i) == {row \in DOMAIN column : InSlot(row, i)}
    IN [rows_per_slot |-> size,
        slots |-> [i \in 1..slots |->
                     [count |-> Cardinality(rows(i)),
                      present |-> Cardinality({row \in rows(i) : Present(column[row])})]]]

(* Eight times the outlier fence: a quarter is a fourth, k is in halves.   *)
Fence(s, k) ==
    LET p25 == Quantile(s, 1, 4)
        p75 == Quantile(s, 3, 4)
    IN [low |-> 2 * p25 - k * (p75 - p25), high |-> 2 * p75 + k * (p75 - p25)]
IQR_K == 3  \* one and a half interquartile ranges
Outside(s, fence) == HowMany(s, LAMBDA x : 8 * x < fence.low \/ 8 * x > fence.high)

Rug(s) ==
    LET marks == InOrder(ToSet(s), <)
        stride == Max({1, CeilDiv(Len(marks), RUG_POINTS)})
        kept == InOrder({i \in DOMAIN marks : (i - 1) % stride = 0 \/ i = Len(marks)}, <)
    IN [i \in DOMAIN kept |-> [value |-> marks[kept[i]],
                               count |-> HowMany(s, LAMBDA x : x = marks[kept[i]])]]

Edge(s, ascending) == AtMost(IF ascending THEN s ELSE Reverse(s), EXTREMES)
PanelBins(s, n) ==
    IF s = <<>> THEN <<>> ELSE IF Head(s) = Last(s) THEN OneBin(s) ELSE Histogram(s, n)

(* Where the whiskers stop: the last values inside the fence.              *)
Whiskers(s, fence) ==
    LET above == Kept(s, LAMBDA x : 8 * x >= fence.low)
        below == Kept(s, LAMBDA x : 8 * x <= fence.high)
    IN <<IF above = <<>> THEN Head(s) ELSE Head(above),
         IF below = <<>> THEN Last(s) ELSE Last(below)>>

NoNumbers ==
    [conforming |-> 0, median |-> None, low |-> None, high |-> None, bins |-> <<>>,
     outlier_count |-> 0, whiskers |-> None, smallest |-> <<>>, largest |-> <<>>,
     ecdf |-> <<>>, rug |-> <<>>]
NumericStats(column) ==
    LET s == Numbers(column)
        fence == Fence(s, IQR_K)
    IN IF s = <<>> THEN NoNumbers
       ELSE [conforming |-> Len(s), median |-> Median2(s), low |-> Head(s), high |-> Last(s),
             bins |-> PanelBins(s, N_BINS), outlier_count |-> Outside(s, fence),
             whiskers |-> Whiskers(s, fence),
             smallest |-> Edge(s, TRUE), largest |-> Edge(s, FALSE),
             ecdf |-> [i \in 1..(ECDF_POINTS + 1) |-> Quantile(s, i - 1, ECDF_POINTS)],
             rug |-> Rug(s)]

CategoricalStats(column) ==
    LET top == TopValues(column, TOP_N)
        all == Tally(Trimmed(column), Alphabetical)
    IN [top |-> top, others_count |-> OthersCount(column, top),
        others_distinct |-> OthersDistinct(column, top),
        top5 |-> Total(AtMost(top, 5)),
        rare_categories |-> HowMany(all, LAMBDA v : v.count < RARE_BELOW),
        concentration |-> Sampled(all)]

-----------------------------------------------------------------------------
(* The panel of a text: runs of w words, as the tokens of one text follow  *)
(* each other, ranked.                                                     *)
Grams(column, w) ==
    LET Runs(t) == [i \in 1..Above0(Len(t.words) - w + 1) |-> SubSeq(t.words, i, i + w - 1)]
        texts == Trimmed(column)
    IN FlattenSeq([i \in DOMAIN texts |-> Runs(texts[i])])

Lexical(a, b) ==
    \E i \in DOMAIN a : a[i] < b[i] /\ \A j \in 1..(i - 1) : a[j] = b[j]
Terms(column, w, limit) == AtMost(Tally(Grams(column, w), Lexical), limit)
Vocabulary(column) == Sampled(Tally(Grams(column, 1), Lexical))

TokenTotals(column) == <<Len(Grams(column, 1)), Cardinality(ToSet(Grams(column, 1)))>>
RepeatedTexts(column) == TopValues(column, TOP_VALUES)

MeasureBins(s) ==
    IF s = <<>> THEN <<>>
    ELSE IF Head(s) = Last(s) THEN OneBin(s)
    ELSE Histogram(s, Min({20, Last(s) - Head(s) + 1}))

TextStats(column) ==
    LET texts == Trimmed(column)
        top == RepeatedTexts(column)
        counts == Sorted([i \in DOMAIN texts |-> Len(texts[i].words)])
        cloud == Terms(column, 1, CLOUD_TERMS)
    IN [lengths |-> <<Least(Lengths(column)), Median2(Lengths(column)),
                      Greatest(Lengths(column))>>,
        words |-> <<Least(counts), Median2(counts), Greatest(counts)>>,
        length_bins |-> MeasureBins(Lengths(column)), word_bins |-> MeasureBins(counts),
        numeric |-> Len(Numbers(column)), dateish |-> Len(Moments(column)),
        padded |-> HowMany(column, LAMBDA c : Present(c) /\ c.padded),
        top |-> top, others_count |-> Above0(OthersCount(column, top)),
        others_distinct |-> OthersDistinct(column, top),
        tokens_total |-> TokenTotals(column)[1], tokens_distinct |-> TokenTotals(column)[2],
        cloud |-> cloud, top_words |-> AtMost(cloud, TOP_TERMS),
        top_pairs |-> Terms(column, 2, TOP_TERMS), top_triples |-> Terms(column, 3, TOP_TERMS),
        vocabulary |-> Vocabulary(column), samples |-> Samples(column)]

-----------------------------------------------------------------------------
(* The panel of a date, over a calendar of equal months: the buckets of a  *)
(* grain from the first moment to the last, empty ones included, and the   *)
(* buckets of a cycle.                                                     *)
DayOf(m) == m \div HoursPerDay
MonthOf(m) == DayOf(m) \div DaysPerMonth
YearOf(m) == MonthOf(m) \div MonthsPerYear

Calendar(s, Grain(_)) ==
    IF s = <<>> THEN <<>>
    ELSE [i \in 1..(Grain(Last(s)) - Grain(Head(s)) + 1) |->
            [key |-> Grain(Head(s)) + i - 1,
             count |-> HowMany(s, LAMBDA m : Grain(m) = Grain(Head(s)) + i - 1)]]
Cycle(s, length, Phase(_)) ==
    [i \in 1..length |-> [key |-> i, count |-> HowMany(s, LAMBDA m : Phase(m) = i - 1)]]

DateStats(column) ==
    LET s == Moments(column)
        days == Cardinality({DayOf(m) : m \in ToSet(s)})
        months == Cardinality({MonthOf(m) : m \in ToSet(s)})
        granularity == IF \E m \in ToSet(s) : m % HoursPerDay # 0 THEN "hourly"
                       ELSE IF months > 0 /\ days <= months THEN "monthly" ELSE "daily"
        covered == IF s = <<>> THEN 0 ELSE DayOf(Last(s)) - DayOf(Head(s)) + 1
    IN [conforming |-> Len(s), earliest |-> Least(s), latest |-> Greatest(s),
        granularity |-> granularity, days_seen |-> days, days_in_span |-> covered,
        by_year |-> Calendar(s, YearOf), by_month |-> Calendar(s, MonthOf),
        by_day |-> IF covered > 0 /\ covered <= DAILY_GRAIN_LIMIT
                   THEN Calendar(s, DayOf) ELSE <<>>,
        by_weekday |-> Cycle(s, DaysPerWeek, LAMBDA m : DayOf(m) % DaysPerWeek),
        by_month_of_year |-> Cycle(s, MonthsPerYear, LAMBDA m : MonthOf(m) % MonthsPerYear),
        by_hour |-> IF granularity = "hourly"
                    THEN Cycle(s, HoursPerDay, LAMBDA m : m % HoursPerDay) ELSE <<>>]

BooleanStats(column) ==
    LET yes == Says(column, "true")
        no == Says(column, "false")
    IN [true_count |-> yes, false_count |-> no,
        other_count |-> Len(Trimmed(column)) - yes - no]

-----------------------------------------------------------------------------
(* The block the panel shows for a type, and the sentences under it.       *)
Block(column, type) ==
    CASE Trimmed(column) = <<>> -> None
      [] type = "numerical" /\ Trimmed(column) # <<>> -> NumericStats(column)
      [] type = "categorical" /\ Trimmed(column) # <<>> -> CategoricalStats(column)
      [] type = "date" /\ Trimmed(column) # <<>> -> DateStats(column)
      [] type = "boolean" /\ Trimmed(column) # <<>> -> BooleanStats(column)
      [] type = "text" /\ Trimmed(column) # <<>> -> TextStats(column)

Narrative(done, type, block) ==
    LET Said(sentence, when) == IF when THEN {sentence} ELSE {}
    IN IF done.present = 0
       THEN {IF done.nulls = done.total THEN "every row is null"
             ELSE IF done.empty = done.total THEN "every row is an empty string"
             ELSE "no row has a value"}
       ELSE CASE type = "numerical" -> Said("median and fence", block.median # None)
              [] type = "categorical" -> {"most frequent"}
                                         \cup Said("rare", block.rare_categories > 0)
              [] type = "date" -> Said("from, to and span", block.earliest # None)
              [] type = "boolean" -> {"share true"} \cup Said("neither", block.other_count > 0)
              [] type = "text" -> {"lengths"} \cup Said("numbers held as text",
                                                        10 * block.numeric >= 9 * done.present)

IsUnique(distinct, present) == present > 0 /\ distinct = present
Panel(column, type) ==
    LET done == Completeness(column, type)
        block == Block(column, type)
    IN [completeness |-> done, presence |-> Presence(column),
        distinct |-> Distinct(column),
        is_unique |-> IsUnique(Distinct(column), done.present),
        block |-> block, narrative |-> Narrative(done, type, block)]
=============================================================================
