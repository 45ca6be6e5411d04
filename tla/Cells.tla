------------------------------- MODULE Cells -------------------------------
(***************************************************************************)
(* A column of an uploaded file as the queries see it, and the type the    *)
(* system infers for it (storage/engine.py, schema/inference.py,           *)
(* schema/override.py).                                                    *)
(*                                                                         *)
(* The normalised file stores every cell of a delimited, spreadsheet or    *)
(* JSON upload as text.  What the queries tell apart about a text is a     *)
(* record: the pattern it matches (shape), the number or the hour it reads *)
(* as (at), whether it reads as true or false (says), its place in the     *)
(* alphabetical order (rank), its length and its words.  A cell is null,   *)
(* blank, or a text with or without spaces around it.                      *)
(***************************************************************************)
EXTENDS Integers, Sequences, FiniteSets, SequencesExt

CONSTANTS Text,                   \* the texts a cell may hold
          Null, Blank,            \* no value; nothing but spaces
          MAX_CATEGORICAL_DISTINCT,
          MIN_ROWS_FOR_CARDINALITY_SIGNAL,
          CATEGORY_LIKE_DISTINCT

Shape == {"integer", "decimal", "truth", "date", "no such date", "datetime", "word"}

ASSUME CellsAssumption ==
    /\ \A t \in Text : /\ t.shape \in Shape /\ t.says \in {"true", "false", "neither"}
                       /\ t.shape = "truth" => t.says # "neither"
                       /\ t.says # "neither" => t.shape \in {"truth", "integer"}
                       /\ t.at \in Int /\ t.rank \in Int
                       /\ t.length \in Nat /\ t.words \in Seq(Int)
    /\ \A t, u \in Text : t.rank = u.rank => t = u
    /\ Null \notin Text /\ Blank \notin Text /\ Null # Blank
    /\ {MAX_CATEGORICAL_DISTINCT, MIN_ROWS_FOR_CARDINALITY_SIGNAL,
        CATEGORY_LIKE_DISTINCT} \subseteq Nat

LogicalType == {"numerical", "categorical", "text", "date", "boolean"}
Cell == {Null, Blank} \cup [text : Text, padded : BOOLEAN]

-----------------------------------------------------------------------------
(* A set in an order; the elements of a sequence at some of its places, or *)
(* those with a property; numbers from the least to the greatest.          *)
HowMany(s, Holds(_)) == Cardinality({i \in DOMAIN s : Holds(s[i])})
InOrder(S, Before(_, _)) ==
    [i \in 1..Cardinality(S) |-> CHOOSE x \in S : Cardinality({y \in S : Before(y, x)}) = i - 1]
Picked(s, places) ==
    LET kept == InOrder(places, <) IN [i \in 1..Cardinality(places) |-> s[kept[i]]]
Kept(s, Holds(_)) == Picked(s, {i \in DOMAIN s : Holds(s[i])})
Sorted(s) ==
    LET order == InOrder(DOMAIN s, LAMBDA i, j : s[i] < s[j] \/ (s[i] = s[j] /\ i < j))
    IN [i \in DOMAIN s |-> s[order[i]]]

(* _PRESENT and _TRIM: the values of a column, in the order of its rows,   *)
(* without the spaces around them.                                         *)
Present(cell) == cell \notin {Null, Blank}
TextsOf(cells) == [i \in DOMAIN cells |-> cells[i].text]
Trimmed(column) == TextsOf(Kept(column, Present))

(* _INTEGER_RE and _DECIMAL_RE, the numbers of a column in order; the date *)
(* patterns whose text is a day of the calendar, the moments in order.     *)
Numeric(t) == t.shape \in {"integer", "decimal"}
Dated(t) == t.shape \in {"date", "datetime"}
Reading(texts) == [i \in DOMAIN texts |-> texts[i].at]
Numbers(column) == Sorted(Reading(Kept(Trimmed(column), Numeric)))
Moments(column) == Sorted(Reading(Kept(Trimmed(column), Dated)))

(* column_statistics: one scan of the file.  Distinct is counted over the  *)
(* cells as they are stored, the rest over the texts without spaces.       *)
Scan(column, days) ==
    LET texts == Trimmed(column)
        Like(shape) == HowMany(texts, LAMBDA t : t.shape = shape)
    IN [total |-> Len(column), non_null |-> Len(texts),
        distinct |-> Cardinality({c \in ToSet(column) : Present(c)}),
        integer_like |-> Like("integer"), decimal_like |-> Like("decimal"),
        boolean_like |-> Like("truth"),
        date_like |-> HowMany(texts, LAMBDA t : t.shape \in days), datetime_like |-> Like("datetime")]

\* (Mutant: the pattern of a date is enough.)
StatisticsOfPatterns(column) == Scan(column, {"date", "no such date"})
Statistics(column) == Scan(column, {"date"})

-----------------------------------------------------------------------------
(* infer: the type a column gets at upload and how sure the system is, in  *)
(* tenths.                                                                 *)
LooksLikeACategory(s) ==
    /\ s.distinct <= MAX_CATEGORICAL_DISTINCT
    /\ 2 * s.distinct <= s.non_null

NumericConfidence(s) ==
    IF s.total < MIN_ROWS_FOR_CARDINALITY_SIGNAL THEN 10
    ELSE IF s.distinct <= CATEGORY_LIKE_DISTINCT THEN 6
    ELSE IF s.distinct = s.non_null /\ s.integer_like = s.non_null THEN 7
    ELSE 10

TextConfidence(s) ==
    IF \/ 10 * (s.integer_like + s.decimal_like) >= 9 * s.non_null
       \/ 10 * (s.date_like + s.datetime_like) >= 9 * s.non_null
    THEN 5 ELSE 10

Infer(s) ==
    LET All(n) == n = s.non_null
        Inference(t, c) == [logical_type |-> t, confidence |-> c]
    IN IF s.non_null = 0 THEN Inference("text", 0)
       ELSE IF All(s.boolean_like) THEN Inference("boolean", 10)
       ELSE IF All(s.datetime_like) \/ All(s.date_like) THEN Inference("date", 10)
       ELSE IF All(s.integer_like + s.decimal_like)
            THEN Inference("numerical", NumericConfidence(s))
       ELSE IF LooksLikeACategory(s)
            THEN Inference("categorical",
                           IF s.total >= MIN_ROWS_FOR_CARDINALITY_SIGNAL THEN 10 ELSE 7)
       ELSE Inference("text", TextConfidence(s))

(* conforming_count: how many values a correction to this type keeps; -1   *)
(* where the type discards none.                                           *)
\* (Mutant: only whole days are dates.)
ConformingDays(s, type) ==
    CASE type = "numerical" -> s.integer_like + s.decimal_like
      [] type = "boolean" -> s.boolean_like
      [] type = "date" -> s.date_like
      [] OTHER -> -1
ConformingCount(s, type) ==
    CASE type = "numerical" -> s.integer_like + s.decimal_like
      [] type = "boolean" -> s.boolean_like
      [] type = "date" -> s.date_like + s.datetime_like
      [] OTHER -> -1
=============================================================================
