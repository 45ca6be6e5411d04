------------------------------ MODULE Dialects ------------------------------
(***************************************************************************)
(* How the first megabyte of a delimited file is read: which encoding,     *)
(* which delimiter, and whether its first line names the columns           *)
(* (ingest/text.py, ingest/dialect.py).                                    *)
(*                                                                         *)
(* A line is a sequence of symbols: a letter, a digit, a candidate         *)
(* delimiter, an accent (one byte in a legacy file and two in UTF-8) or a  *)
(* gap (as an accent, but one of its bytes means nothing in cp1252).       *)
(* Quotes, blank lines, blanks and the 16 and 32-bit encodings are left    *)
(* out.                                                                    *)
(***************************************************************************)
EXTENDS Integers, Sequences, FiniteSets, SequencesExt

CONSTANTS Symbol,         \* what lines are made of
          Candidates,     \* CANDIDATE_DELIMITERS, in order
          SCORING_ROWS    \* bound of the code: rows that are scored

\* What only a cut or a reading puts into a text.
ASSUME SymbolAssumption == Symbol \cap {"half", "mojibake", "mark", "repeated"} = {}
\* The last is SINGLE_COLUMN_DELIMITER.
ASSUME CandidatesAssumption ==
    /\ Candidates \in Seq(Symbol \ {"accent", "gap"}) /\ IsInjective(Candidates)
    /\ "," \in ToSet(Candidates)
ASSUME ScoringAssumption == SCORING_ROWS \in Nat \ {0}

Written == {"utf-8", "utf-8-sig", "cp1252"}          \* what files are written in
Encoding == {"utf-8", "utf-8-sig", "cp1252", "latin-1"}
Utf8(encoding) == encoding \in {"utf-8", "utf-8-sig"}

-----------------------------------------------------------------------------
(* Bytes written in one encoding and read in another.                      *)
Readable(symbol, written, encoding) ==
    CASE symbol = "half" -> ~Utf8(encoding)
      [] symbol = "accent" -> Utf8(encoding) => Utf8(written)
      [] symbol = "gap" -> IF Utf8(encoding) THEN Utf8(written) ELSE encoding = "latin-1"
      [] OTHER -> TRUE
AsRead(symbol, written, encoding) ==
    IF symbol = "half" \/ (symbol \in {"accent", "gap"} /\ Utf8(written) /\ ~Utf8(encoding))
    THEN "mojibake" ELSE symbol

Decodes(lines, written, encoding) ==
    \A i \in DOMAIN lines : \A j \in DOMAIN lines[i] : Readable(lines[i][j], written, encoding)
\* The mark of utf-8-sig belongs to the first cell in any other encoding.
Decoded(lines, written, encoding) ==
    [i \in DOMAIN lines |->
        (IF i = 1 /\ written = "utf-8-sig" /\ encoding # "utf-8-sig" THEN <<"mark">> ELSE <<>>)
        \o [j \in DOMAIN lines[i] |-> AsRead(lines[i][j], written, encoding)]]

\* A character the cut went through is dropped.
Trimmed(lines) ==
    [i \in DOMAIN lines |->
        IF lines[i] # <<>> /\ Last(lines[i]) = "half" THEN Front(lines[i]) ELSE lines[i]]
\* (Mutant: the legacy encoding is tried before UTF-8.)
LegacyFirst(lines, written, is_prefix) ==
    IF Decodes(lines, written, "cp1252") THEN "cp1252" ELSE "latin-1"
Decode(lines, written, is_prefix) ==
    IF written = "utf-8-sig" /\ Decodes(lines, written, "utf-8-sig") THEN "utf-8-sig"
    ELSE IF Decodes(lines, written, "utf-8") THEN "utf-8"
    ELSE IF is_prefix /\ Decodes(Trimmed(lines), written, "utf-8") THEN "utf-8"
    ELSE IF Decodes(lines, written, "cp1252") THEN "cp1252" ELSE "latin-1"

-----------------------------------------------------------------------------
(* Cells, and the delimiter that gives most rows the same number of them.  *)
Nth(places, n) == CHOOSE i \in places : Cardinality({j \in places : j < i}) = n - 1
Split(line, delimiter) ==
    LET at == {i \in DOMAIN line : line[i] = delimiter}
        Edge(n) == IF n = 0 THEN 0
                   ELSE IF n > Cardinality(at) THEN Len(line) + 1 ELSE Nth(at, n)
    IN [n \in 1..(Cardinality(at) + 1) |-> SubSeq(line, Edge(n - 1) + 1, Edge(n) - 1)]
SplitAll(lines, delimiter) == [i \in DOMAIN lines |-> Split(lines[i], delimiter)]

RowsFor(lines, delimiter) ==
    SplitAll(SubSeq(lines, 1, Min({Len(lines), SCORING_ROWS})), delimiter)
Agreeing(rows, i) == Cardinality({j \in DOMAIN rows : Len(rows[j]) = Len(rows[i])})
\* Of the commonest widths, the one met first.
Commonest(rows) ==
    CHOOSE i \in DOMAIN rows : \A j \in DOMAIN rows :
        \/ Agreeing(rows, j) < Agreeing(rows, i)
        \/ Agreeing(rows, j) = Agreeing(rows, i) /\ i <= j
Score(rows) ==
    IF Len(rows) < 2 \/ Len(rows[Commonest(rows)]) < 2
    THEN [width |-> 0, agreeing |-> 0]
    ELSE [width |-> Len(rows[Commonest(rows)]), agreeing |-> Agreeing(rows, Commonest(rows))]

\* As many rows are scored for each candidate, so shares compare as counts.
Better(s, t) == s.agreeing > t.agreeing \/ (s.agreeing = t.agreeing /\ s.width > t.width)
DetectDelimiter(lines) ==
    LET score == [n \in DOMAIN Candidates |-> Score(RowsFor(lines, Candidates[n]))]
        splits == {n \in DOMAIN Candidates : score[n].width >= 2}
        best == CHOOSE n \in splits : \A m \in splits :
                    Better(score[n], score[m]) \/ (~Better(score[m], score[n]) /\ n <= m)
    IN IF splits = {} THEN [delimiter |-> ",", sure |-> TRUE]
       ELSE [delimiter |-> Candidates[best],
             sure |-> 10 * score[best].agreeing >= 9 * Len(RowsFor(lines, Candidates[best]))]

LooksNumeric(cell) ==
    LET digits == SelectSeq(cell, LAMBDA symbol : symbol # ",")
    IN digits # <<>> /\ ToSet(digits) = {"digit"}
NumericColumn(rows, column) ==
    LET body == {i \in 2..Len(rows) : Len(rows[i]) >= column}
    IN 10 * Cardinality({i \in body : LooksNumeric(rows[i][column])}) > 8 * Cardinality(body)
DetectHeader(rows) ==
    LET first == rows[1]
        Votes(numeric) == {c \in DOMAIN first :
                              NumericColumn(rows, c) /\ LooksNumeric(first[c]) = numeric}
    IN \/ Len(rows) < 2
       \/ /\ <<>> \notin ToSet(first) /\ IsInjective(first)
          /\ Cardinality(Votes(FALSE)) >= Cardinality(Votes(TRUE))

Dialect == [delimiter: ToSet(Candidates), encoding: Encoding, has_header: BOOLEAN]
\* The lines a prefix ends inside of, and whether any is left, are the caller's.
Detect(lines, kept, written, is_prefix) ==
    LET encoding == Decode(lines, written, is_prefix)
        text == Decoded(kept, written, encoding)
        found == DetectDelimiter(text)
    IN [dialect |-> [delimiter |-> found.delimiter, encoding |-> encoding,
                     has_header |-> DetectHeader(RowsFor(text, found.delimiter))],
        sure |-> found.sure]
=============================================================================
