------------------------------- MODULE Ingest -------------------------------
(***************************************************************************)
(* An upload from its preview to its table (ingest/preview.py,             *)
(* ingest/formats.py, ingest/normalize.py, the upload routes and the page  *)
(* that calls them): the page sends the first megabyte to be previewed,    *)
(* shows how it would be read, and sends the file with that reading, as    *)
(* corrected; a script may send whole files and leave the reading to the   *)
(* server, which also loads samples of its own.  Preview and commit parse  *)
(* by different code: in memory and leniently, or streamed and strictly.   *)
(*                                                                         *)
(* A file is its format, what it is written in, its lines, and how much of *)
(* it the first megabyte holds.  The lines of a format other than          *)
(* delimited text stand for its header and its records.  What commit does  *)
(* with files, rows and transactions is in Datasets.                       *)
(***************************************************************************)
EXTENDS Dialects

CONSTANTS File,             \* files people send
          MAX_ROWS, PREVIEW_ROWS, UNSPLIT_ROWS,   \* bounds of the code
          Unset, Null

Kind == {"delimited", "parquet", "workbook", "records", "archive"}
\* The first megabyte holds it all, or ends in a line, perhaps inside a symbol.
ASSUME FileAssumption ==
    \A f \in File :
        /\ f.kind \in Kind /\ f.written \in Written
        /\ f.lines \in Seq(Seq(Symbol)) /\ f.lines # <<>>
        /\ f.seen.lines \in 0..Len(f.lines)
        /\ f.seen.lines = Len(f.lines) => f.seen.rest = <<>>
        /\ f.seen.lines < Len(f.lines) =>
              LET line == f.lines[f.seen.lines + 1]
              IN \E n \in 0..Len(line) :
                    \/ f.seen.rest = SubSeq(line, 1, n)
                    \/ Utf8(f.written) /\ f.seen.rest = SubSeq(line, 1, n) \o <<"half">>
ASSUME AbsenceAssumption ==
    /\ Unset \notin Dialect
    /\ Unset \notin ToSet(Candidates) /\ Unset \notin Encoding /\ Unset \notin BOOLEAN
    /\ Null \notin Seq(Symbol \cup {"mojibake", "mark"})
ASSUME BoundAssumption == {MAX_ROWS, PREVIEW_ROWS, UNSPLIT_ROWS} \subseteq Nat \ {0}

Field == {"delimiter", "encoding", "has_header"}

VARIABLES file, client,   \* what is uploaded, and whether by the page or a script
          preview,        \* the answer of POST /uploads/preview
          form,           \* the reading sent with the file; a field may be left out
          corrected,      \* the fields somebody changed (bound: one)
          outcome         \* the answer of POST /datasets

vars == <<file, client, preview, form, corrected, outcome>>

Whole(f) == f.seen.lines = Len(f.lines)
Delimited(f) == f.kind = "delimited"
WholeLines(f) == SubSeq(f.lines, 1, f.seen.lines)
InHead(f) == WholeLines(f) \o (IF f.seen.rest = <<>> THEN <<>> ELSE <<f.seen.rest>>)

Table(names, rows) == [is |-> "table", names |-> names, rows |-> rows]
Rejected == [is |-> "rejected"]
Failed == [is |-> "error"]         \* an exception that no handler answers
IsTable(answer) == answer.is = "table"

Init ==
    /\ file \in File
    /\ client \in {"page", "script"} \cup (IF Delimited(file) THEN {"sample"} ELSE {})
    /\ preview = Unset /\ outcome = Unset /\ corrected = {}
    /\ form = [field \in Field |-> Unset]

-----------------------------------------------------------------------------
(* The readers.  A short row is padded, an empty field is null, a repeated *)
(* name is numbered, and a long row is an error or, leniently, cut.        *)
Numbered(n) == [i \in 1..n |-> "column"]
Deduped(cells) ==
    [i \in DOMAIN cells |->
        cells[i] \o [k \in 1..Cardinality({j \in 1..(i - 1) : cells[j] = cells[i]}) |-> "repeated"]]
Padded(row, width) ==
    [i \in 1..width |-> IF i <= Len(row) /\ row[i] # <<>> THEN row[i] ELSE Null]

Long(rows, width) == {i \in DOMAIN rows : Len(rows[i]) > width}
Frame(text, d, lenient) ==
    LET rows == SplitAll(text, d.delimiter)
        width == Len(rows[1])
        names == IF d.has_header THEN Deduped(rows[1]) ELSE [i \in 1..width |-> Numbered(i)]
        body == IF d.has_header THEN Tail(rows) ELSE rows
    IN IF ~lenient /\ Long(body, width) # {} THEN Rejected
       ELSE Table(names, [i \in DOMAIN body |-> Padded(body[i], width)])

\* Plain UTF-8 is handed over as it is, and polars skips its mark.
ToUtf8(lines, written, encoding) ==
    Decoded(lines, IF encoding = "utf-8" THEN "utf-8" ELSE written, encoding)

Count(cells, delimiter) ==
    Cardinality(UNION {{<<i, j>> : j \in {j \in DOMAIN cells[i] : cells[i][j] = delimiter}} :
                       i \in DOMAIN cells})
\* The name of the only column, and its first values.
Sample(table) ==
    LET rows == {i \in 1..Min({Len(table.rows), UNSPLIT_ROWS}) : table.rows[i][1] # Null}
    IN [i \in {0} \cup rows |-> IF i = 0 THEN table.names[1] ELSE table.rows[i][1]]
FullOf(other, sample) == Count(sample, other) >= Cardinality(DOMAIN sample)
\* (Mutant: off by one.)
FullerThan(table, d) ==
    /\ Len(table.names) = 1
    /\ \E other \in ToSet(Candidates) \ {d.delimiter} :
          Count(Sample(table), other) > Cardinality(DOMAIN Sample(table))
\* One column, full of another delimiter.
Unsplit(table, d) ==
    /\ Len(table.names) = 1
    /\ \E other \in ToSet(Candidates) \ {d.delimiter} : FullOf(other, Sample(table))

ReadDelimited(lines, written, d) ==
    LET table == Frame(ToUtf8(lines, written, d.encoding), d, FALSE)
    IN IF \/ ~Decodes(lines, written, d.encoding)
          \/ ~IsTable(table)
          \/ Unsplit(table, d)
       THEN Rejected ELSE table

(* The other formats bring their own layout; all but Parquet are read in   *)
(* memory by preview and commit alike.                                     *)
Cells(f) == SplitAll(f.lines, Candidates[1])
OwnTable(f) ==
    LET width == Len(Cells(f)[1])
        names == [i \in 1..width |->
                     IF Cells(f)[1][i] = <<>> THEN Numbered(i) ELSE Cells(f)[1][i]]
        rows == [i \in 1..(Len(f.lines) - 1) |-> Padded(Cells(f)[i + 1], width)]
        filled == {i \in DOMAIN rows : f.kind = "workbook" => ToSet(rows[i]) # {Null}}
    IN Table(names, [n \in 1..Cardinality(filled) |-> rows[Nth(filled, n)]])
ReadOwn(f) ==
    IF f.kind # "parquet" /\ OwnTable(f).rows = <<>> THEN Rejected ELSE OwnTable(f)

\* What read() checks whatever the format.
UniqueNames(table) == IsInjective(table.names)
Checked(answer) ==
    IF IsTable(answer) => \/ Len(answer.rows) \notin 1..MAX_ROWS
                          \/ ~UniqueNames(answer)
    THEN Rejected ELSE answer

-----------------------------------------------------------------------------
(* sniff: the format, as far as the bytes in hand say it.  An archive      *)
(* opens only with its end, which the first megabyte may not hold.         *)
Sniffed(f) ==
    /\ f.kind # "archive"
    /\ f.kind = "workbook" => Whole(f)

Kept(f, is_prefix) == IF is_prefix THEN WholeLines(f) ELSE InHead(f)
Detected(f, is_prefix) == Detect(InHead(f), Kept(f, is_prefix), f.written, is_prefix)

(* build: a lenient reading of the first rows, with what it tolerated.     *)
Lossy(lines, written) ==
    [i \in DOMAIN lines |-> [j \in DOMAIN lines[i] |->
        IF Readable(lines[i][j], written, "utf-8") THEN lines[i][j] ELSE "replaced"]]
Lenient(lines, written, d) ==
    IF Utf8(d.encoding) /\ ~Decodes(lines, written, "utf-8") THEN Failed
    ELSE Frame(Lossy(lines, written), d, TRUE)

Shown(table, d, warnings) ==
    [is |-> "shown", dialect |-> d, names |-> table.names, warnings |-> warnings,
     rows |-> SubSeq(table.rows, 1, Min({Len(table.rows), PREVIEW_ROWS}))]
PreviewText(f, partial) ==
    LET found == Detected(f, partial)
        lines == IF partial /\ f.seen.lines > 0 THEN WholeLines(f) ELSE InHead(f)
        exact == Checked(ReadDelimited(lines, f.written, found.dialect))
        lenient == Lenient(lines, f.written, found.dialect)
        warnings == (IF found.sure THEN {} ELSE {"ragged"})
                    \cup (IF partial THEN {"prefix"} ELSE {})
    IN IF Kept(f, partial) = <<>> THEN Rejected
       ELSE IF IsTable(exact) THEN Shown(exact, found.dialect, warnings)
       ELSE IF IsTable(lenient) THEN Shown(lenient, found.dialect, warnings \cup {"trimmed"})
       ELSE lenient
PreviewOwn(f) ==
    IF Whole(f) /\ IsTable(Checked(ReadOwn(f))) THEN Shown(ReadOwn(f), Unset, {}) ELSE Rejected
Build(f, partial) ==
    IF ~Sniffed(f) THEN Rejected
    ELSE IF Delimited(f) THEN PreviewText(f, partial) ELSE PreviewOwn(f)

-----------------------------------------------------------------------------
(* normalize_file: streamed, and strict.                                   *)
\* (Mutant: long rows are cut here too.)
NormalizeLeniently(f, d) == Frame(ToUtf8(f.lines, f.written, d.encoding), d, TRUE)
NormalizeText(f, d) ==
    LET table == Frame(ToUtf8(f.lines, f.written, d.encoding), d, FALSE)
        single == Len(Split(f.lines[1], d.delimiter)) = 1
        few == UNSPLIT_ROWS + (IF d.has_header THEN 1 ELSE 0)
        early == SubSeq(f.lines, 1, Min({Len(f.lines), few}))
        Unread(lines) == ~Decodes(lines, f.written, d.encoding)
        \* transcode_to_utf8, collect_schema and head(20) are read outside the try.
        unhandled == \/ d.encoding # "utf-8" /\ Unread(f.lines)
                     \/ d.has_header /\ Unread(<<f.lines[1]>>)
                     \/ single /\ (Unread(early) \/ Long(SplitAll(early, d.delimiter), 1) # {})
    IN IF unhandled THEN Failed
       ELSE IF \/ Unread(f.lines) \/ ~IsTable(table)
               \/ ~UniqueNames(table) \/ Unsplit(table, d)
               \/ Len(table.rows) > MAX_ROWS THEN Rejected
       ELSE table
\* (Mutant: the names of a format with its own layout are trusted.)
NormalizeTrusting(f) ==
    IF IsTable(ReadOwn(f)) /\ Len(OwnTable(f).rows) <= MAX_ROWS THEN OwnTable(f) ELSE Rejected
NormalizeOwn(f) ==
    IF IsTable(ReadOwn(f)) /\ UniqueNames(OwnTable(f)) /\ Len(OwnTable(f).rows) <= MAX_ROWS
    THEN OwnTable(f) ELSE Rejected

\* _inspect reads the first megabyte again, whatever the form says.
Merged(detected) ==
    [field \in Field |-> IF form[field] = Unset THEN detected[field] ELSE form[field]]
Commit(f) ==
    CASE ~Sniffed(f) \/ (Delimited(f) /\ Kept(f, ~Whole(f)) = <<>>) -> Rejected
      [] Delimited(f) -> NormalizeText(f, Merged(Detected(f, ~Whole(f)).dialect))
      [] OTHER -> NormalizeOwn(f)

-----------------------------------------------------------------------------
(* The page sends a slice, and its size for the size of the file.          *)
PreviewUpload ==
    LET answer == Build(file, client = "script" /\ ~Whole(file))
    IN /\ client # "sample" /\ preview = Unset /\ outcome = Unset
       /\ preview' = answer
       /\ form' = IF client = "page" /\ answer.is = "shown" /\ answer.dialect # Unset
                  THEN answer.dialect ELSE form
       /\ UNCHANGED <<file, client, corrected, outcome>>

Values(field) == CASE field = "delimiter" -> ToSet(Candidates)
                   [] field = "encoding" -> Encoding
                   [] field = "has_header" -> BOOLEAN
CorrectForm(field) ==
    /\ client # "sample" /\ outcome = Unset /\ corrected = {} /\ Delimited(file)
    /\ client = "page" => preview # Unset /\ preview.is = "shown"
    /\ \E value \in Values(field) :
          /\ form[field] # Unset => form[field] # value
          /\ form' = [form EXCEPT ![field] = value]
    /\ corrected' = {field}
    /\ UNCHANGED <<file, client, preview, outcome>>

CreateDataset ==
    /\ client # "sample" /\ outcome = Unset
    /\ client = "page" => preview # Unset /\ preview.is = "shown"
    /\ outcome' = Commit(file)
    /\ UNCHANGED <<file, client, preview, form, corrected>>

\* A bundled file, always taken for a prefix, by the same path.
LoadSample ==
    /\ client = "sample" /\ outcome = Unset
    /\ outcome' = IF WholeLines(file) = <<>> THEN Rejected
                  ELSE NormalizeText(file, Detected(file, TRUE).dialect)
    /\ UNCHANGED <<file, client, preview, form, corrected>>

Next == LoadSample \/ PreviewUpload \/ (\E field \in Field : CorrectForm(field)) \/ CreateDataset

Spec == Init /\ [][Next]_vars

-----------------------------------------------------------------------------
(* A stored table has a value or a null per column in each row, and no two *)
(* columns of one name.                                                    *)
TypeOK ==
    /\ client \in {"page", "script", "sample"}
    /\ corrected \in {{}} \cup {{field} : field \in Field}
    /\ \A field \in Field : form[field] \in Values(field) \cup {Unset}
    /\ outcome # Unset /\ IsTable(outcome) =>
          /\ outcome.names # <<>> /\ IsInjective(outcome.names)
          /\ \A i \in DOMAIN outcome.rows : Len(outcome.rows[i]) = Len(outcome.names)

(* A person who confirms the preview of a whole file gets what it showed:  *)
(* the same columns and first rows, or, if rows were trimmed to show them, *)
(* a refusal.  (A file of a header alone is stored although it was shown   *)
(* with that note.)                                                        *)
Confirmed == client = "page" /\ corrected = {} /\ outcome # Unset
HeaderAlone == Len(file.lines) = 1
PreviewForetells ==
    Confirmed /\ Whole(file) /\ ~HeaderAlone =>
        /\ IsTable(outcome) <=> "trimmed" \notin preview.warnings
        /\ IsTable(outcome) =>
              preview.names = outcome.names /\ IsPrefix(preview.rows, outcome.rows)

(* An encoding nobody touched keeps the text: what is stored is the file   *)
(* as it was written, of whatever length, wherever the first megabyte ends *)
(* and whatever lies beyond.  There is one exception: the page previewed a *)
(* slice that ends inside a character, which CutsAreNotEncodings is about. *)
CutInside(f) == f.seen.rest # <<>> /\ Last(f.seen.rest) = "half"
EncodingsKeepTheText ==
    outcome # Unset /\ IsTable(outcome) /\ Delimited(file)
    /\ "encoding" \notin corrected /\ ~(client = "page" /\ CutInside(file))
        => \E layout \in [delimiter: ToSet(Candidates), has_header: BOOLEAN] :
              outcome = Frame(file.lines, layout, FALSE)

(* A file with a header and a delimiter in every line is not stored as a   *)
(* column of unsplit lines because another delimiter was chosen.           *)
UnsplitLinesAreRefused ==
    outcome # Unset /\ IsTable(outcome) /\ Delimited(file) /\ form.has_header = TRUE =>
        \A d \in ToSet(Candidates) :
            (\A i \in DOMAIN file.lines : d \in ToSet(file.lines[i])) => Len(outcome.names) > 1

-----------------------------------------------------------------------------
(* What the repository says and the code does not do.                      *)

(* A UTF-8 file is proposed as UTF-8, wherever the first megabyte ends: a  *)
(* slice that cuts through a character is not "reported as cp1252"         *)
(* (_trim_incomplete_utf8_tail).                                           *)
CutsAreNotEncodings ==
    preview # Unset /\ preview.is = "shown" /\ Delimited(file) /\ Utf8(file.written) =>
        Utf8(preview.dialect.encoding)
=============================================================================
