------------------------------ MODULE MCIngest ------------------------------
(* Instances of Ingest for TLC: files of up to three lines.                *)
EXTENDS Ingest

MCCandidates == <<",", ";">>
MCSymbol == {",", ";", "letter", "digit", "accent", "gap"}
MCLine == {
    <<"letter", ",", "digit">>, <<"digit", ",", "digit">>, <<"letter", ";", "letter">>,
    <<"letter">>, <<"accent", ",", "digit">>, <<"letter", ",", "letter", ",", "digit">>,
    <<"digit", ";", "digit", ",", "digit">>, <<"gap", ",">> }
\* Lines that come in threes: plain, with both delimiters, each broken symbol.
MCThird == {
    <<"letter", ",", "digit">>, <<"accent", ",", "digit">>,
    <<"digit", ";", "digit", ",", "digit">>, <<"gap", ",">> }
MCLines == [1..1 -> MCLine] \cup [1..2 -> MCLine] \cup [1..3 -> MCThird]

Accented(lines) == \E i \in DOMAIN lines : ToSet(lines[i]) \cap {"accent", "gap"} # {}
\* The first megabyte holds everything, or ends after a line, or inside one
\* and, in UTF-8, perhaps inside its accent.
Seen(lines, written) ==
    {[lines |-> Len(lines), rest |-> <<>>]}
    \cup {[lines |-> n, rest |-> <<>>] : n \in 1..(Len(lines) - 1)}
    \cup UNION {{[lines |-> n, rest |-> SubSeq(lines[n + 1], 1, Min({2, Len(lines[n + 1])}))]} \cup
                (IF lines[n + 1][1] \in {"accent", "gap"} /\ Utf8(written)
                 THEN {[lines |-> n, rest |-> <<"half">>]} ELSE {}) : n \in 1..(Len(lines) - 1)}
Files(kind, written, lines) ==
    UNION {{[kind |-> kind, written |-> written, lines |-> l, seen |-> s] : s \in Seen(l, written)}
           : l \in lines}
MCText ==
    Files("delimited", "utf-8", MCLines)
    \cup UNION {Files("delimited", written, {l \in MCLines : Accented(l)})
                : written \in {"utf-8-sig", "cp1252"}}

\* Names once and twice, and rows that are whole, short, long and empty.
MCOwn == {
    << <<"letter", ",", "digit">>, <<"letter">> >>, << <<"letter", ",", "digit">> >>,
    << <<"letter", ",">>, <<",">>, <<"letter", ",", "digit">> >>,
    << <<"letter", ",", "letter">>, <<"digit">> >>,
    << <<"letter">>, <<"digit">>, <<"digit">>, <<"digit">> >> }
MCFile ==
    MCText \cup Files("workbook", "utf-8", MCOwn)
    \cup Files("archive", "utf-8", {<< <<"letter">> >>})
    \cup Files("parquet", "utf-8", {l \in MCOwn : l[1] # <<"letter", ",", "letter">>})
    \cup Files("records", "utf-8", {l \in MCOwn : l[1] # <<"letter", ",", "letter">>})
=============================================================================
