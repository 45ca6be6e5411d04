------------------------------ MODULE Reports ------------------------------
(***************************************************************************)
(* The reports of the analysis tools over a whole file (storage/reports.py *)
(* and storage/crosstab.py, with the tools that call them).  A file is a   *)
(* sequence of columns of equal length, a contract a type per column; a    *)
(* share is in ten-thousandths, as the code rounds it.                     *)
(***************************************************************************)
EXTENDS Figures

CONSTANTS MAX_CO_MISSING_COLUMNS, MAX_EXAMPLES, MAX_LEVELS, MAX_NUMERIC_LEVELS,
          Refused                 \* a tool's refusal

ASSUME ReportsAssumption ==
    {MAX_CO_MISSING_COLUMNS, MAX_EXAMPLES, MAX_LEVELS, MAX_NUMERIC_LEVELS} \subseteq Nat \ {0}

Share(part, whole) == IF whole <= 0 THEN 0 ELSE (10000 * part + whole \div 2) \div whole
Rows(file) == IF file = <<>> THEN {} ELSE DOMAIN file[1]
Hole(file, c, row) == ~Present(file[c][row])

-----------------------------------------------------------------------------
(* missingness_report: the columns with holes, the emptiest first, and how *)
(* often two of them are empty in the same row.                            *)
Missing(file, min_share) ==
    LET Finding(c) ==
            LET s == Statistics(file[c])
            IN [subject |-> c, missing |-> s.total - s.non_null, present |-> s.non_null,
                missing_share |-> Share(s.total - s.non_null, s.total)]
        found == {Finding(c) : c \in DOMAIN file}
    IN InOrder({f \in found : f.missing > 0 /\ f.missing_share >= min_share},
                    LAMBDA f, g : \/ f.missing > g.missing
                                  \/ f.missing = g.missing /\ f.subject < g.subject)

CoMissing(file, findings) ==
    LET considered == AtMost(findings, MAX_CO_MISSING_COLUMNS)
        Together(a, b) == Cardinality({r \in Rows(file) : Hole(file, a, r) /\ Hole(file, b, r)})
        pairs == {[subject |-> <<considered[i].subject, considered[j].subject>>,
                   missing_together |-> Together(considered[i].subject, considered[j].subject)] :
                  i, j \in DOMAIN considered}
    IN {p \in pairs : /\ p.missing_together > 0
                      /\ \E i, j \in DOMAIN considered :
                            i < j /\ p.subject = <<considered[i].subject, considered[j].subject>>}

(* duplicate_report: the rows that agree with another on a set of columns, *)
(* every column when the set is empty.                                     *)
Keys(file, subset) == IF subset = {} THEN DOMAIN file ELSE subset
Groups(file, subset) ==
    LET Key(r) == [c \in Keys(file, subset) |-> file[c][r]]
        Repeats(r) == {q \in Rows(file) : Key(q) = Key(r)}
    IN {Repeats(r) : r \in {r \in Rows(file) : Cardinality(Repeats(r)) > 1}}
DuplicateReport(groups, redundant) ==
    [duplicate_groups |-> Cardinality(groups), duplicate_rows |-> Cardinality(UNION groups),
     redundant_rows |-> redundant,
     examples |-> AtMost(InOrder(groups, LAMBDA g, h :
                             \/ Cardinality(g) > Cardinality(h)
                             \/ Cardinality(g) = Cardinality(h) /\ Min(g) < Min(h)),
                         MAX_EXAMPLES)]
\* (Mutant: every row of a group is redundant.)
DuplicatesDropAll(file, subset) ==
    LET groups == Groups(file, subset)
    IN DuplicateReport(groups, Cardinality(UNION groups))
Duplicates(file, subset) ==
    LET groups == Groups(file, subset)
    IN DuplicateReport(groups, Cardinality(UNION groups) - Cardinality(groups))

(* type_consistency_report: a declared type that too few values have, or a *)
(* type that all but a few values of an undeclared column have.            *)
Declared == {"numerical", "boolean", "date"}
Place(t) == CASE t = "numerical" -> 1 [] t = "boolean" -> 2 [] t = "date" -> 3
TypeFinding(c, s, type, min_conformance) ==
    LET Fits(t) == Share(ConformingCount(s, t), s.non_null)
        near == {t \in Declared : Fits(t) >= min_conformance /\ Fits(t) < 10000}
        Finding(t) == {[subject |-> c, reads_as |-> t, conforming |-> ConformingCount(s, t),
                        odd |-> s.non_null - ConformingCount(s, t)]}
    IN IF s.non_null = 0 THEN {}
       ELSE IF type \in Declared
            THEN IF Fits(type) >= min_conformance THEN {} ELSE Finding(type)
       ELSE IF near = {} THEN {}
       ELSE Finding(CHOOSE t \in near : \A u \in near :
                        Fits(u) < Fits(t) \/ (Fits(u) = Fits(t) /\ Place(t) <= Place(u)))

TypeConsistency(file, types, min_conformance) ==
    UNION {TypeFinding(c, Statistics(file[c]), types[c], min_conformance) : c \in DOMAIN file}

(* cardinality_report: why a column does not group into a readable number  *)
(* of values, and the columns that do.                                     *)
Cardinalities(file, types, max_dimension) ==
    LET s(c) == Statistics(file[c])
        Reason(c) ==
            IF s(c).non_null = 0 THEN "no_values"
            ELSE IF s(c).distinct = 1 THEN "one_value"
            ELSE IF s(c).distinct = s(c).non_null THEN "all_different"
            ELSE IF s(c).distinct > max_dimension /\ types[c] \in {"categorical", "boolean", "text"}
                 THEN "too_many"
            ELSE None
    IN [findings |-> {[subject |-> c, reason |-> Reason(c), distinct |-> s(c).distinct] :
                      c \in {c \in DOMAIN file : Reason(c) # None}},
        clean |-> {c \in DOMAIN file : s(c).distinct \in 2..max_dimension}]

(* outlier_scan: the fence of k half ranges past the quartiles, either end *)
(* replaced by a bound of the caller's.                                    *)
OutlierScan(file, types, c, k, lower, upper) ==
    LET s == Numbers(file[c])
        fence == Fence(s, k)
        floor == IF lower # None THEN 8 * lower ELSE fence.low
        ceiling == IF upper # None THEN 8 * upper ELSE fence.high
        below == HowMany(s, LAMBDA x : 8 * x < floor)
        above == HowMany(s, LAMBDA x : 8 * x > ceiling)
    IN IF types[c] # "numerical" THEN Refused
       ELSE IF s = <<>> THEN [scanned |-> 0, outliers |-> 0]
       ELSE [scanned |-> Len(s), outliers |-> below + above]

-----------------------------------------------------------------------------
(* crosstab: the counts of every pair of values of two columns, limited to *)
(* the commonest values of each.                                           *)
Groupable == {"categorical", "boolean"}
Levels(file, c) == Distinct(file[c])
Axis(file, types, c) ==
    \/ types[c] \in Groupable
    \/ types[c] = "numerical" /\ Levels(file, c) <= MAX_NUMERIC_LEVELS

Filled(file, a, b) == {r \in Rows(file) : ~Hole(file, a, r) /\ ~Hole(file, b, r)}
Ranked(file, c, rows) ==
    LET HasValue(v) == Cardinality({r \in rows : file[c][r].text = v})
    IN InOrder({file[c][r].text : r \in rows},
               LAMBDA t, u : \/ HasValue(t) > HasValue(u)
                             \/ HasValue(t) = HasValue(u) /\ Alphabetical(t, u))

Counts(file, a, b, across, down) ==
    LET At(t, u) == {r \in Filled(file, a, b) : file[a][r].text \in t /\ file[b][r].text \in u}
        n(t, u) == Cardinality(At(t, u))
    IN {[row |-> t, column |-> u, count |-> n({t}, {u}),
         row_share |-> Share(n({t}, {u}), n({t}, across)),
         column_share |-> Share(n({t}, {u}), n(down, {u})),
         total_share |-> Share(n({t}, {u}), n(down, across))] : t \in down, u \in across}

Crosstab(file, types, a, b) ==
    LET filled == Filled(file, a, b)
        rows == Ranked(file, a, filled)
        columns == Ranked(file, b, filled)
    IN IF a = b \/ ~Axis(file, types, a) \/ ~Axis(file, types, b) THEN Refused
       ELSE [cells |-> Counts(file, a, b, ToSet(AtMost(columns, MAX_LEVELS)),
                              ToSet(AtMost(rows, MAX_LEVELS))),
             incomplete |-> Cardinality(Rows(file)) - Cardinality(filled),
             omitted_rows |-> Above0(Len(rows) - MAX_LEVELS),
             omitted_columns |-> Above0(Len(columns) - MAX_LEVELS)]
=============================================================================
