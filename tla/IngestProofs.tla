---------------------------- MODULE IngestProofs ----------------------------
(***************************************************************************)
(* Proofs about Ingest, for files of any lines over any symbols, cut       *)
(* anywhere by the first megabyte, and any bounds.                         *)
(***************************************************************************)
EXTENDS Ingest, OrderLemmas, FunctionTheorems, SequenceTheorems

-----------------------------------------------------------------------------
(* Lines, once read: their symbols and their cells.                        *)

\* What lines are made of before they are decoded, with what a cut leaves, and after.
RawSymbol == Symbol \cup {"half"}
TextSymbol == Symbol \cup {"mojibake", "mark"}
\* Where a line may be split.
At(line, delimiter) == {i \in DOMAIN line : line[i] = delimiter}
Delimiter == ToSet(Candidates)

LEMMA DelimiterIsASymbol ==
  /\ Delimiter \subseteq Symbol \ {"accent", "gap"} /\ "," \in Delimiter
  /\ \A c \in Delimiter : c \notin {"half", "mojibake", "mark", "repeated", "accent", "gap"}
<1>1. \A i \in DOMAIN Candidates : Candidates[i] \in Symbol \ {"accent", "gap"}
  <2>1. Candidates \in Seq(Symbol \ {"accent", "gap"})
    BY CandidatesAssumption
  <2> QED
    BY <2>1
<1>2. Delimiter \subseteq Symbol \ {"accent", "gap"} /\ "," \in Delimiter
  BY <1>1, CandidatesAssumption DEF Delimiter, ToSet
<1> QED
  BY <1>2, SymbolAssumption

LEMMA Places ==
  ASSUME NEW S, NEW line \in Seq(S), NEW c
  PROVE  /\ At(line, c) \in SUBSET (1..Len(line)) /\ IsFiniteSet(At(line, c))
         /\ Cardinality(At(line, c)) \in Nat
         /\ Cardinality(At(line, c)) = 0 <=> At(line, c) = {}
<1>1. At(line, c) \in SUBSET (1..Len(line)) /\ IsFiniteSet(1..Len(line))
  BY FS_Interval DEF At
<1>2. IsFiniteSet(At(line, c))
  BY <1>1, FS_Subset
<1> QED
  BY <1>1, <1>2, FS_CardinalityType, FS_EmptySet

\* Finitely many numbers have an n-th one.
LEMMA NthIsOne ==
  ASSUME NEW P \in SUBSET Nat, IsFiniteSet(P), NEW n \in 1..Cardinality(P)
  PROVE  Nth(P, n) \in P
<1> DEFINE Below(i) == {j \in P : j < i}
           place == [i \in P |-> Cardinality(Below(i)) + 1]
<1>1. Cardinality(P) \in Nat
  BY FS_CardinalityType
<1>2. ASSUME NEW i \in P
      PROVE  IsFiniteSet(Below(i)) /\ Cardinality(Below(i)) \in Nat
             /\ Cardinality(Below(i)) < Cardinality(P)
  <2>1. Below(i) \in SUBSET P /\ Below(i) # P
    OBVIOUS
  <2>2. IsFiniteSet(Below(i)) /\ Cardinality(Below(i)) <= Cardinality(P)
        /\ Cardinality(P) # Cardinality(Below(i))
    <3> HIDE DEF Below
    <3> QED BY <2>1, FS_Subset
  <2> QED
    BY <1>1, <2>2, FS_CardinalityType
<1>3. ASSUME NEW i \in P, NEW k \in P, i < k
      PROVE  Cardinality(Below(i)) < Cardinality(Below(k))
  <2>1. Below(i) \in SUBSET Below(k)
    <3>1. \A j \in P : j < i => j < k
      BY <1>3
    <3> QED BY <3>1
  <2>2. Below(k) # Below(i)
    <3>1. i \in Below(k) /\ i \notin Below(i)
      BY <1>3
    <3> QED BY <3>1
  <2>3. Cardinality(Below(i)) <= Cardinality(Below(k))
        /\ Cardinality(Below(k)) # Cardinality(Below(i))
    <3> HIDE DEF Below
    <3> QED BY <1>2, <2>1, <2>2, FS_Subset
  <2> QED
    BY <1>2, <2>3
<1>4. place \in Injection(P, 1..Cardinality(P))
  <2>1. place \in [P -> 1..Cardinality(P)]
    BY <1>1, <1>2
  <2>2. \A i, k \in P : place[i] = place[k] => i = k
    <3> SUFFICES ASSUME NEW i \in P, NEW k \in P, i # k PROVE place[i] # place[k]
      OBVIOUS
    <3>1. i < k \/ k < i
      OBVIOUS
    <3> HIDE DEF Below
    <3> QED
      BY <1>2, <1>3, <3>1
  <2> HIDE DEF place
  <2> QED
    BY <2>1, <2>2 DEF Injection, IsInjective
<1>5. place \in Surjection(P, 1..Cardinality(P))
  <2> HIDE DEF place
  <2> QED
    BY <1>1, <1>4, FS_Injection, FS_Interval
<1>6. PICK i \in P : place[i] = n
  BY <1>5 DEF Surjection
<1>7. Cardinality(Below(i)) = n - 1
  BY <1>2, <1>6
<1> QED
  BY <1>7 DEF Nth

\* A line has a cell more than it has delimiters; one without any is a cell.
LEMMA SplitIsCells ==
  ASSUME NEW S, NEW line \in Seq(S), NEW c
  PROVE  /\ Split(line, c) \in Seq(Seq(S))
         /\ Len(Split(line, c)) = Cardinality(At(line, c)) + 1
         /\ Split(line, c) # <<>>
         /\ At(line, c) = {} => Split(line, c) = <<line>>
<1> DEFINE at == At(line, c)
           Edge(n) == IF n = 0 THEN 0
                      ELSE IF n > Cardinality(at) THEN Len(line) + 1 ELSE Nth(at, n)
           cells == [n \in 1..(Cardinality(at) + 1) |->
                        SubSeq(line, Edge(n - 1) + 1, Edge(n) - 1)]
<1>1. Split(line, c) = cells
  BY DEF Split, At
<1>2. /\ at \in SUBSET (1..Len(line)) /\ IsFiniteSet(at) /\ Cardinality(at) \in Nat
      /\ Cardinality(at) = 0 <=> at = {}
  BY Places
<1>3. ASSUME NEW n \in 0..(Cardinality(at) + 1) PROVE Edge(n) \in 0..(Len(line) + 1)
  <2>1. CASE n = 0
    BY <2>1
  <2>2. CASE n > Cardinality(at)
    BY <2>2, <1>2
  <2>3. CASE n # 0 /\ ~(n > Cardinality(at))
    <3>1. n \in 1..Cardinality(at) /\ at \in SUBSET Nat
      BY <2>3, <1>2
    <3>2. Nth(at, n) \in at
      BY <3>1, <1>2, NthIsOne
    <3> QED
      BY <2>3, <3>2, <1>2
  <2> QED
    BY <2>1, <2>2, <2>3
<1>4. ASSUME NEW n \in 1..(Cardinality(at) + 1) PROVE cells[n] \in Seq(S)
  <2> DEFINE a == Edge(n - 1) + 1
             b == Edge(n) - 1
  <2>1. a \in Int /\ b \in Int /\ 1 <= a /\ b <= Len(line)
    BY <1>2, <1>3
  <2>2. \A i \in a..b : line[i] \in S
    BY <2>1
  <2>3. SubSeq(line, a, b) \in Seq(S)
    <3> HIDE DEF a, b
    <3> QED BY <2>1, <2>2, SubSeqProperties
  <2> QED
    BY <2>3
<1>5. cells \in Seq(Seq(S)) /\ Len(cells) = Cardinality(at) + 1
  <2>1. cells \in [1..(Cardinality(at) + 1) -> Seq(S)]
    <3> HIDE DEF Edge, at
    <3> QED BY <1>4
  <2> DEFINE m == Cardinality(at) + 1
  <2>2. m \in Nat
    BY <1>2
  <2> HIDE DEF cells, m
  <2>3. cells \in Seq(Seq(S)) /\ Len(cells) = m
    BY <2>1, <2>2 DEF m
  <2> QED
    BY <2>3 DEF m
<1>6. ASSUME at = {} PROVE cells = <<line>>
  <2>1. Cardinality(at) = 0
    BY <1>2, <1>6
  <2>3. Edge(1 - 1) + 1 = 1 /\ Edge(1) - 1 = Len(line)
    BY <2>1
  <2>4. cells[1] = SubSeq(line, 1, Len(line))
    <3>1. 1 \in 1..(Cardinality(at) + 1)
      BY <2>1
    <3> HIDE DEF Edge, at
    <3>2. cells[1] = SubSeq(line, Edge(1 - 1) + 1, Edge(1) - 1)
      BY <3>1
    <3> QED BY <2>3, <3>2
  <2>5. cells[1] = line
    BY <2>4, SubSeqFull
  <2> QED
    BY <2>1, <2>5, <1>5
<1> QED
  BY <1>1, <1>2, <1>5, <1>6

-----------------------------------------------------------------------------
(* Bytes read as text.                                                     *)

\* Reading turns no symbol into a delimiter, and no delimiter into another.
LEMMA AsReadIsText ==
  ASSUME NEW s \in RawSymbol, NEW w, NEW e
  PROVE  /\ AsRead(s, w, e) \in TextSymbol
         /\ \A c \in Delimiter : AsRead(s, w, e) = c <=> s = c
BY DelimiterIsASymbol DEF AsRead, TextSymbol, RawSymbol

LEMMA Shifted ==
  ASSUME NEW P \in SUBSET Nat, IsFiniteSet(P), NEW k \in Nat
  PROVE  Cardinality({i + k : i \in P}) = Cardinality(P)
<1> DEFINE Q == {i + k : i \in P}
           move == [i \in P |-> i + k]
<1>1. move \in [P -> Q]
  OBVIOUS
<1>2. \A i, j \in P : move[i] = move[j] => i = j
  OBVIOUS
<1>3. \A q \in Q : \E i \in P : move[i] = q
  OBVIOUS
<1>4. move \in Bijection(P, Q)
  <2> HIDE DEF move, Q
  <2>1. move \in Injection(P, Q)
    BY <1>1, <1>2 DEF Injection, IsInjective
  <2>2. move \in Surjection(P, Q)
    BY <1>1, <1>3 DEF Surjection
  <2> QED
    BY <2>1, <2>2 DEF Bijection
<1>5. ExistsBijection(P, Q)
  <2> HIDE DEF move, Q
  <2> QED BY <1>4 DEF ExistsBijection
<1> HIDE DEF Q
<1>6. Cardinality(Q) = Cardinality(P)
  BY <1>5, FS_Bijection
<1> QED
  BY <1>6 DEF Q

LEMMA FunctionIsSequence ==
  ASSUME NEW S, NEW n \in Nat, NEW f \in [1..n -> S]
  PROVE  f \in Seq(S) /\ Len(f) = n /\ DOMAIN f = 1..n
OBVIOUS

\* A line that is read has as many delimiters of a kind as before.
LEMMA LineAsRead ==
  ASSUME NEW line \in Seq(RawSymbol), NEW mark \in {<<>>, <<"mark">>},
         NEW read \in Seq(TextSymbol), Len(read) = Len(line),
         \A j \in 1..Len(line), c \in Delimiter : read[j] = c <=> line[j] = c
  PROVE  /\ mark \o read \in Seq(TextSymbol)
         /\ \A c \in Delimiter : Cardinality(At(mark \o read, c)) = Cardinality(At(line, c))
<1> DEFINE k == Len(mark)
           n == Len(line)
           text == mark \o read
<1>1. DOMAIN line = 1..n /\ n \in Nat /\ k \in Nat /\ \A p \in 1..n : line[p] \in RawSymbol
  OBVIOUS
<1>2. /\ mark \in Seq(TextSymbol)
      /\ \A p \in 1..k : mark[p] = "mark"
  <2>1. "mark" \in TextSymbol
    BY DEF TextSymbol
  <2>2. CASE mark = <<>>
    BY <2>2
  <2>3. CASE mark = <<"mark">>
    BY <2>1, <2>3
  <2> QED
    BY <2>2, <2>3
<1>5. /\ text \in Seq(TextSymbol) /\ Len(text) = k + n
      /\ \A p \in 1..(k + n) : text[p] = IF p <= k THEN mark[p] ELSE read[p - k]
  BY <1>2, ConcatProperties
<1>6. \A p \in 1..n, c \in Delimiter : read[p] = c <=> line[p] = c
  OBVIOUS
<1> HIDE DEF text, k, n
<1>7. ASSUME NEW c \in Delimiter
      PROVE  Cardinality(At(text, c)) = Cardinality(At(line, c))
  <2>1. DOMAIN text = 1..(k + n)
    BY <1>5
  <2>2. ASSUME NEW p \in At(text, c) PROVE p \in {q + k : q \in At(line, c)}
    <3>1. p \in 1..(k + n) /\ text[p] = c
      BY <2>1 DEF At
    <3>2. ~(p <= k)
      <4> SUFFICES ASSUME p <= k PROVE FALSE
        OBVIOUS
      <4>1. p \in 1..k
        BY <3>1, <1>1
      <4>2. text[p] = "mark"
        BY <4>1, <3>1, <1>5, <1>2
      <4> QED
        BY <4>2, <3>1, DelimiterIsASymbol
    <3>3. p - k \in 1..n /\ text[p] = read[p - k]
      BY <3>1, <3>2, <1>1, <1>5
    <3>4. p - k \in At(line, c)
      BY <3>1, <3>3, <1>1, <1>6 DEF At
    <3>5. p = (p - k) + k
      BY <3>1, <1>1
    <3> QED
      BY <3>4, <3>5
  <2>3. ASSUME NEW q \in At(line, c) PROVE q + k \in At(text, c)
    <3>1. q \in 1..n /\ line[q] = c
      BY <1>1 DEF At
    <3>2. q + k \in 1..(k + n) /\ ~(q + k <= k) /\ (q + k) - k = q
      BY <3>1, <1>1
    <3>3. text[q + k] = read[q]
      BY <3>1, <3>2, <1>5
    <3> QED
      BY <2>1, <3>1, <3>2, <3>3, <1>6 DEF At
  <2>4. At(text, c) = {q + k : q \in At(line, c)}
    BY <2>2, <2>3
  <2>5. At(line, c) \in SUBSET Nat /\ IsFiniteSet(At(line, c))
    BY Places
  <2> QED
    BY <1>1, <2>4, <2>5, Shifted
<1> QED
  BY <1>5, <1>7 DEF text

\* A text has the lines of its file.
LEMMA DecodedIsText ==
  ASSUME NEW lines \in Seq(Seq(RawSymbol)), NEW w, NEW e
  PROVE  /\ Decoded(lines, w, e) \in Seq(Seq(TextSymbol))
         /\ Len(Decoded(lines, w, e)) = Len(lines)
         /\ \A i \in DOMAIN lines, c \in Delimiter :
               Cardinality(At(Decoded(lines, w, e)[i], c)) = Cardinality(At(lines[i], c))
<1> DEFINE text == Decoded(lines, w, e)
<1>1. DOMAIN lines = 1..Len(lines) /\ Len(lines) \in Nat
      /\ \A i \in DOMAIN lines : lines[i] \in Seq(RawSymbol)
  OBVIOUS
<1>2. DOMAIN text = 1..Len(lines) /\ text = [i \in 1..Len(lines) |-> text[i]]
  BY <1>1 DEF Decoded
<1>3. ASSUME NEW i \in DOMAIN lines
      PROVE  /\ text[i] \in Seq(TextSymbol)
             /\ \A c \in Delimiter : Cardinality(At(text[i], c)) = Cardinality(At(lines[i], c))
  <2> DEFINE mark == IF i = 1 /\ w = "utf-8-sig" /\ e # "utf-8-sig" THEN <<"mark">> ELSE <<>>
             read == [j \in DOMAIN lines[i] |-> AsRead(lines[i][j], w, e)]
  <2>1. text[i] = mark \o read
    BY DEF Decoded
  <2>2. mark \in {<<>>, <<"mark">>}
    OBVIOUS
  <2>4. lines[i] \in Seq(RawSymbol) /\ DOMAIN lines[i] = 1..Len(lines[i]) /\ Len(lines[i]) \in Nat
        /\ \A j \in 1..Len(lines[i]) : lines[i][j] \in RawSymbol
    BY <1>1
  <2>6. read \in [1..Len(lines[i]) -> TextSymbol]
        /\ \A j \in 1..Len(lines[i]), c \in Delimiter : read[j] = c <=> lines[i][j] = c
    BY <2>4, AsReadIsText
  <2>3. read \in Seq(TextSymbol) /\ Len(read) = Len(lines[i])
    <3> HIDE DEF read
    <3> QED BY <2>4, <2>6, FunctionIsSequence
  <2> HIDE DEF mark, read, text
  <2>5. /\ mark \o read \in Seq(TextSymbol)
        /\ \A c \in Delimiter : Cardinality(At(mark \o read, c)) = Cardinality(At(lines[i], c))
    BY <2>2, <2>3, <2>4, <2>6, LineAsRead
  <2> QED
    BY <2>1, <2>5
<1>4. text \in [1..Len(lines) -> Seq(TextSymbol)]
  <2> HIDE DEF text
  <2> QED BY <1>1, <1>2, <1>3
<1>5. text \in Seq(Seq(TextSymbol)) /\ Len(text) = Len(lines)
  <2> HIDE DEF text
  <2> QED BY <1>1, <1>4, FunctionIsSequence
<1> QED
  BY <1>3, <1>5

-----------------------------------------------------------------------------
(* Tables.                                                                 *)

Ending(n) == [k \in 1..n |-> "repeated"]
Earlier(cells, i) == {j \in 1..(i - 1) : cells[j] = cells[i]}

LEMMA EndingIsSequence ==
  ASSUME NEW n \in Nat
  PROVE  /\ Ending(n) \in Seq({"repeated"}) /\ Len(Ending(n)) = n
         /\ \A k \in 1..n : Ending(n)[k] = "repeated"
<1>1. Ending(n) \in [1..n -> {"repeated"}]
  BY DEF Ending
<1> QED
  BY <1>1, FunctionIsSequence

LEMMA EndedName ==
  ASSUME NEW cell \in Seq(TextSymbol), NEW n \in Nat
  PROVE  /\ cell \o Ending(n) \in Seq(TextSymbol \cup {"repeated"})
         /\ Len(cell \o Ending(n)) = Len(cell) + n
         /\ \A p \in 1..(Len(cell) + n) :
               (cell \o Ending(n))[p] = IF p <= Len(cell) THEN cell[p] ELSE "repeated"
<1> DEFINE Wide == TextSymbol \cup {"repeated"}
           ending == Ending(n)
<1>1. /\ ending \in Seq({"repeated"}) /\ Len(ending) = n
      /\ \A k \in 1..n : ending[k] = "repeated"
  BY EndingIsSequence
<1>2. cell \in Seq(Wide) /\ ending \in Seq(Wide)
  <2> HIDE DEF ending
  <2> QED BY <1>1, SeqMonotonic
<1> HIDE DEF ending, Wide
<1>3. /\ cell \o ending \in Seq(Wide) /\ Len(cell \o ending) = Len(cell) + Len(ending)
      /\ \A p \in 1..(Len(cell) + Len(ending)) :
            (cell \o ending)[p] = IF p <= Len(cell) THEN cell[p] ELSE ending[p - Len(cell)]
  BY <1>2, ConcatProperties
<1>4. Len(cell) \in Nat
  OBVIOUS
<1>5. \A p \in 1..(Len(cell) + n) :
            (cell \o ending)[p] = IF p <= Len(cell) THEN cell[p] ELSE "repeated"
  BY <1>1, <1>3, <1>4
<1> QED
  BY <1>1, <1>3, <1>5 DEF ending, Wide

\* Names that repeat are told apart.
LEMMA DedupedIsInjective ==
  ASSUME NEW cells \in Seq(Seq(TextSymbol))
  PROVE  /\ DOMAIN Deduped(cells) = 1..Len(cells)
         /\ Deduped(cells) \in Seq(Seq(TextSymbol \cup {"repeated"}))
         /\ Len(Deduped(cells)) = Len(cells)
         /\ IsInjective(Deduped(cells))
         /\ cells # <<>> => Deduped(cells)[1] = cells[1]
<1> DEFINE names == Deduped(cells)
           m == Len(cells)
           n(i) == Cardinality(Earlier(cells, i))
           Wide == TextSymbol \cup {"repeated"}
<1>1. m \in Nat /\ DOMAIN cells = 1..m /\ \A i \in 1..m : cells[i] \in Seq(TextSymbol)
  OBVIOUS
<1>2. DOMAIN names = 1..m /\ \A i \in 1..m : names[i] = cells[i] \o Ending(n(i))
  BY <1>1 DEF Deduped, Ending, Earlier
<1>3. ASSUME NEW i \in 1..m
      PROVE  IsFiniteSet(Earlier(cells, i)) /\ n(i) \in Nat
  <2>1. Earlier(cells, i) \in SUBSET (1..(i - 1))
    BY DEF Earlier
  <2>2. i - 1 \in Int
    BY <1>1
  <2>3. IsFiniteSet(1..(i - 1))
    BY <2>2, FS_Interval
  <2> QED
    BY <2>1, <2>3, FS_Subset, FS_CardinalityType
<1>4. ASSUME NEW i \in 1..m
      PROVE  /\ names[i] \in Seq(Wide) /\ Len(names[i]) = Len(cells[i]) + n(i)
             /\ Len(cells[i]) \in Nat
             /\ \A p \in 1..(Len(cells[i]) + n(i)) :
                   names[i][p] = IF p <= Len(cells[i]) THEN cells[i][p] ELSE "repeated"
  <2>1. cells[i] \in Seq(TextSymbol) /\ n(i) \in Nat /\ Len(cells[i]) \in Nat
    BY <1>1, <1>3
  <2>2. names[i] = cells[i] \o Ending(n(i))
    BY <1>2
  <2> HIDE DEF names, n
  <2> QED
    BY <2>1, <2>2, EndedName
<1>5. ASSUME NEW i \in 1..m, NEW j \in 1..m, i < j, cells[i] = cells[j] PROVE n(i) < n(j)
  <2>1. Earlier(cells, i) \in SUBSET Earlier(cells, j)
    BY <1>1, <1>5 DEF Earlier
  <2>2. i \in Earlier(cells, j) /\ i \notin Earlier(cells, i)
    BY <1>1, <1>5 DEF Earlier
  <2>3. n(i) <= n(j) /\ n(i) # n(j)
    BY <1>3, <2>1, <2>2, FS_Subset
  <2> QED
    BY <1>3, <2>3
<1>6. "repeated" \notin TextSymbol
  BY SymbolAssumption DEF TextSymbol
<1>7. ASSUME NEW i \in 1..m, NEW j \in 1..m, i < j, names[i] = names[j] PROVE FALSE
  <2> DEFINE a == Len(cells[i])
             b == Len(cells[j])
  <2>1. a \in Nat /\ b \in Nat /\ n(i) \in Nat /\ n(j) \in Nat /\ a + n(i) = b + n(j)
    BY <1>3, <1>4, <1>7
  <2>2. \A p \in 1..a : cells[i][p] \in TextSymbol
    BY <1>1
  <2>3. \A p \in 1..b : cells[j][p] \in TextSymbol
    BY <1>1
  <2>10. /\ \A p \in 1..(a + n(i)) : names[i][p] = IF p <= a THEN cells[i][p] ELSE "repeated"
         /\ \A p \in 1..(b + n(j)) : names[j][p] = IF p <= b THEN cells[j][p] ELSE "repeated"
    BY <1>4
  <2> HIDE DEF names, n, a, b
  <2>4. ~(a < b)
    <3> SUFFICES ASSUME a < b PROVE FALSE
      OBVIOUS
    <3>1. b \in 1..(a + n(i)) /\ ~(b <= a) /\ b \in 1..b /\ b \in 1..(b + n(j))
      BY <2>1
    <3>2. names[i][b] = "repeated" /\ names[j][b] = cells[j][b]
      BY <2>10, <3>1
    <3> QED
      BY <3>1, <3>2, <2>3, <1>6, <1>7
  <2>5. ~(b < a)
    <3> SUFFICES ASSUME b < a PROVE FALSE
      OBVIOUS
    <3>1. a \in 1..(b + n(j)) /\ ~(a <= b) /\ a \in 1..a /\ a \in 1..(a + n(i))
      BY <2>1
    <3>2. names[j][a] = "repeated" /\ names[i][a] = cells[i][a]
      BY <2>10, <3>1
    <3> QED
      BY <3>1, <3>2, <2>2, <1>6, <1>7
  <2>6. a = b
    BY <2>1, <2>4, <2>5
  <2>7. \A p \in 1..a : cells[i][p] = cells[j][p]
    <3> TAKE p \in 1..a
    <3>1. p \in 1..(a + n(i)) /\ p \in 1..(b + n(j)) /\ p <= a /\ p <= b
      BY <2>1, <2>6
    <3>2. names[i][p] = cells[i][p] /\ names[j][p] = cells[j][p]
      BY <2>10, <3>1
    <3> QED
      BY <3>2, <1>7
  <2>8. cells[i] = cells[j]
    BY <1>1, <2>6, <2>7, SeqEqual DEF a, b
  <2>9. n(i) < n(j)
    BY <1>5, <1>7, <2>8
  <2> QED
    BY <2>1, <2>6, <2>9
<1>8. IsInjective(names)
  <2> SUFFICES ASSUME NEW i \in 1..m, NEW j \in 1..m, names[i] = names[j] PROVE i = j
    BY <1>2 DEF IsInjective
  <2>1. ~(i < j) /\ ~(j < i)
    BY <1>7
  <2> QED
    BY <2>1, <1>1
<1>9. names \in Seq(Seq(Wide)) /\ Len(names) = m
  <2>1. names = [i \in 1..m |-> names[i]]
    BY <1>1 DEF Deduped
  <2>2. names \in [1..m -> Seq(Wide)]
    <3> HIDE DEF names, Wide, n
    <3> QED BY <2>1, <1>4
  <2> HIDE DEF names
  <2> QED
    BY <2>2, <1>1, FunctionIsSequence
<1>10. ASSUME cells # <<>> PROVE names[1] = cells[1]
  <2>1. 1 \in 1..m
    BY <1>1, <1>10
  <2>2. Earlier(cells, 1) = {}
    BY DEF Earlier
  <2>3. n(1) = 0
    BY <2>2, FS_EmptySet
  <2>4. Len(names[1]) = Len(cells[1])
        /\ \A p \in 1..Len(cells[1]) : names[1][p] = cells[1][p]
    <3> HIDE DEF names, n
    <3> QED BY <2>1, <2>3, <1>4
  <2>5. cells[1] \in Seq(Wide) /\ names[1] \in Seq(Wide)
    BY <2>1, <1>1, <1>4
  <2> QED
    BY <2>4, <2>5, SeqEqual
<1> QED
  BY <1>2, <1>8, <1>9, <1>10

\* The names of a file without a header.
LEMMA NumbersAreNames ==
  ASSUME NEW width \in Nat \ {0}, NEW names, names = [i \in 1..width |-> Numbered(i)]
  PROVE  Len(names) = width /\ names # <<>> /\ IsInjective(names)
<1>1. DOMAIN names = 1..width /\ \A i \in 1..width : names[i] = Numbered(i)
  OBVIOUS
<1>2. Len(names) = width /\ names # <<>>
  <2>1. names \in [1..width -> {Numbered(i) : i \in 1..width}]
    OBVIOUS
  <2> QED
    BY <2>1, FunctionIsSequence
<1>3. ASSUME NEW i \in 1..width, NEW j \in 1..width, Numbered(i) = Numbered(j) PROVE i = j
  <2>1. DOMAIN Numbered(i) = 1..i /\ DOMAIN Numbered(j) = 1..j
    BY DEF Numbered
  <2>2. i \in 1..i /\ j \in 1..j
    OBVIOUS
  <2>3. i \in 1..j /\ j \in 1..i
    BY <1>3, <2>1, <2>2
  <2> QED
    BY <2>3
<1> QED
  BY <1>1, <1>2, <1>3 DEF IsInjective

\* A row of a table is as wide as the table.
LEMMA PaddedIsWide ==
  ASSUME NEW width \in Nat, NEW row
  PROVE  Len(Padded(row, width)) = width /\ DOMAIN Padded(row, width) = 1..width
<1> DEFINE p == Padded(row, width)
<1>1. p \in [1..width -> {p[i] : i \in 1..width}]
  BY DEF Padded
<1> HIDE DEF p
<1>2. Len(p) = width /\ DOMAIN p = 1..width
  BY <1>1, FunctionIsSequence
<1> QED
  BY <1>2 DEF p

LEMMA SplitAllIsRows ==
  ASSUME NEW S, NEW text \in Seq(Seq(S)), NEW c
  PROVE  /\ SplitAll(text, c) \in Seq(Seq(Seq(S))) /\ Len(SplitAll(text, c)) = Len(text)
         /\ DOMAIN SplitAll(text, c) = 1..Len(text)
         /\ \A i \in 1..Len(text) : SplitAll(text, c)[i] = Split(text[i], c)
<1> DEFINE rows == SplitAll(text, c)
<1>1. DOMAIN text = 1..Len(text) /\ Len(text) \in Nat /\ \A i \in 1..Len(text) : text[i] \in Seq(S)
  OBVIOUS
<1>2. /\ rows = [i \in 1..Len(text) |-> Split(text[i], c)]
      /\ \A i \in 1..Len(text) : rows[i] = Split(text[i], c)
  BY <1>1 DEF SplitAll
<1>3. rows \in [1..Len(text) -> Seq(Seq(S))]
  <2>1. \A i \in 1..Len(text) : Split(text[i], c) \in Seq(Seq(S))
    BY <1>1, SplitIsCells
  <2> QED
    BY <1>2, <2>1
<1> HIDE DEF rows
<1>4. rows \in Seq(Seq(Seq(S))) /\ Len(rows) = Len(text) /\ DOMAIN rows = 1..Len(text)
  BY <1>1, <1>3, FunctionIsSequence
<1> QED
  BY <1>2, <1>4 DEF rows

LEMMA TableFields ==
  ASSUME NEW names, NEW rows
  PROVE  Table(names, rows).names = names /\ Table(names, rows).rows = rows
BY DEF Table

\* How many lines name the columns.
Skipped(d) == IF d.has_header THEN 1 ELSE 0

\* A table holds the text it was read from, cell by cell.
HoldsRows(table, text, d, width) ==
    /\ table = Table(table.names, table.rows)
    /\ width = Len(Split(text[1], d.delimiter)) /\ width \in Nat \ {0}
    /\ table.names # <<>> /\ Len(table.names) = width /\ IsInjective(table.names)
    /\ d.has_header => table.names = Deduped(Split(text[1], d.delimiter))
    /\ Len(table.rows) = Len(text) - Skipped(d)
    /\ DOMAIN table.rows = 1..(Len(text) - Skipped(d))
    /\ \A i \in 1..(Len(text) - Skipped(d)) :
          LET row == Split(text[i + Skipped(d)], d.delimiter)
          IN Len(row) <= width /\ table.rows[i] = Padded(row, width)
    /\ \A i \in DOMAIN table.rows : Len(table.rows[i]) = width
Holds(table, text, d) == HoldsRows(table, text, d, Len(Split(text[1], d.delimiter)))

\* What a strict reader makes of a text
Strict(text, d) == Frame(text, d, FALSE)

\* holds it, unless it is rejected.
LEMMA FrameIsTable ==
  ASSUME NEW text \in Seq(Seq(TextSymbol)), text # <<>>, NEW d, d.has_header \in BOOLEAN,
         NEW table, table = Strict(text, d), IsTable(table)
  PROVE  Holds(table, text, d)
<1>0. PICK width : width = Len(Split(text[1], d.delimiter))
  OBVIOUS
<1> DEFINE all == SplitAll(text, d.delimiter)
           body == IF d.has_header THEN Tail(all) ELSE all
           names == IF d.has_header THEN Deduped(all[1]) ELSE [i \in 1..width |-> Numbered(i)]
           rows == [i \in DOMAIN body |-> Padded(body[i], width)]
           n == Len(text) - Skipped(d)
<1>1. /\ all \in Seq(Seq(Seq(TextSymbol))) /\ Len(all) = Len(text) /\ all # <<>>
      /\ \A i \in 1..Len(text) : all[i] = Split(text[i], d.delimiter)
      /\ Len(text) \in Nat \ {0} /\ Skipped(d) \in {0, 1} /\ n \in Nat
  <2>1. Len(text) \in Nat \ {0}
    BY EmptySeq
  <2>2. /\ all \in Seq(Seq(Seq(TextSymbol))) /\ Len(all) = Len(text)
        /\ \A i \in 1..Len(text) : all[i] = Split(text[i], d.delimiter)
    BY SplitAllIsRows
  <2>3. Skipped(d) \in {0, 1}
    BY DEF Skipped
  <2> HIDE DEF all
  <2> QED
    BY <2>1, <2>2, <2>3
<1>2. all[1] = Split(text[1], d.delimiter) /\ width = Len(all[1])
  BY <1>0, <1>1
<1>3. all[1] \in Seq(Seq(TextSymbol)) /\ all[1] # <<>> /\ width \in Nat \ {0}
  <2>1. text[1] \in Seq(TextSymbol)
    BY <1>1
  <2>2. Split(text[1], d.delimiter) \in Seq(Seq(TextSymbol)) /\ Split(text[1], d.delimiter) # <<>>
    BY <2>1, SplitIsCells
  <2> QED
    BY <1>2, <2>2, EmptySeq
<1>4. Long(body, width) = {} /\ table = Table(names, rows)
  <2>1. table = IF ~FALSE /\ Long(body, width) # {} THEN Rejected ELSE Table(names, rows)
    BY <1>2 DEF Strict, Frame
  <2>2. ~IsTable(Rejected)
    BY DEF IsTable, Rejected
  <2> QED
    BY <2>1, <2>2
<1>5. table.names = names /\ table.rows = rows
  <2>1. table = Table(names, rows)
    BY <1>4
  <2> HIDE DEF names, rows
  <2>2. Table(names, rows).names = names /\ Table(names, rows).rows = rows
    BY TableFields
  <2> QED BY <2>1, <2>2
<1>6. Len(body) = n /\ DOMAIN body = 1..n
      /\ \A i \in 1..n : body[i] = Split(text[i + Skipped(d)], d.delimiter)
  <2> HIDE DEF all
  <2>1. CASE d.has_header
    <3>1. body = Tail(all) /\ Skipped(d) = 1
      BY <2>1 DEF Skipped
    <3>2. Tail(all) \in Seq(Seq(Seq(TextSymbol))) /\ Len(Tail(all)) = Len(text) - 1
          /\ \A i \in 1..(Len(text) - 1) : Tail(all)[i] = all[i + 1]
      BY <1>1, HeadTailProperties
    <3>3. DOMAIN Tail(all) = 1..(Len(text) - 1)
      BY <3>2
    <3>4. \A i \in 1..(Len(text) - 1) : i + 1 \in 1..Len(text)
      BY <1>1
    <3> QED
      BY <1>1, <3>1, <3>2, <3>3, <3>4
  <2>2. CASE ~d.has_header
    <3>1. body = all /\ Skipped(d) = 0
      BY <2>2 DEF Skipped
    <3> QED
      BY <1>1, <3>1
  <2> QED
    BY <2>1, <2>2
<1>7. names # <<>> /\ Len(names) = width /\ IsInjective(names)
  <2>1. CASE d.has_header
    <3>1. names = Deduped(all[1])
      BY <2>1
    <3> HIDE DEF names, all
    <3> QED
      BY <1>2, <1>3, <3>1, DedupedIsInjective
  <2>2. CASE ~d.has_header
    <3>1. names = [i \in 1..width |-> Numbered(i)]
      BY <2>2
    <3> HIDE DEF names
    <3> QED
      BY <1>3, <3>1, NumbersAreNames
  <2> QED
    BY <2>1, <2>2
<1>8. DOMAIN rows = 1..n /\ Len(rows) = n
      /\ \A i \in 1..n : rows[i] = Padded(body[i], width)
  <2> HIDE DEF body, n
  <2>1. rows = [i \in 1..n |-> Padded(body[i], width)]
    BY <1>6
  <2>2. rows \in [1..n -> {Padded(body[i], width) : i \in 1..n}]
    BY <2>1
  <2>3. n \in Nat
    BY <1>1
  <2> HIDE DEF rows
  <2>4. Len(rows) = n /\ DOMAIN rows = 1..n
    BY <2>2, <2>3, FunctionIsSequence
  <2> QED
    BY <2>1, <2>4
<1>9. \A i \in 1..n : ~(Len(body[i]) > width)
  BY <1>4, <1>6 DEF Long
<1>10. ASSUME NEW i \in 1..n
       PROVE  LET row == Split(text[i + Skipped(d)], d.delimiter)
              IN Len(row) <= width /\ rows[i] = Padded(row, width)
  <2> DEFINE row == Split(text[i + Skipped(d)], d.delimiter)
  <2>1. row = body[i]
    BY <1>6
  <2>2. i + Skipped(d) \in 1..Len(text)
    BY <1>1
  <2>3. text[i + Skipped(d)] \in Seq(TextSymbol)
    BY <2>2
  <2>4. Len(row) \in Nat
    BY <2>3, SplitIsCells
  <2> HIDE DEF row, body, rows
  <2>5. Len(row) <= width /\ rows[i] = Padded(row, width)
    BY <1>3, <1>8, <1>9, <2>1, <2>4
  <2> QED
    BY <2>5 DEF row
<1> HIDE DEF names, rows, body, all
<1>11. \A i \in DOMAIN rows : Len(rows[i]) = width
  BY <1>3, <1>8, PaddedIsWide
<1>12. d.has_header => names = Deduped(Split(text[1], d.delimiter))
  BY <1>2 DEF names
<1>13. HoldsRows(table, text, d, width)
  BY <1>0, <1>3, <1>4, <1>5, <1>7, <1>8, <1>10, <1>11, <1>12 DEF HoldsRows
<1> QED
  BY <1>0, <1>13 DEF Holds

\* Each row of a table is as wide as its names, which differ.
Shaped(table) ==
    /\ table.names # <<>> /\ IsInjective(table.names)
    /\ \A i \in DOMAIN table.rows : Len(table.rows[i]) = Len(table.names)

LEMMA FileFacts ==
  ASSUME NEW f \in File
  PROVE  /\ f.kind \in Kind /\ f.written \in Written
         /\ f.lines \in Seq(Seq(Symbol)) /\ f.lines # <<>> /\ Len(f.lines) \in Nat \ {0}
         /\ f.seen.lines \in 0..Len(f.lines)
         /\ Whole(f) => f.seen.rest = <<>>
         /\ f.lines \in Seq(Seq(RawSymbol))
<1>1. /\ f.kind \in Kind /\ f.written \in Written
      /\ f.lines \in Seq(Seq(Symbol)) /\ f.lines # <<>>
      /\ f.seen.lines \in 0..Len(f.lines)
      /\ f.seen.lines = Len(f.lines) => f.seen.rest = <<>>
  BY FileAssumption
<1>2. f.lines \in Seq(Seq(RawSymbol))
  <2>1. \A line \in Seq(Symbol) : line \in Seq(RawSymbol)
    BY SeqMonotonic DEF RawSymbol
  <2>2. Seq(Symbol) \subseteq Seq(RawSymbol)
    BY <2>1
  <2> QED
    BY <1>1, <2>2, SeqMonotonic
<1> QED
  BY <1>1, <1>2, EmptySeq DEF Whole

\* The other formats make tables of the same shape, if no name is repeated.
LEMMA OwnIsShaped ==
  ASSUME NEW f \in File, IsTable(ReadOwn(f)), UniqueNames(OwnTable(f))
  PROVE  ReadOwn(f) = OwnTable(f) /\ Shaped(OwnTable(f))
<1> DEFINE first == Cells(f)[1]
           width == Len(first)
           names == [i \in 1..width |-> IF first[i] = <<>> THEN Numbered(i) ELSE first[i]]
           rows == [i \in 1..(Len(f.lines) - 1) |-> Padded(Cells(f)[i + 1], width)]
           filled == {i \in DOMAIN rows : f.kind = "workbook" => ToSet(rows[i]) # {Null}}
           kept == [n \in 1..Cardinality(filled) |-> rows[Nth(filled, n)]]
           table == OwnTable(f)
<1>1. table = Table(names, kept)
  BY DEF OwnTable
<1>2. table.names = names /\ table.rows = kept
  <2> HIDE DEF names, kept, table
  <2> QED BY <1>1, TableFields
<1>3. ~IsTable(Rejected)
  BY DEF IsTable, Rejected
<1>4. ReadOwn(f) = table /\ IsInjective(table.names)
  <2> HIDE DEF table
  <2> QED BY <1>3 DEF ReadOwn, UniqueNames, table
<1>5. first \in Seq(Seq(Symbol)) /\ first # <<>> /\ width \in Nat \ {0}
  <2>1. f.lines \in Seq(Seq(Symbol)) /\ Len(f.lines) \in Nat \ {0}
    BY FileFacts
  <2>2. f.lines[1] \in Seq(Symbol)
    BY <2>1
  <2>3. first = Split(f.lines[1], Candidates[1])
    <3>1. first = SplitAll(f.lines, Candidates[1])[1]
      BY DEF Cells
    <3>2. 1 \in 1..Len(f.lines)
      BY <2>1
    <3> HIDE DEF first
    <3> QED
      BY <2>1, <3>1, <3>2, SplitAllIsRows
  <2>4. Split(f.lines[1], Candidates[1]) \in Seq(Seq(Symbol))
        /\ Split(f.lines[1], Candidates[1]) # <<>>
    BY <2>2, SplitIsCells
  <2> HIDE DEF first
  <2> QED
    BY <2>3, <2>4, EmptySeq
<1>6. Len(names) = width /\ names # <<>>
  <2>1. names \in [1..width -> {names[i] : i \in 1..width}]
    OBVIOUS
  <2> HIDE DEF names, width
  <2> QED
    BY <2>1, <1>5, FunctionIsSequence
<1>7. DOMAIN rows = 1..(Len(f.lines) - 1) /\ \A i \in DOMAIN rows : Len(rows[i]) = width
  <2>1. \A i \in 1..(Len(f.lines) - 1) : rows[i] = Padded(Cells(f)[i + 1], width)
    OBVIOUS
  <2>2. DOMAIN rows = 1..(Len(f.lines) - 1)
    OBVIOUS
  <2> HIDE DEF rows, width
  <2> QED
    BY <2>1, <2>2, <1>5, PaddedIsWide
<1>8. filled \in SUBSET (1..(Len(f.lines) - 1)) /\ IsFiniteSet(filled)
  <2>1. filled \in SUBSET (1..(Len(f.lines) - 1))
    OBVIOUS
  <2>2. IsFiniteSet(1..(Len(f.lines) - 1))
    BY FileFacts, FS_Interval
  <2> HIDE DEF filled
  <2> QED
    BY <2>1, <2>2, FS_Subset
<1>9. \A n \in DOMAIN kept : Len(kept[n]) = width
  <2> TAKE n \in DOMAIN kept
  <2>1. n \in 1..Cardinality(filled) /\ kept[n] = rows[Nth(filled, n)]
    <3> HIDE DEF filled, rows
    <3> QED OBVIOUS
  <2>2. Nth(filled, n) \in filled
    <3> HIDE DEF filled, kept
    <3>1. filled \in SUBSET Nat
      BY <1>8
    <3> QED BY <2>1, <3>1, <1>8, NthIsOne
  <2> HIDE DEF kept, rows, filled, width
  <2> QED
    BY <2>1, <2>2, <1>7, <1>8
<1> HIDE DEF names, kept, table, width
<1> QED
  BY <1>2, <1>4, <1>6, <1>9 DEF Shaped, table

-----------------------------------------------------------------------------
(* What the first megabyte tells of a file.                                *)

\* Finitely many things have one that most is counted of.
LEMMA GreatestOf ==
  ASSUME NEW S, IsFiniteSet(S), S # {}, NEW f \in [S -> Nat]
  PROVE  \E x \in S : \A y \in S : f[y] <= f[x]
<1> DEFINE R == {f[x] : x \in S}
<1>1. f \in Surjection(S, R)
  BY DEF Surjection
<1>2. R \in SUBSET Nat /\ R # {}
  OBVIOUS
<1>3. IsFiniteSet(R)
  <2> HIDE DEF R
  <2> QED BY <1>1, FS_Surjection
<1>4. Max(R) \in R /\ \A y \in R : y <= Max(R)
  <2> HIDE DEF R
  <2> QED BY <1>2, <1>3, MaxIsGreatest
<1>5. PICK x \in S : f[x] = Max(R)
  BY <1>4
<1> QED
  BY <1>4, <1>5

\* The lines a dialect is found in.
LEMMA RowsForIsRows ==
  ASSUME NEW S, NEW text \in Seq(Seq(S)), NEW c
  PROVE  /\ RowsFor(text, c) \in Seq(Seq(Seq(S))) /\ Len(RowsFor(text, c)) \in Nat
         /\ DOMAIN RowsFor(text, c) = 1..Len(RowsFor(text, c))
<1> DEFINE m == Min({Len(text), SCORING_ROWS})
           few == SubSeq(text, 1, m)
<1>1. m \in Nat /\ m <= Len(text) /\ Len(text) \in Nat
  <2>1. Len(text) \in Nat /\ SCORING_ROWS \in Nat
    BY ScoringAssumption
  <2>2. m \in Nat /\ m = IF Len(text) <= SCORING_ROWS THEN Len(text) ELSE SCORING_ROWS
    BY <2>1, MinOfTwo
  <2> HIDE DEF m
  <2> QED BY <2>1, <2>2
<1>2. few \in Seq(Seq(S))
  <2>1. \A i \in 1..m : text[i] \in Seq(S)
    BY <1>1
  <2> HIDE DEF m
  <2> QED BY <1>1, <2>1, SubSeqProperties
<1> HIDE DEF few
<1>3. SplitAll(few, c) \in Seq(Seq(Seq(S))) /\ Len(SplitAll(few, c)) = Len(few)
      /\ DOMAIN SplitAll(few, c) = 1..Len(few) /\ Len(few) \in Nat
  BY <1>2, SplitAllIsRows
<1> QED
  BY <1>3 DEF RowsFor, few

LEMMA AgreeingIsNumber ==
  ASSUME NEW S, NEW rows \in Seq(S), NEW i \in DOMAIN rows
  PROVE  Agreeing(rows, i) \in Nat
<1> DEFINE like == {j \in DOMAIN rows : Len(rows[j]) = Len(rows[i])}
<1>1. like \in SUBSET (1..Len(rows)) /\ IsFiniteSet(1..Len(rows))
  <2>1. Len(rows) \in Nat /\ DOMAIN rows = 1..Len(rows)
    OBVIOUS
  <2>2. like \in SUBSET (1..Len(rows))
    BY <2>1
  <2>3. IsFiniteSet(1..Len(rows))
    BY <2>1, FS_Interval
  <2> QED BY <2>2, <2>3
<1>2. IsFiniteSet(like)
  <2> HIDE DEF like
  <2> QED BY <1>1, FS_Subset
<1>3. Cardinality(like) \in Nat
  <2> HIDE DEF like
  <2> QED BY <1>2, FS_CardinalityType
<1> QED
  BY <1>3 DEF Agreeing

\* Some width is the commonest, and one row with it the first.
LEMMA CommonestIsOne ==
  ASSUME NEW S, NEW rows \in Seq(S), Len(rows) >= 1
  PROVE  Commonest(rows) \in DOMAIN rows
<1> DEFINE count == [i \in DOMAIN rows |-> Agreeing(rows, i)]
           M == {i \in DOMAIN rows : \A j \in DOMAIN rows : count[j] <= count[i]}
<1>1. DOMAIN rows = 1..Len(rows) /\ Len(rows) \in Nat
  OBVIOUS
<1>2. count \in [DOMAIN rows -> Nat]
  BY AgreeingIsNumber
<1>3. IsFiniteSet(DOMAIN rows) /\ DOMAIN rows # {}
  <2>1. 1 \in DOMAIN rows
    BY <1>1
  <2>2. IsFiniteSet(1..Len(rows))
    BY <1>1, FS_Interval
  <2> QED BY <1>1, <2>1, <2>2
<1>4. M # {} /\ M \in SUBSET Nat
  <2> HIDE DEF count
  <2>1. \E x \in DOMAIN rows : \A y \in DOMAIN rows : count[y] <= count[x]
    BY <1>2, <1>3, GreatestOf
  <2> QED BY <1>1, <2>1
<1>5. PICK i \in M : \A j \in M : i <= j
  <2> HIDE DEF M
  <2> QED BY <1>4, LeastNumber
<1>6. ASSUME NEW j \in DOMAIN rows
      PROVE  \/ Agreeing(rows, j) < Agreeing(rows, i)
             \/ Agreeing(rows, j) = Agreeing(rows, i) /\ i <= j
  <2>1. count[j] = Agreeing(rows, j) /\ count[i] = Agreeing(rows, i)
    OBVIOUS
  <2> HIDE DEF count
  <2>2. count[j] <= count[i] /\ count[j] \in Nat /\ count[i] \in Nat
    BY <1>2
  <2>3. CASE count[j] = count[i]
    <3>1. j \in M
      BY <2>3
    <3> QED BY <1>5, <2>1, <2>3, <3>1
  <2>4. CASE count[j] # count[i]
    BY <2>1, <2>2, <2>4
  <2> QED BY <2>3, <2>4
<1>7. i \in DOMAIN rows
  OBVIOUS
<1> QED
  BY <1>6, <1>7 DEF Commonest

LEMMA ScoreIsNumbers ==
  ASSUME NEW S, NEW rows \in Seq(Seq(S))
  PROVE  Score(rows).width \in Nat /\ Score(rows).agreeing \in Nat
<1>1. Len(rows) \in Nat
  OBVIOUS
<1>2. CASE Len(rows) < 2 \/ Len(rows[Commonest(rows)]) < 2
  BY <1>2 DEF Score
<1>3. CASE ~(Len(rows) < 2) /\ ~(Len(rows[Commonest(rows)]) < 2)
  <2>1. Commonest(rows) \in DOMAIN rows
    BY <1>1, <1>3, CommonestIsOne
  <2>2. Len(rows[Commonest(rows)]) \in Nat /\ Agreeing(rows, Commonest(rows)) \in Nat
    BY <2>1, AgreeingIsNumber
  <2> QED
    BY <1>3, <2>2 DEF Score
<1> QED
  BY <1>2, <1>3

\* Of scores, one is the best, and the first of those.
LEMMA BestIsOne ==
  ASSUME NEW P \in SUBSET Nat, IsFiniteSet(P), P # {},
         NEW score, \A n \in P : score[n].width \in Nat /\ score[n].agreeing \in Nat
  PROVE  \E n \in P : \A m \in P :
            Better(score[n], score[m]) \/ (~Better(score[m], score[n]) /\ n <= m)
<1> DEFINE agreeing == [n \in P |-> score[n].agreeing]
           width == [n \in P |-> score[n].width]
           A == {n \in P : \A m \in P : agreeing[m] <= agreeing[n]}
           W == {n \in A : \A m \in A : width[m] <= width[n]}
<1>1. agreeing \in [P -> Nat] /\ width \in [P -> Nat]
  OBVIOUS
<1>2. A # {} /\ A \in SUBSET P
  <2> HIDE DEF agreeing
  <2>1. \E x \in P : \A y \in P : agreeing[y] <= agreeing[x]
    BY <1>1, GreatestOf
  <2> QED BY <2>1
<1>3. W # {} /\ W \in SUBSET A
  <2> DEFINE part == [n \in A |-> width[n]]
  <2>1. part \in [A -> Nat] /\ \A n \in A : part[n] = width[n]
    <3> HIDE DEF width, A
    <3> QED BY <1>1, <1>2
  <2>2. IsFiniteSet(A)
    <3> HIDE DEF A
    <3> QED BY <1>2, FS_Subset
  <2> HIDE DEF part, A, width
  <2>3. \E x \in A : \A y \in A : part[y] <= part[x]
    BY <1>2, <2>1, <2>2, GreatestOf
  <2> QED BY <2>1, <2>3
<1>4. PICK n \in W : \A m \in W : n <= m
  <2> HIDE DEF W
  <2>1. W \in SUBSET Nat
    BY <1>2, <1>3
  <2> QED BY <1>3, <2>1, LeastNumber
<1>5. n \in P /\ n \in A
  BY <1>2, <1>3
<1>6. ASSUME NEW m \in P
      PROVE  Better(score[n], score[m]) \/ (~Better(score[m], score[n]) /\ n <= m)
  <2>1. score[m].width \in Nat /\ score[m].agreeing \in Nat
        /\ score[n].width \in Nat /\ score[n].agreeing \in Nat
    BY <1>5
  <2>2. score[m].agreeing <= score[n].agreeing
    <3>1. agreeing[m] <= agreeing[n]
      BY <1>5
    <3> QED BY <1>5, <3>1
  <2>3. CASE score[m].agreeing < score[n].agreeing
    BY <2>1, <2>3 DEF Better
  <2>4. CASE score[m].agreeing = score[n].agreeing
    <3>1. m \in A
      <4>1. agreeing[m] = agreeing[n]
        BY <1>5, <2>4
      <4> HIDE DEF agreeing
      <4> QED BY <1>5, <4>1
    <3>2. width[m] <= width[n] /\ width[m] = score[m].width /\ width[n] = score[n].width
      <4>1. width[m] = score[m].width /\ width[n] = score[n].width
        BY <1>5
      <4> HIDE DEF A, width
      <4> QED BY <3>1, <4>1
    <3>3. CASE score[m].width < score[n].width
      BY <2>1, <2>4, <3>3 DEF Better
    <3>4. CASE score[m].width = score[n].width
      <4>1. m \in W
        <5> HIDE DEF A, width
        <5> QED BY <3>1, <3>2, <3>4
      <4>2. n <= m
        BY <1>4, <4>1
      <4> QED
        BY <2>1, <2>4, <3>4, <4>2 DEF Better
    <3> HIDE DEF width
    <3> QED BY <2>1, <3>2, <3>3, <3>4
  <2> QED BY <2>1, <2>2, <2>3, <2>4
<1> QED
  BY <1>5, <1>6

LEMMA DelimiterIsDetected ==
  ASSUME NEW S, NEW text \in Seq(Seq(S))
  PROVE  DetectDelimiter(text).delimiter \in Delimiter
<1> DEFINE score == [n \in DOMAIN Candidates |-> Score(RowsFor(text, Candidates[n]))]
           splits == {n \in DOMAIN Candidates : score[n].width >= 2}
           IsBest(n) == \A m \in splits :
                    Better(score[n], score[m]) \/ (~Better(score[m], score[n]) /\ n <= m)
           best == CHOOSE n \in splits : IsBest(n)
<1>1. Candidates \in Seq(Symbol \ {"accent", "gap"})
  BY CandidatesAssumption
<1>2. ASSUME NEW n \in DOMAIN Candidates
      PROVE  score[n].width \in Nat /\ score[n].agreeing \in Nat
  <2>1. RowsFor(text, Candidates[n]) \in Seq(Seq(Seq(S)))
    BY RowsForIsRows
  <2>2. score[n] = Score(RowsFor(text, Candidates[n]))
    OBVIOUS
  <2> HIDE DEF score
  <2> QED BY <2>1, <2>2, ScoreIsNumbers
<1>3. splits \in SUBSET (1..Len(Candidates)) /\ IsFiniteSet(splits) /\ splits \in SUBSET Nat
  <2>1. splits \in SUBSET (1..Len(Candidates)) /\ Len(Candidates) \in Nat
    BY <1>1
  <2>2. IsFiniteSet(1..Len(Candidates)) /\ 1..Len(Candidates) \in SUBSET Nat
    BY <2>1, FS_Interval
  <2> HIDE DEF splits
  <2>3. IsFiniteSet(splits)
    BY <2>1, <2>2, FS_Subset
  <2> QED BY <2>1, <2>2, <2>3
<1>4. CASE splits = {}
  <2>1. DetectDelimiter(text) = [delimiter |-> ",", sure |-> TRUE]
    BY <1>4 DEF DetectDelimiter
  <2>2. DetectDelimiter(text).delimiter = ","
    <3>1. \A c, sure : [delimiter |-> c, sure |-> sure].delimiter = c
      OBVIOUS
    <3>2. [delimiter |-> ",", sure |-> TRUE].delimiter = ","
      BY <3>1, Zenon
    <3> HIDE DEF score, splits, IsBest, best
    <3> QED BY <2>1, <3>2, Zenon
  <2> QED BY <2>2, DelimiterIsASymbol
<1>5. CASE splits # {}
  <2>1. \E n \in splits : IsBest(n)
    <3>1. \A n \in splits : score[n].width \in Nat /\ score[n].agreeing \in Nat
      BY <1>2
    <3> HIDE DEF splits, score
    <3> QED BY <1>3, <1>5, <3>1, BestIsOne
  <2>2. best \in splits
    <3> HIDE DEF splits, IsBest
    <3> QED BY <2>1
  <2>3. DetectDelimiter(text).delimiter = Candidates[best]
    <3>1. DetectDelimiter(text) =
             [delimiter |-> Candidates[best],
              sure |-> 10 * score[best].agreeing >= 9 * Len(RowsFor(text, Candidates[best]))]
      BY <1>5 DEF DetectDelimiter
    <3> HIDE DEF best, score
    <3> QED BY <3>1
  <2>4. Candidates[best] \in Delimiter
    <3>1. best \in DOMAIN Candidates
      BY <2>2
    <3> HIDE DEF best
    <3> QED BY <3>1 DEF Delimiter, ToSet
  <2> HIDE DEF best
  <2> QED BY <2>3, <2>4
<1> QED
  BY <1>4, <1>5

LEMMA CutIsText ==
  ASSUME NEW f \in File
  PROVE  /\ WholeLines(f) \in Seq(Seq(RawSymbol)) /\ InHead(f) \in Seq(Seq(RawSymbol))
         /\ Len(WholeLines(f)) = f.seen.lines
         /\ \A i \in 1..f.seen.lines : WholeLines(f)[i] = f.lines[i]
         /\ Whole(f) => WholeLines(f) = f.lines /\ InHead(f) = f.lines
<1> DEFINE k == f.seen.lines
           rest == f.seen.rest
           end == IF rest = <<>> THEN <<>> ELSE <<rest>>
<1>1. f.lines \in Seq(Seq(RawSymbol)) /\ k \in 0..Len(f.lines) /\ Len(f.lines) \in Nat
      /\ f.lines \in Seq(Seq(Symbol)) /\ f.lines # <<>> /\ (Whole(f) => rest = <<>>)
  BY FileFacts
<1>2. WholeLines(f) \in Seq(Seq(RawSymbol)) /\ Len(WholeLines(f)) = k
      /\ \A i \in 1..k : WholeLines(f)[i] = f.lines[i]
  <2>1. \A i \in 1..k : f.lines[i] \in Seq(RawSymbol)
    BY <1>1
  <2>2. /\ SubSeq(f.lines, 1, k) \in Seq(Seq(RawSymbol))
        /\ Len(SubSeq(f.lines, 1, k)) = IF 1 <= k THEN k - 1 + 1 ELSE 0
        /\ \A i \in 1..k - 1 + 1 : SubSeq(f.lines, 1, k)[i] = f.lines[1 + i - 1]
    <3>1. k \in Int
      BY <1>1
    <3> HIDE DEF k
    <3> QED BY <2>1, <3>1, SubSeqProperties
  <2> QED
    BY <1>1, <2>2 DEF WholeLines
<1>3. end \in Seq(Seq(RawSymbol))
  <2>1. CASE rest = <<>>
    BY <2>1
  <2>2. CASE rest # <<>>
    <3>1. k < Len(f.lines)
      BY <1>1, <2>2 DEF Whole
    <3> DEFINE line == f.lines[k + 1]
    <3>2. \E n \in 0..Len(line) :
             \/ rest = SubSeq(line, 1, n)
             \/ Utf8(f.written) /\ rest = SubSeq(line, 1, n) \o <<"half">>
      BY <3>1, FileAssumption
    <3>3. line \in Seq(RawSymbol)
      BY <1>1, <3>1
    <3> HIDE DEF line
    <3>4. PICK n \in 0..Len(line) :
             rest = SubSeq(line, 1, n) \/ rest = SubSeq(line, 1, n) \o <<"half">>
      BY <3>2
    <3>5. SubSeq(line, 1, n) \in Seq(RawSymbol)
      <4>1. \A i \in 1..n : line[i] \in RawSymbol
        BY <3>3
      <4> QED BY <3>3, <4>1, SubSeqProperties
    <3>6. <<"half">> \in Seq(RawSymbol)
      BY DEF RawSymbol
    <3>7. SubSeq(line, 1, n) \o <<"half">> \in Seq(RawSymbol)
      BY <3>5, <3>6, ConcatProperties
    <3>8. rest \in Seq(RawSymbol)
      BY <3>4, <3>5, <3>7
    <3> HIDE DEF rest
    <3> QED BY <2>2, <3>8
  <2> QED BY <2>1, <2>2
<1>4. InHead(f) = WholeLines(f) \o end
  BY DEF InHead
<1>5. InHead(f) \in Seq(Seq(RawSymbol))
  <2> HIDE DEF end
  <2> QED BY <1>2, <1>3, <1>4, ConcatProperties
<1>6. ASSUME Whole(f) PROVE WholeLines(f) = f.lines /\ InHead(f) = f.lines
  <2>1. k = Len(f.lines) /\ end = <<>>
    BY <1>1, <1>6 DEF Whole
  <2>2. WholeLines(f) = f.lines
    BY <1>1, <2>1, SubSeqFull DEF WholeLines
  <2> HIDE DEF end
  <2> QED
    BY <1>1, <1>4, <2>1, <2>2, ConcatEmptySeq
<1> QED
  BY <1>2, <1>5, <1>6

\* What is detected is a dialect, in any cut of any file.
LEMMA DetectedIsDialect ==
  ASSUME NEW f \in File, NEW p \in BOOLEAN
  PROVE  /\ Detected(f, p).dialect \in Dialect
         /\ Detected(f, p).dialect.encoding = Decode(InHead(f), f.written, p)
<1> DEFINE e == Decode(InHead(f), f.written, p)
           text == Decoded(Kept(f, p), f.written, e)
           found == DetectDelimiter(text)
           header == DetectHeader(RowsFor(text, found.delimiter))
<1>1. Kept(f, p) \in Seq(Seq(RawSymbol))
  BY CutIsText DEF Kept
<1>2. text \in Seq(Seq(TextSymbol))
  BY <1>1, DecodedIsText
<1>3. found.delimiter \in Delimiter
  <2> HIDE DEF text
  <2> QED BY <1>2, DelimiterIsDetected
<1>4. e \in Encoding
  BY DEF Decode, Encoding
<1>5. header \in BOOLEAN
  BY DEF DetectHeader
<1>6. Detected(f, p) = [dialect |-> [delimiter |-> found.delimiter, encoding |-> e,
                                     has_header |-> header],
                        sure |-> found.sure]
  BY DEF Detected, Detect
<1> HIDE DEF e, text, found, header
<1> QED
  BY <1>3, <1>4, <1>5, <1>6 DEF Dialect, Delimiter, e

-----------------------------------------------------------------------------
(* What is stored, and what was shown.                                     *)

\* What is shown of a table, and how it was read.
LEMMA ShownFields ==
  ASSUME NEW table, NEW d, NEW warnings
  PROVE  /\ Shown(table, d, warnings).is = "shown"
         /\ Shown(table, d, warnings).dialect = d
         /\ Shown(table, d, warnings).warnings = warnings
BY DEF Shown

LEMMA ShownRows ==
  ASSUME NEW table, NEW d, NEW warnings
  PROVE  /\ Shown(table, d, warnings).names = table.names
         /\ Shown(table, d, warnings).rows =
               SubSeq(table.rows, 1, Min({Len(table.rows), PREVIEW_ROWS}))
BY DEF Shown

\* Text is what it decodes to.
LEMMA TextOf ==
  ASSUME NEW f \in File, NEW e
  PROVE  /\ ToUtf8(f.lines, f.written, e) \in Seq(Seq(TextSymbol))
         /\ ToUtf8(f.lines, f.written, e) # <<>>
         /\ Len(ToUtf8(f.lines, f.written, e)) = Len(f.lines) /\ Len(f.lines) \in Nat \ {0}
         /\ \A i \in 1..Len(f.lines), c \in Delimiter :
               Cardinality(At(ToUtf8(f.lines, f.written, e)[i], c))
                  = Cardinality(At(f.lines[i], c))
<1> DEFINE w == IF e = "utf-8" THEN "utf-8" ELSE f.written
           text == Decoded(f.lines, w, e)
<1>1. f.lines \in Seq(Seq(RawSymbol)) /\ Len(f.lines) \in Nat \ {0}
      /\ DOMAIN f.lines = 1..Len(f.lines)
  BY FileFacts
<1>2. /\ text \in Seq(Seq(TextSymbol)) /\ Len(text) = Len(f.lines)
      /\ \A i \in DOMAIN f.lines, c \in Delimiter :
            Cardinality(At(text[i], c)) = Cardinality(At(f.lines[i], c))
  <2> HIDE DEF w
  <2> QED BY <1>1, DecodedIsText
<1> HIDE DEF text
<1>3. text # <<>>
  BY <1>1, <1>2, EmptySeq
<1> QED
  BY <1>1, <1>2, <1>3 DEF ToUtf8, text

\* What is stored of a delimited file was read to its end.
LEMMA StoredIsRead ==
  ASSUME NEW f \in File, NEW d \in Dialect, IsTable(NormalizeText(f, d)),
         NEW table, table = Frame(ToUtf8(f.lines, f.written, d.encoding), d, FALSE)
  PROVE  /\ NormalizeText(f, d) = table /\ IsTable(table)
         /\ Decodes(f.lines, f.written, d.encoding)
         /\ UniqueNames(table) /\ ~Unsplit(table, d) /\ ~(Len(table.rows) > MAX_ROWS)
<1>1. ~IsTable(Rejected) /\ ~IsTable(Failed)
  BY DEF IsTable, Rejected, Failed
<1> QED
  BY <1>1 DEF NormalizeText

LEMMA TextIsHeld ==
  ASSUME NEW f \in File, NEW d \in Dialect,
         NEW text, text = ToUtf8(f.lines, f.written, d.encoding),
         NEW table, table = Strict(text, d), IsTable(table)
  PROVE  Holds(table, text, d)
<1>1. text \in Seq(Seq(TextSymbol)) /\ text # <<>>
  BY TextOf
<1>2. d.has_header \in BOOLEAN
  BY DEF Dialect
<1> QED
  BY <1>1, <1>2, FrameIsTable

LEMMA StoredIsShaped ==
  ASSUME NEW f \in File, NEW d \in Dialect, IsTable(NormalizeText(f, d))
  PROVE  Shaped(NormalizeText(f, d))
<1> DEFINE text == ToUtf8(f.lines, f.written, d.encoding)
           table == Frame(text, d, FALSE)
<1>1. NormalizeText(f, d) = table /\ IsTable(table)
  BY StoredIsRead
<1>2. Holds(table, text, d)
  <2>1. text = ToUtf8(f.lines, f.written, d.encoding) /\ table = Strict(text, d)
    BY DEF Strict
  <2> HIDE DEF table, text
  <2> QED BY <1>1, <2>1, TextIsHeld
<1> HIDE DEF table, text
<1> QED
  BY <1>1, <1>2 DEF Shaped, Holds, HoldsRows

\* A preview names the dialect it detected, when there is one to name.
LEMMA BuiltDialect ==
  ASSUME NEW f \in File, NEW p \in BOOLEAN, Build(f, p).is = "shown"
  PROVE  Build(f, p).dialect = IF Delimited(f) THEN Detected(f, p).dialect ELSE Unset
<1>1. Rejected.is # "shown" /\ Failed.is # "shown"
  BY DEF Rejected, Failed
<1>2. CASE Delimited(f)
  <2> DEFINE found == Detected(f, p)
             lines == IF p /\ f.seen.lines > 0 THEN WholeLines(f) ELSE InHead(f)
             exact == Checked(ReadDelimited(lines, f.written, found.dialect))
             lenient == Lenient(lines, f.written, found.dialect)
             warnings == (IF found.sure THEN {} ELSE {"ragged"})
                         \cup (IF p THEN {"prefix"} ELSE {})
  <2>1. Build(f, p) = PreviewText(f, p)
    BY <1>1, <1>2 DEF Build
  <2>2. PreviewText(f, p) = IF Kept(f, p) = <<>> THEN Rejected
           ELSE IF IsTable(exact) THEN Shown(exact, found.dialect, warnings)
           ELSE IF IsTable(lenient) THEN Shown(lenient, found.dialect, warnings \cup {"trimmed"})
           ELSE lenient
    BY DEF PreviewText
  <2>3. ~IsTable(lenient) => lenient.is # "shown"
    BY <1>1 DEF Lenient, Frame, IsTable, Table
  <2> HIDE DEF found, lines, exact, lenient, warnings
  <2>4. \/ Build(f, p) = Shown(exact, found.dialect, warnings)
        \/ Build(f, p) = Shown(lenient, found.dialect, warnings \cup {"trimmed"})
    BY <1>1, <2>1, <2>2, <2>3
  <2>5. Build(f, p).dialect = found.dialect
    <3>1. /\ Shown(exact, found.dialect, warnings).dialect = found.dialect
          /\ Shown(lenient, found.dialect, warnings \cup {"trimmed"}).dialect = found.dialect
      BY ShownFields
    <3> QED
      BY <2>4, <3>1
  <2> QED
    BY <1>2, <2>5 DEF found
<1>3. CASE ~Delimited(f)
  <2>1. Build(f, p) = Shown(ReadOwn(f), Unset, {})
    BY <1>1, <1>3 DEF Build, PreviewOwn
  <2>2. Shown(ReadOwn(f), Unset, {}).dialect = Unset
    BY ShownFields
  <2> QED
    BY <1>3, <2>1, <2>2
<1> QED
  BY <1>2, <1>3

-----------------------------------------------------------------------------
(* The invariant.                                                          *)

Typed ==
    /\ file \in File /\ client \in {"page", "script", "sample"}
    /\ corrected = {} \/ \E field \in Field : corrected = {field}
    /\ form = [field \in Field |-> form[field]]
    /\ \A field \in Field : form[field] \in Values(field) \cup {Unset}
\* The page sends what the preview proposed, as corrected; others only their corrections.
Proposed ==
    /\ client = "sample" => Delimited(file) /\ corrected = {}
    /\ client = "page" /\ preview # Unset =>
          /\ preview = Build(file, FALSE)
          /\ preview.is = "shown" /\ Delimited(file) =>
                \A field \in Field \ corrected : form[field] = preview.dialect[field]
    /\ client # "page" => \A field \in Field \ corrected : form[field] = Unset
\* The answer is what the form asks for.
Answered ==
    outcome # Unset =>
        /\ client = "page" => preview # Unset /\ preview.is = "shown"
        /\ outcome = IF client # "sample" THEN Commit(file)
                     ELSE IF WholeLines(file) = <<>> THEN Rejected
                     ELSE NormalizeText(file, Detected(file, TRUE).dialect)
IInv == Typed /\ Proposed /\ Answered

LEMMA InitIsFine == Init => IInv
<1> SUFFICES ASSUME Init PROVE IInv
  OBVIOUS
<1> USE DEF Init
<1>1. Typed
  BY DEF Typed
<1>2. Proposed
  BY DEF Proposed
<1>3. Answered
  BY DEF Answered
<1> QED
  BY <1>1, <1>2, <1>3 DEF IInv

LEMMA CommitIsStable ==
  ASSUME UNCHANGED <<file, form>> PROVE Commit(file)' = Commit(file)
BY DEF Commit, Merged

\* Nothing but the answer changes.
LEMMA AnswerKeeps ==
  ASSUME IInv, UNCHANGED <<file, client, preview, form, corrected>>
  PROVE  Typed' /\ Proposed'
<1>1. Typed'
  BY DEF IInv, Typed, Values
<1>2. Proposed'
  BY DEF IInv, Proposed
<1> QED
  BY <1>1, <1>2

LEMMA PreviewUploadIsFine == ASSUME IInv, PreviewUpload PROVE IInv'
<1> DEFINE p == client = "script" /\ ~Whole(file)
           answer == Build(file, p)
           proposed == client = "page" /\ answer.is = "shown" /\ answer.dialect # Unset
<1>1. /\ client # "sample" /\ outcome = Unset /\ preview' = answer
      /\ form' = IF proposed THEN answer.dialect ELSE form
      /\ UNCHANGED <<file, client, corrected, outcome>>
  BY DEF PreviewUpload
<1>2. file \in File /\ p \in BOOLEAN /\ (client = "page" => p = FALSE)
  BY DEF IInv, Typed
<1>3. ASSUME proposed
      PROVE  /\ Delimited(file) /\ form' = answer.dialect
             /\ form' = [field \in Field |-> form'[field]]
             /\ \A field \in Field : form'[field] \in Values(field)
  <2> HIDE DEF p
  <2>1. answer.dialect = IF Delimited(file) THEN Detected(file, p).dialect ELSE Unset
    BY <1>2, <1>3, BuiltDialect
  <2>2. Delimited(file) /\ form' = Detected(file, p).dialect /\ form' = answer.dialect
    BY <1>1, <1>3, <2>1
  <2>3. form' \in Dialect
    BY <1>2, <2>2, DetectedIsDialect
  <2> HIDE DEF answer
  <2>4. form' = [field \in Field |-> form'[field]]
    BY <2>3 DEF Dialect, Field
  <2>5. \A field \in Field : form'[field] \in Values(field)
    BY <2>3 DEF Dialect, Field, Values
  <2> QED
    BY <2>2, <2>4, <2>5
<1> HIDE DEF proposed
<1>4. Typed'
  <2> HIDE DEF answer, p
  <2>1. CASE proposed
    BY <1>1, <1>3, <2>1 DEF IInv, Typed, Values
  <2>2. CASE ~proposed
    BY <1>1, <2>2 DEF IInv, Typed, Values
  <2> QED
    BY <2>1, <2>2
<1>5. Proposed'
  <2>1. client = "page" => answer = Build(file, FALSE)
    BY <1>2
  <2>2. ASSUME client = "page", answer.is = "shown", Delimited(file), ~proposed PROVE FALSE
    <3> HIDE DEF p
    <3>1. answer.dialect = Detected(file, p).dialect
      BY <1>2, <2>2, BuiltDialect
    <3>2. answer.dialect # Unset
      BY <1>2, <3>1, DetectedIsDialect, AbsenceAssumption
    <3> HIDE DEF answer
    <3> QED
      BY <2>2, <3>2 DEF proposed
  <2>3. client # "page" => ~proposed
    BY DEF proposed
  <2> HIDE DEF answer, p
  <2>4. client = "sample" => Delimited(file) /\ corrected = {}
    BY <1>1
  <2>5. client = "page" => \/ ~(answer.is = "shown" /\ Delimited(file))
                           \/ form' = answer.dialect
    BY <1>3, <2>2
  <2>6. client # "page" => \A field \in Field \ corrected : form'[field] = Unset
    BY <1>1, <2>3 DEF IInv, Proposed
  <2> QED
    BY <1>1, <2>1, <2>4, <2>5, <2>6 DEF Proposed
<1>6. Answered'
  BY <1>1 DEF Answered
<1> QED
  BY <1>4, <1>5, <1>6 DEF IInv

LEMMA CorrectFormIsFine ==
  ASSUME IInv, NEW changed \in Field, CorrectForm(changed) PROVE IInv'
<1>1. /\ client # "sample" /\ outcome = Unset /\ corrected = {} /\ corrected' = {changed}
      /\ UNCHANGED <<file, client, preview, outcome>>
  BY DEF CorrectForm
<1>2. PICK value \in Values(changed) : form' = [form EXCEPT ![changed] = value]
  BY DEF CorrectForm
<1>3. form' = [field \in Field |-> IF field = changed THEN value ELSE form[field]]
  BY <1>2 DEF IInv, Typed
<1>4. Typed'
  BY <1>1, <1>3 DEF IInv, Typed, Values
<1>5. Proposed'
  <2>1. \A field \in Field \ {changed} : form'[field] = form[field]
    BY <1>3
  <2> QED
    BY <1>1, <2>1 DEF IInv, Proposed
<1>6. Answered'
  BY <1>1 DEF Answered
<1> QED
  BY <1>4, <1>5, <1>6 DEF IInv

LEMMA CreateDatasetIsFine == ASSUME IInv, CreateDataset PROVE IInv'
<1>1. /\ client # "sample" /\ outcome' = Commit(file)
      /\ client = "page" => preview # Unset /\ preview.is = "shown"
      /\ UNCHANGED <<file, client, preview, form, corrected>>
  BY DEF CreateDataset
<1>2. Typed' /\ Proposed'
  BY <1>1, AnswerKeeps
<1>3. Commit(file)' = Commit(file)
  BY <1>1, CommitIsStable
<1>4. Answered'
  BY <1>1, <1>3 DEF Answered
<1> QED
  BY <1>2, <1>4 DEF IInv

LEMMA LoadSampleIsFine == ASSUME IInv, LoadSample PROVE IInv'
<1>1. /\ client = "sample"
      /\ outcome' = IF WholeLines(file) = <<>> THEN Rejected
                    ELSE NormalizeText(file, Detected(file, TRUE).dialect)
      /\ UNCHANGED <<file, client, preview, form, corrected>>
  BY DEF LoadSample
<1>2. Typed' /\ Proposed'
  BY <1>1, AnswerKeeps
<1>3. Answered'
  BY <1>1 DEF Answered
<1> QED
  BY <1>2, <1>3 DEF IInv

LEMMA StepIsFine == IInv /\ [Next]_vars => IInv'
<1> SUFFICES ASSUME IInv, [Next]_vars PROVE IInv'
  OBVIOUS
<1>1. CASE LoadSample
  BY <1>1, LoadSampleIsFine
<1>2. CASE PreviewUpload
  BY <1>2, PreviewUploadIsFine
<1>3. ASSUME NEW field \in Field, CorrectForm(field) PROVE IInv'
  BY <1>3, CorrectFormIsFine
<1>4. CASE CreateDataset
  BY <1>4, CreateDatasetIsFine
<1>5. CASE UNCHANGED vars
  <2>1. UNCHANGED <<file, client, preview, form, corrected, outcome>>
    BY <1>5 DEF vars
  <2>2. Typed' /\ Proposed'
    BY <2>1, AnswerKeeps
  <2>3. Commit(file)' = Commit(file)
    BY <2>1, CommitIsStable
  <2>4. Answered'
    BY <2>1, <2>3 DEF IInv, Answered
  <2> QED
    BY <2>2, <2>4 DEF IInv
<1> QED
  BY <1>1, <1>2, <1>3, <1>4, <1>5 DEF Next

(* Whatever the order of previews, corrections and commits, the form holds *)
(* what the preview of this file proposed but for what somebody changed,   *)
(* and the answer is what the form asks for.                               *)
THEOREM InductiveInvariant == Spec => []IInv
<1>1. Init => IInv
  BY InitIsFine
<1>2. IInv /\ [Next]_vars => IInv'
  BY StepIsFine
<1> QED
  BY <1>1, <1>2, PTL DEF Spec

-----------------------------------------------------------------------------
(* What follows from it.                                                   *)

\* A form and a detected dialect make a dialect, in which the form decides.
LEMMA MergedIsDialect ==
  ASSUME IInv, NEW d \in Dialect
  PROVE  /\ Merged(d) \in Dialect
         /\ \A field \in Field :
               Merged(d)[field] = IF form[field] = Unset THEN d[field] ELSE form[field]
         /\ form.has_header = TRUE => Merged(d).has_header = TRUE
<1>1. \A field \in Field :
         Merged(d)[field] = IF form[field] = Unset THEN d[field] ELSE form[field]
  BY DEF Merged
<1>2. \A field \in Field : form[field] \in Values(field) \cup {Unset}
  BY DEF IInv, Typed
<1>3. \A field \in Field : Merged(d)[field] \in Values(field)
  BY <1>1, <1>2 DEF Dialect, Field, Values
<1>4. Merged(d) = [field \in Field |-> Merged(d)[field]]
  BY DEF Merged
<1>5. Merged(d) = [delimiter |-> Merged(d)["delimiter"], encoding |-> Merged(d)["encoding"],
                   has_header |-> Merged(d)["has_header"]]
  BY <1>4 DEF Field
<1>6. Merged(d) \in Dialect
  <2>1. /\ Merged(d)["delimiter"] \in ToSet(Candidates) /\ Merged(d)["encoding"] \in Encoding
        /\ Merged(d)["has_header"] \in BOOLEAN
    BY <1>3 DEF Field, Values
  <2> QED
    BY <1>5, <2>1 DEF Dialect
<1>7. form.has_header = TRUE => Merged(d).has_header = TRUE
  BY <1>1, AbsenceAssumption DEF Field
<1> QED
  BY <1>1, <1>6, <1>7

LEMMA CommitReads ==
  ASSUME IInv, Delimited(file), NEW d, d = Merged(Detected(file, ~Whole(file)).dialect)
  PROVE  d \in Dialect /\ (IsTable(Commit(file)) => Commit(file) = NormalizeText(file, d))
<1>1. Detected(file, ~Whole(file)).dialect \in Dialect
  BY DetectedIsDialect DEF IInv, Typed
<1>2. d \in Dialect
  BY <1>1, MergedIsDialect
<1>3. ~IsTable(Rejected)
  BY DEF IsTable, Rejected
<1> QED
  BY <1>2, <1>3 DEF Commit

\* A delimited file is stored as its dialect says.
LEMMA OutcomeIsRead ==
  ASSUME IInv, outcome # Unset, IsTable(outcome), Delimited(file)
  PROVE  \E d \in Dialect :
            /\ outcome = NormalizeText(file, d)
            /\ form.has_header = TRUE => d.has_header = TRUE
            /\ "encoding" \notin corrected /\ ~(client = "page" /\ CutInside(file)) =>
                  \E p \in BOOLEAN : /\ p \/ ~CutInside(file)
                                     /\ d.encoding = Decode(InHead(file), file.written, p)
<1>1. file \in File /\ client \in {"page", "script", "sample"} /\ "has_header" \in Field
      /\ "encoding" \in Field
  BY DEF IInv, Typed, Field
<1>2. CASE client = "sample"
  <2> DEFINE d == Detected(file, TRUE).dialect
  <2>1. d \in Dialect /\ d.encoding = Decode(InHead(file), file.written, TRUE)
    BY <1>1, DetectedIsDialect
  <2>2. outcome = NormalizeText(file, d)
    <3>1. ~IsTable(Rejected)
      BY DEF IsTable, Rejected
    <3> HIDE DEF d
    <3>2. outcome = IF WholeLines(file) = <<>> THEN Rejected ELSE NormalizeText(file, d)
      BY <1>2 DEF IInv, Answered, d
    <3> QED BY <3>1, <3>2
  <2>3. form.has_header # TRUE
    <3>1. form["has_header"] = Unset
      BY <1>1, <1>2 DEF IInv, Proposed
    <3> QED
      BY <3>1, AbsenceAssumption
  <2> HIDE DEF d
  <2> QED
    BY <2>1, <2>2, <2>3
<1>3. CASE client # "sample"
  <2> DEFINE p == ~Whole(file)
             found == Detected(file, p).dialect
             d == Merged(found)
  <2>1. p \in BOOLEAN /\ (p \/ ~CutInside(file))
    BY <1>1, FileFacts DEF CutInside
  <2>2. found \in Dialect /\ found.encoding = Decode(InHead(file), file.written, p)
    <3> HIDE DEF p
    <3> QED BY <1>1, <2>1, DetectedIsDialect
  <2>3. d \in Dialect /\ outcome = NormalizeText(file, d)
    <3>1. outcome = Commit(file)
      BY <1>3 DEF IInv, Answered
    <3>2. d \in Dialect /\ (IsTable(Commit(file)) => Commit(file) = NormalizeText(file, d))
      BY CommitReads
    <3> HIDE DEF d
    <3> QED BY <3>1, <3>2
  <2>4. /\ form.has_header = TRUE => d.has_header = TRUE
        /\ d["encoding"] = IF form["encoding"] = Unset THEN found["encoding"]
                           ELSE form["encoding"]
    <3> HIDE DEF found
    <3> QED BY <1>1, <2>2, MergedIsDialect
  <2>5. ASSUME "encoding" \notin corrected, ~(client = "page" /\ CutInside(file))
        PROVE  \E q \in BOOLEAN : /\ q \/ ~CutInside(file)
                                  /\ d.encoding = Decode(InHead(file), file.written, q)
    <3>1. CASE client = "page"
      <4>1. preview # Unset /\ preview.is = "shown" /\ preview = Build(file, FALSE)
            /\ form["encoding"] = preview.dialect["encoding"]
        BY <1>1, <2>5, <3>1 DEF IInv, Proposed, Answered
      <4> DEFINE shown == Detected(file, FALSE).dialect
      <4>2. /\ Build(file, FALSE).dialect = shown /\ shown \in Dialect
            /\ shown.encoding = Decode(InHead(file), file.written, FALSE)
        BY <1>1, <4>1, BuiltDialect, DetectedIsDialect
      <4>3. preview.dialect = shown
        BY <4>1, <4>2
      <4> HIDE DEF found, d, shown
      <4>4. form["encoding"] = shown["encoding"] /\ form["encoding"] # Unset
        BY <4>1, <4>2, <4>3, AbsenceAssumption DEF Dialect
      <4>5. d.encoding = shown.encoding
        BY <2>4, <4>4
      <4> QED
        BY <2>5, <3>1, <4>2, <4>5
    <3>2. CASE client # "page"
      <4>1. form["encoding"] = Unset
        BY <1>1, <2>5, <3>2 DEF IInv, Proposed
      <4> HIDE DEF found, d, p
      <4> QED
        BY <2>1, <2>2, <2>4, <4>1
    <3> QED
      BY <3>1, <3>2
  <2> HIDE DEF d, found, p
  <2> QED
    BY <2>3, <2>4, <2>5
<1> QED
  BY <1>2, <1>3

LEMMA IInvIsTyped == IInv => TypeOK
<1> SUFFICES ASSUME IInv PROVE TypeOK
  OBVIOUS
<1>1. /\ client \in {"page", "script", "sample"}
      /\ corrected \in {{}} \cup {{field} : field \in Field}
      /\ \A field \in Field : form[field] \in Values(field) \cup {Unset}
      /\ file \in File
  BY DEF IInv, Typed
<1>2. ASSUME outcome # Unset, IsTable(outcome) PROVE Shaped(outcome)
  <2>1. CASE Delimited(file)
    <3>1. PICK d \in Dialect : outcome = NormalizeText(file, d)
      BY <1>2, <2>1, OutcomeIsRead
    <3> QED
      BY <1>1, <1>2, <3>1, StoredIsShaped
  <2>2. CASE ~Delimited(file)
    <3>1. outcome = Commit(file)
      BY <1>2, <2>2 DEF IInv, Answered, Proposed
    <3>2. ~IsTable(Rejected)
      BY DEF IsTable, Rejected
    <3>3. outcome = OwnTable(file) /\ IsTable(ReadOwn(file)) /\ UniqueNames(OwnTable(file))
      BY <1>2, <2>2, <3>1, <3>2 DEF Commit, NormalizeOwn
    <3> QED
      BY <1>1, <3>3, OwnIsShaped
  <2> QED
    BY <2>1, <2>2
<1> QED
  BY <1>1, <1>2 DEF TypeOK, Shaped

(* Whatever is uploaded, a stored table is as wide as its names, which     *)
(* differ (TypeOK).                                                        *)
THEOREM TypeCorrect == Spec => []TypeOK
BY InductiveInvariant, IInvIsTyped, PTL

-----------------------------------------------------------------------------
(* Encodings.                                                              *)

\* Text that is read as it was written, or from bytes UTF-8 never made, is kept.
LEMMA DecodedIsSame ==
  ASSUME NEW lines \in Seq(Seq(Symbol)), NEW w, NEW e,
         w = "utf-8-sig" => e = "utf-8-sig", Utf8(e) \/ ~Utf8(w)
  PROVE  Decoded(lines, w, e) = lines
<1> DEFINE text == Decoded(lines, w, e)
<1>1. DOMAIN lines = 1..Len(lines) /\ Len(lines) \in Nat
      /\ \A i \in DOMAIN lines : lines[i] \in Seq(Symbol)
  OBVIOUS
<1>2. ASSUME NEW i \in DOMAIN lines PROVE text[i] = lines[i]
  <2> DEFINE read == [j \in DOMAIN lines[i] |-> AsRead(lines[i][j], w, e)]
  <2>1. text[i] = <<>> \o read
    <3>1. ~(i = 1 /\ w = "utf-8-sig" /\ e # "utf-8-sig")
      OBVIOUS
    <3> QED BY <3>1 DEF Decoded
  <2>2. \A s \in Symbol : AsRead(s, w, e) = s
    BY SymbolAssumption DEF AsRead
  <2>3. lines[i] \in Seq(Symbol) /\ \A j \in DOMAIN lines[i] : lines[i][j] \in Symbol
    BY <1>1
  <2>4. lines[i] = [j \in DOMAIN lines[i] |-> lines[i][j]]
    BY <2>3
  <2>5. read = lines[i]
    BY <2>2, <2>3, <2>4
  <2> HIDE DEF read, text
  <2> QED
    BY <2>1, <2>3, <2>5, ConcatEmptySeq
<1>3. text = [i \in DOMAIN lines |-> text[i]]
  BY DEF Decoded
<1>4. lines = [i \in DOMAIN lines |-> lines[i]]
  OBVIOUS
<1> HIDE DEF text
<1>5. text = lines
  BY <1>2, <1>3, <1>4
<1> QED
  BY <1>5 DEF text

\* In the first megabyte, only the end of a line may be half a symbol, and only
\* if it ends inside one.
LEMMA CutIsAtTheEnd ==
  ASSUME NEW f \in File
  PROVE  \A i \in DOMAIN InHead(f) :
            /\ InHead(f)[i] \in Seq(RawSymbol)
            /\ \A j \in 1..(Len(InHead(f)[i]) - 1) : InHead(f)[i][j] \in Symbol
            /\ CutInside(f) \/ InHead(f)[i] \in Seq(Symbol)
<1> DEFINE k == f.seen.lines
           rest == f.seen.rest
           end == IF rest = <<>> THEN <<>> ELSE <<rest>>
           head == InHead(f)
           Fine(line) == /\ line \in Seq(RawSymbol)
                         /\ \A j \in 1..(Len(line) - 1) : line[j] \in Symbol
                         /\ CutInside(f) \/ line \in Seq(Symbol)
<1>1. f.lines \in Seq(Seq(RawSymbol)) /\ k \in 0..Len(f.lines) /\ Len(f.lines) \in Nat
      /\ f.lines \in Seq(Seq(Symbol)) /\ (Whole(f) => rest = <<>>)
  BY FileFacts
<1>2. \A i \in 1..Len(f.lines) : Fine(f.lines[i])
  BY <1>1
<1>3. ASSUME rest # <<>> PROVE Fine(rest)
  <2>1. k < Len(f.lines)
    BY <1>1, <1>3 DEF Whole
  <2> DEFINE line == f.lines[k + 1]
  <2>2. \E n \in 0..Len(line) :
           \/ rest = SubSeq(line, 1, n)
           \/ Utf8(f.written) /\ rest = SubSeq(line, 1, n) \o <<"half">>
    BY <2>1, FileAssumption
  <2>3. line \in Seq(Symbol)
    BY <1>1, <2>1
  <2> HIDE DEF line
  <2>4. PICK n \in 0..Len(line) :
           rest = SubSeq(line, 1, n) \/ rest = SubSeq(line, 1, n) \o <<"half">>
    BY <2>2
  <2> DEFINE part == SubSeq(line, 1, n)
  <2>5. part \in Seq(Symbol)
    <3>1. \A i \in 1..n : line[i] \in Symbol
      BY <2>3
    <3> QED BY <2>3, <3>1, SubSeqProperties
  <2> HIDE DEF part
  <2>6. part \in Seq(RawSymbol) /\ Len(part) \in Nat /\ \A j \in 1..Len(part) : part[j] \in Symbol
    BY <2>5, SeqMonotonic DEF RawSymbol
  <2>7. <<"half">> \in Seq(RawSymbol) /\ Len(<<"half">>) = 1
    BY DEF RawSymbol
  <2>8. /\ part \o <<"half">> \in Seq(RawSymbol)
        /\ Len(part \o <<"half">>) = Len(part) + 1
        /\ \A j \in 1..Len(part) : (part \o <<"half">>)[j] = part[j]
        /\ (part \o <<"half">>)[Len(part) + 1] = "half"
    <3> DEFINE cut == <<"half">>
    <3>1. cut \in Seq(RawSymbol) /\ Len(cut) = 1 /\ cut[1] = "half"
      BY <2>7
    <3> HIDE DEF cut
    <3>2. /\ part \o cut \in Seq(RawSymbol) /\ Len(part \o cut) = Len(part) + 1
          /\ \A j \in 1..Len(part) : (part \o cut)[j] = part[j]
          /\ (part \o cut)[Len(part) + 1] = cut[1]
      <4> HIDE DEF rest, Fine, line
      <4>1. /\ part \o cut \in Seq(RawSymbol)
            /\ Len(part \o cut) = Len(part) + Len(cut)
            /\ \A j \in 1..(Len(part) + Len(cut)) :
                  (part \o cut)[j] = IF j <= Len(part) THEN part[j] ELSE cut[j - Len(part)]
        BY <2>6, <3>1, ConcatProperties
      <4>2. /\ Len(part) + 1 \in 1..(Len(part) + Len(cut))
            /\ ~(Len(part) + 1 <= Len(part)) /\ (Len(part) + 1) - Len(part) = 1
        BY <2>6, <3>1
      <4>3. \A j \in 1..Len(part) : j \in 1..(Len(part) + Len(cut)) /\ j <= Len(part)
        BY <2>6, <3>1
      <4> QED BY <3>1, <4>1, <4>2, <4>3
    <3> QED BY <3>1, <3>2 DEF cut
  <2>9. Fine(part)
    BY <2>5, <2>6
  <2>10. rest = part \o <<"half">> => Fine(rest)
    <3> SUFFICES ASSUME rest = part \o <<"half">> PROVE Fine(rest)
      OBVIOUS
    <3>1. Last(rest) = "half"
      BY <2>6, <2>8 DEF Last
    <3>2. CutInside(f)
      BY <1>3, <3>1 DEF CutInside
    <3> HIDE DEF rest
    <3> QED BY <2>6, <2>8, <3>2
  <2>11. rest = part \/ rest = part \o <<"half">>
    BY <2>4 DEF part
  <2> HIDE DEF Fine, rest
  <2> QED
    BY <2>9, <2>10, <2>11
<1>4. /\ Len(WholeLines(f)) = k /\ WholeLines(f) \in Seq(Seq(RawSymbol))
      /\ \A i \in 1..k : WholeLines(f)[i] = f.lines[i]
  BY CutIsText
<1>5. CASE rest = <<>>
  <2>1. head = WholeLines(f)
    <3>1. head = WholeLines(f) \o <<>>
      BY <1>5 DEF InHead
    <3> QED BY <1>4, <3>1, ConcatEmptySeq
  <2> HIDE DEF head, Fine, k
  <2>2. DOMAIN head = 1..k
    BY <1>4, <2>1
  <2>3. \A i \in DOMAIN head : Fine(head[i])
    BY <1>1, <1>2, <1>4, <2>1, <2>2
  <2> QED
    BY <2>3 DEF head, Fine
<1>6. CASE rest # <<>>
  <2> DEFINE whole == WholeLines(f)
             tail == <<rest>>
  <2>1. head = whole \o tail
    BY <1>6 DEF InHead
  <2>2. tail \in Seq(Seq(RawSymbol)) /\ Len(tail) = 1 /\ tail[1] = rest
    BY <1>3, <1>6
  <2>3. Fine(rest)
    BY <1>3, <1>6
  <2> HIDE DEF whole, tail, Fine, k, head, rest
  <2>4. /\ whole \in Seq(Seq(RawSymbol)) /\ Len(whole) = k /\ k \in Nat
        /\ \A i \in 1..k : whole[i] = f.lines[i]
    BY <1>1, <1>4 DEF whole
  <2>5. /\ head \in Seq(Seq(RawSymbol)) /\ Len(head) = k + 1
        /\ \A i \in 1..(k + 1) : head[i] = IF i <= k THEN whole[i] ELSE tail[i - k]
    <3>1. /\ whole \o tail \in Seq(Seq(RawSymbol))
          /\ Len(whole \o tail) = Len(whole) + Len(tail)
          /\ \A i \in 1..(Len(whole) + Len(tail)) :
                (whole \o tail)[i] = IF i <= Len(whole) THEN whole[i] ELSE tail[i - Len(whole)]
      BY <2>2, <2>4, ConcatProperties
    <3> QED
      BY <2>1, <2>2, <2>4, <3>1
  <2>6. DOMAIN head = 1..(k + 1)
    BY <2>5
  <2>7. ASSUME NEW i \in DOMAIN head PROVE Fine(head[i])
    <3>1. CASE i <= k
      <4>1. i \in 1..k /\ i \in 1..Len(f.lines)
        BY <1>1, <2>4, <2>6, <3>1
      <4> QED
        BY <1>2, <2>4, <2>5, <2>6, <3>1, <4>1
    <3>2. CASE ~(i <= k)
      <4>1. i = k + 1 /\ i - k = 1
        BY <2>4, <2>6, <3>2
      <4>2. head[i] = rest
        BY <2>2, <2>5, <2>6, <3>2, <4>1
      <4> QED
        BY <2>3, <4>2
    <3> QED
      BY <3>1, <3>2
  <2> QED
    BY <2>7 DEF head, Fine
<1> QED
  BY <1>5, <1>6

\* UTF-8 is recognised, in a prefix known for one or where no character is cut.
LEMMA Utf8IsRecognised ==
  ASSUME NEW f \in File, Utf8(f.written), NEW p \in BOOLEAN, p \/ ~CutInside(f)
  PROVE  /\ Utf8(Decode(InHead(f), f.written, p))
         /\ Decode(InHead(f), f.written, p) = "utf-8-sig" => f.written = "utf-8-sig"
<1> DEFINE head == InHead(f)
<1>1. \A s \in Symbol : Readable(s, f.written, "utf-8")
  <2>1. Utf8("utf-8") /\ \A s \in Symbol : s # "half"
    BY SymbolAssumption DEF Utf8
  <2> QED
    BY <2>1 DEF Readable
<1>2. CASE p
  <2> DEFINE trimmed == Trimmed(head)
  <2>1. ASSUME NEW i \in DOMAIN head
        PROVE  \A j \in DOMAIN trimmed[i] : trimmed[i][j] \in Symbol
    <3> DEFINE line == head[i]
    <3>1. line \in Seq(RawSymbol) /\ \A j \in 1..(Len(line) - 1) : line[j] \in Symbol
      BY CutIsAtTheEnd
    <3>2. trimmed[i] = IF line # <<>> /\ Last(line) = "half" THEN Front(line) ELSE line
      BY DEF Trimmed
    <3> HIDE DEF line, trimmed
    <3>3. CASE line # <<>> /\ Last(line) = "half"
      <4> DEFINE n == Len(line) - 1
                 front == SubSeq(line, 1, n)
      <4>1. Len(line) \in Nat \ {0} /\ n \in Nat
        BY <3>1, <3>3, EmptySeq
      <4>2. front \in Seq(Symbol)
        <5> HIDE DEF n
        <5>1. \A j \in 1..n : line[j] \in Symbol
          BY <3>1 DEF n
        <5> QED BY <4>1, <5>1, SubSeqProperties
      <4>3. trimmed[i] = front
        BY <3>2, <3>3 DEF Front
      <4> HIDE DEF front
      <4> QED BY <4>2, <4>3
    <3>4. CASE line = <<>>
      <4>1. trimmed[i] = <<>>
        BY <3>2, <3>4
      <4> QED BY <4>1
    <3>5. CASE line # <<>> /\ Last(line) # "half"
      <4>1. Len(line) \in Nat \ {0} /\ DOMAIN line = 1..Len(line)
        BY <3>1, <3>5, EmptySeq
      <4>2. line[Len(line)] \in Symbol
        <5>1. line[Len(line)] \in RawSymbol
          BY <3>1, <4>1
        <5> QED BY <3>5, <5>1 DEF RawSymbol, Last
      <4>3. \A j \in 1..Len(line) : line[j] \in Symbol
        <5>1. \A m \in Nat : \A j \in 1..m : j = m \/ j \in 1..(m - 1)
          OBVIOUS
        <5>2. \A j \in 1..Len(line) : j = Len(line) \/ j \in 1..(Len(line) - 1)
          BY <4>1, <5>1
        <5> QED BY <3>1, <4>2, <5>2
      <4> QED BY <3>2, <3>5, <4>1, <4>3
    <3> QED BY <3>3, <3>4, <3>5
  <2>2. DOMAIN trimmed = DOMAIN head
    BY DEF Trimmed
  <2> HIDE DEF trimmed, head
  <2>3. Decodes(trimmed, f.written, "utf-8")
    BY <1>1, <2>1, <2>2 DEF Decodes
  <2> QED
    BY <1>2, <2>3 DEF Decode, Utf8, trimmed, head
<1>3. CASE ~p
  <2>1. \A i \in DOMAIN head : head[i] \in Seq(Symbol)
    BY <1>3, CutIsAtTheEnd
  <2>2. \A i \in DOMAIN head : \A j \in DOMAIN head[i] : head[i][j] \in Symbol
    <3> HIDE DEF head
    <3> QED BY <2>1
  <2> HIDE DEF head
  <2>3. Decodes(head, f.written, "utf-8")
    BY <1>1, <2>2 DEF Decodes
  <2> QED
    BY <2>3 DEF Decode, Utf8, head
<1> QED
  BY <1>2, <1>3

\* A file of which as much is known is decoded to what it is.
LEMMA FileIsKept ==
  ASSUME NEW f \in File, NEW p \in BOOLEAN, p \/ ~CutInside(f),
         NEW e, e = Decode(InHead(f), f.written, p)
  PROVE  ToUtf8(f.lines, f.written, e) = f.lines
<1>1. f.lines \in Seq(Seq(Symbol)) /\ f.written \in Written
  BY FileFacts
<1> DEFINE w == IF e = "utf-8" THEN "utf-8" ELSE f.written
<1>2. (w = "utf-8-sig" => e = "utf-8-sig") /\ (Utf8(e) \/ ~Utf8(w))
  <2>1. CASE Utf8(f.written)
    <3>1. Utf8(e)
      BY <2>1, Utf8IsRecognised
    <3> QED
      BY <3>1 DEF Utf8
  <2>2. CASE ~Utf8(f.written)
    BY <2>2 DEF Utf8
  <2> QED
    BY <2>1, <2>2
<1> HIDE DEF w
<1>3. Decoded(f.lines, w, e) = f.lines
  BY <1>1, <1>2, DecodedIsSame
<1> QED
  BY <1>3 DEF ToUtf8, w

LEMMA TextIsKept == IInv => EncodingsKeepTheText
<1> SUFFICES ASSUME IInv, outcome # Unset, IsTable(outcome), Delimited(file),
                    "encoding" \notin corrected, ~(client = "page" /\ CutInside(file))
             PROVE  \E layout \in [delimiter: ToSet(Candidates), has_header: BOOLEAN] :
                       outcome = Frame(file.lines, layout, FALSE)
  BY DEF EncodingsKeepTheText
<1>1. file \in File
  BY DEF IInv, Typed
<1>2. PICK d \in Dialect :
         /\ outcome = NormalizeText(file, d)
         /\ \E p \in BOOLEAN : /\ p \/ ~CutInside(file)
                               /\ d.encoding = Decode(InHead(file), file.written, p)
  BY OutcomeIsRead
<1>3. PICK p \in BOOLEAN : /\ p \/ ~CutInside(file)
                           /\ d.encoding = Decode(InHead(file), file.written, p)
  BY <1>2
<1>4. ToUtf8(file.lines, file.written, d.encoding) = file.lines
  BY <1>1, <1>3, FileIsKept
<1>5. outcome = Frame(ToUtf8(file.lines, file.written, d.encoding), d, FALSE)
  BY <1>1, <1>2, StoredIsRead
<1>6. outcome = Frame(file.lines, d, FALSE)
  BY <1>4, <1>5
<1> DEFINE layout == [delimiter |-> d.delimiter, has_header |-> d.has_header]
<1>7. /\ layout \in [delimiter: ToSet(Candidates), has_header: BOOLEAN]
      /\ layout.delimiter = d.delimiter /\ layout.has_header = d.has_header
  BY DEF Dialect
<1> HIDE DEF layout
<1>8. Frame(file.lines, layout, FALSE) = Frame(file.lines, d, FALSE)
  BY <1>7 DEF Frame
<1> QED
  BY <1>6, <1>7, <1>8

(* What is stored under an encoding nobody touched is the file as it was   *)
(* written, of whatever length and in whichever encoding, wherever the     *)
(* first megabyte ends; but for a page's slice that ends inside a          *)
(* character (EncodingsKeepTheText).                                       *)
THEOREM EncodingsKeepText == Spec => []EncodingsKeepTheText
BY InductiveInvariant, TextIsKept, PTL

-----------------------------------------------------------------------------
(* Lines that are not split.                                               *)

LEMMA ImageIsFinite ==
  ASSUME NEW S, IsFiniteSet(S), NEW f, DOMAIN f = S
  PROVE  IsFiniteSet({f[x] : x \in S})
<1> DEFINE R == {f[x] : x \in S}
           g == [x \in S |-> f[x]]
<1>1. g \in Surjection(S, R)
  BY DEF Surjection
<1>2. IsFiniteSet(R)
  <2> HIDE DEF R, g
  <2> QED BY <1>1, FS_Surjection
<1> QED
  BY <1>2

\* Cells that each hold a delimiter hold as many as there are cells.
LEMMA EachHoldsOne ==
  ASSUME NEW T, NEW cells, IsFiniteSet(DOMAIN cells), NEW c,
         \A i \in DOMAIN cells : cells[i] \in Seq(T) /\ At(cells[i], c) # {}
  PROVE  FullOf(c, cells)
<1> DEFINE D == DOMAIN cells
           pairs == [i \in D |-> {<<i, j>> : j \in {j \in DOMAIN cells[i] : cells[i][j] = c}}]
           all == UNION {pairs[i] : i \in D}
           one == [i \in D |-> <<i, CHOOSE j \in At(cells[i], c) : TRUE>>]
<1>1. ASSUME NEW i \in D PROVE IsFiniteSet(pairs[i])
  <2> DEFINE pair == [j \in At(cells[i], c) |-> <<i, j>>]
  <2>1. IsFiniteSet(At(cells[i], c))
    BY Places
  <2>2. pairs[i] = {pair[j] : j \in At(cells[i], c)}
    BY DEF At
  <2>3. DOMAIN pair = At(cells[i], c)
    OBVIOUS
  <2> HIDE DEF pair, pairs
  <2> QED
    BY <2>1, <2>2, <2>3, ImageIsFinite
<1>2. IsFiniteSet(all)
  <2>1. DOMAIN pairs = D
    OBVIOUS
  <2> HIDE DEF pairs
  <2>2. IsFiniteSet({pairs[i] : i \in D})
    BY <2>1, ImageIsFinite
  <2>3. \A P \in {pairs[i] : i \in D} : IsFiniteSet(P)
    BY <1>1
  <2> QED
    BY <2>2, <2>3, FS_UNION
<1>3. one \in Injection(D, all)
  <2>1. ASSUME NEW i \in D PROVE one[i] \in pairs[i]
    <3>1. (CHOOSE j \in At(cells[i], c) : TRUE) \in At(cells[i], c)
      OBVIOUS
    <3> QED
      BY <3>1 DEF At
  <2>2. \A i, k \in D : one[i] = one[k] => i = k
    OBVIOUS
  <2>3. one \in [D -> all]
    <3> HIDE DEF pairs
    <3>1. \A i \in D : one[i] \in all
      BY <2>1
    <3>2. one = [i \in D |-> one[i]]
      OBVIOUS
    <3> HIDE DEF one, all
    <3> QED BY <3>1, <3>2
  <2> HIDE DEF one, all, D
  <2> QED
    BY <2>2, <2>3 DEF Injection, IsInjective
<1>4. Cardinality(D) <= Cardinality(all)
  <2> HIDE DEF one, all, D
  <2> QED BY <1>2, <1>3, FS_Injection
<1>5. Count(cells, c) = Cardinality(all)
  <2>1. {{<<i, j>> : j \in {j \in DOMAIN cells[i] : cells[i][j] = c}} : i \in D}
           = {pairs[i] : i \in D}
    OBVIOUS
  <2> QED
    BY <2>1 DEF Count
<1>6. Cardinality(D) \in Nat /\ Cardinality(all) \in Nat
  <2> HIDE DEF all, D
  <2>1. IsFiniteSet(D)
    BY DEF D
  <2> QED BY <1>2, <2>1, FS_CardinalityType
<1> HIDE DEF all
<1> QED
  BY <1>4, <1>5, <1>6 DEF FullOf

\* A table of one column, read from lines that all hold another delimiter, is
\* full of it: its cells are those lines.
LEMMA LinesAreCells ==
  ASSUME NEW text \in Seq(Seq(TextSymbol)), text # <<>>,
         NEW d \in Dialect, d.has_header,
         NEW table, Holds(table, text, d), Len(table.names) = 1,
         NEW c \in Delimiter, \A i \in 1..Len(text) : At(text[i], c) # {}
  PROVE  Unsplit(table, d)
<1> DEFINE n == Len(text)
           first == Split(text[1], d.delimiter)
           m == Min({Len(table.rows), UNSPLIT_ROWS})
           rows == {i \in 1..m : table.rows[i][1] # Null}
           sample == Sample(table)
<1>1. n \in Nat \ {0} /\ \A i \in 1..n : text[i] \in Seq(TextSymbol)
  BY EmptySeq
<1>2. /\ Len(first) = 1 /\ table.names = Deduped(first) /\ Len(table.rows) = n - 1
      /\ Skipped(d) = 1
      /\ \A i \in 1..(n - 1) :
            LET row == Split(text[i + 1], d.delimiter)
            IN Len(row) <= 1 /\ table.rows[i] = Padded(row, 1)
  <2>1. Skipped(d) = 1
    BY DEF Skipped
  <2> QED
    BY <2>1 DEF Holds, HoldsRows
\* A line of one cell is its cell.
<1>3. ASSUME NEW i \in 1..n, Len(Split(text[i], d.delimiter)) <= 1
      PROVE  Split(text[i], d.delimiter) = <<text[i]>> /\ At(text[i], d.delimiter) = {}
  <2> DEFINE line == text[i]
  <2>1. line \in Seq(TextSymbol)
    BY <1>1
  <2>2. Cardinality(At(line, d.delimiter)) \in Nat
        /\ (Cardinality(At(line, d.delimiter)) = 0 <=> At(line, d.delimiter) = {})
    <3> HIDE DEF line
    <3> QED BY <2>1, Places
  <2>3. Len(Split(line, d.delimiter)) = Cardinality(At(line, d.delimiter)) + 1
        /\ (At(line, d.delimiter) = {} => Split(line, d.delimiter) = <<line>>)
    <3> HIDE DEF line
    <3> QED BY <2>1, SplitIsCells
  <2> QED
    BY <1>3, <2>2, <2>3
<1>4. 1 \in 1..n /\ first = <<text[1]>> /\ At(text[1], d.delimiter) = {}
  <2>1. 1 \in 1..n
    BY <1>1
  <2>2. Len(Split(text[1], d.delimiter)) <= 1
    <3>1. Len(first) <= 1
      <4> HIDE DEF first
      <4> QED BY <1>2
    <3> QED BY <3>1
  <2> QED
    BY <1>3, <2>1, <2>2
<1>5. c # d.delimiter
  BY <1>4
<1>6. table.names[1] = text[1]
  <2>1. first \in Seq(Seq(TextSymbol)) /\ first # <<>> /\ first[1] = text[1]
    <3>1. <<text[1]>> \in Seq(Seq(TextSymbol)) /\ <<text[1]>> # <<>> /\ <<text[1]>>[1] = text[1]
      BY <1>1
    <3> HIDE DEF first
    <3> QED BY <1>4, <3>1
  <2> HIDE DEF first
  <2>2. Deduped(first)[1] = first[1]
    BY <2>1, DedupedIsInjective
  <2> QED
    BY <1>2, <2>1, <2>2
<1>7. m \in Nat /\ m <= n - 1
  <2>1. Len(table.rows) \in Nat /\ UNSPLIT_ROWS \in Nat
    BY <1>1, <1>2, BoundAssumption
  <2>2. m \in Nat /\ m = IF Len(table.rows) <= UNSPLIT_ROWS THEN Len(table.rows)
                          ELSE UNSPLIT_ROWS
    BY <2>1, MinOfTwo
  <2> HIDE DEF m
  <2> QED
    BY <1>2, <2>1, <2>2
<1>8. rows \in SUBSET (1..m) /\ IsFiniteSet(rows) /\ 0 \notin rows
  <2>1. rows \in SUBSET (1..m)
    OBVIOUS
  <2> HIDE DEF rows, m
  <2>2. IsFiniteSet(1..m)
    BY <1>7, FS_Interval
  <2>3. 0 \notin 1..m
    BY <1>7
  <2>4. IsFiniteSet(rows)
    BY <2>1, <2>2, FS_Subset
  <2> QED
    BY <2>1, <2>3, <2>4
<1>9. ASSUME NEW i \in rows PROVE table.rows[i][1] = text[i + 1] /\ i + 1 \in 1..n
  <2>1. i \in 1..(n - 1) /\ i + 1 \in 1..n /\ table.rows[i][1] # Null
    BY <1>1, <1>7, <1>8
  <2> DEFINE row == Split(text[i + 1], d.delimiter)
  <2>2. Len(row) <= 1 /\ table.rows[i] = Padded(row, 1)
    BY <1>2, <2>1
  <2>3. row = <<text[i + 1]>>
    BY <1>3, <2>1, <2>2
  <2>4. Len(row) = 1 /\ row[1] = text[i + 1]
    <3> HIDE DEF row
    <3> QED BY <2>3
  <2> HIDE DEF row
  <2>5. table.rows[i][1] \in {row[1], Null}
    BY <2>2 DEF Padded
  <2> QED
    BY <2>1, <2>4, <2>5
<1>10. sample = [i \in {0} \cup rows |-> IF i = 0 THEN table.names[1] ELSE table.rows[i][1]]
  BY DEF Sample
<1>11. DOMAIN sample = {0} \cup rows /\ IsFiniteSet(DOMAIN sample)
  <2> HIDE DEF rows
  <2>1. DOMAIN sample = {0} \cup rows
    BY <1>10
  <2>2. IsFiniteSet({0})
    BY FS_Singleton
  <2> QED
    BY <1>8, <2>1, <2>2, FS_Union
<1>12. ASSUME NEW i \in DOMAIN sample
       PROVE  sample[i] \in Seq(TextSymbol) /\ At(sample[i], c) # {}
  <2>1. CASE i = 0
    <3>1. sample[i] = text[1]
      <4> HIDE DEF rows
      <4> QED BY <1>6, <1>10, <1>11, <2>1
    <3> HIDE DEF sample
    <3> QED
      BY <1>1, <1>4, <3>1
  <2>2. CASE i # 0
    <3>1. i \in rows /\ sample[i] = table.rows[i][1]
      <4> HIDE DEF rows
      <4> QED BY <1>10, <1>11, <2>2
    <3>2. sample[i] = text[i + 1] /\ i + 1 \in 1..n
      <4> HIDE DEF rows, sample
      <4> QED BY <1>9, <3>1
    <3> HIDE DEF sample
    <3> QED
      BY <1>1, <3>2
  <2> QED
    BY <2>1, <2>2
<1>13. FullOf(c, sample)
  <2> HIDE DEF sample
  <2> QED BY <1>11, <1>12, EachHoldsOne
<1> QED
  BY <1>5, <1>13 DEF Unsplit, Delimiter

LEMMA LinesAreSplit == IInv => UnsplitLinesAreRefused
<1> SUFFICES ASSUME IInv, outcome # Unset, IsTable(outcome), Delimited(file),
                    form.has_header = TRUE, NEW c \in ToSet(Candidates),
                    \A i \in DOMAIN file.lines : c \in ToSet(file.lines[i])
             PROVE  Len(outcome.names) > 1
  BY DEF UnsplitLinesAreRefused
<1>1. file \in File
  BY DEF IInv, Typed
<1>2. PICK d \in Dialect : outcome = NormalizeText(file, d) /\ d.has_header = TRUE
  BY OutcomeIsRead
<1> DEFINE text == ToUtf8(file.lines, file.written, d.encoding)
<1>3. /\ outcome = Strict(text, d) /\ ~Unsplit(outcome, d)
  <2>1. NormalizeText(file, d) = Frame(text, d, FALSE)
        /\ ~Unsplit(Frame(text, d, FALSE), d)
    BY <1>1, <1>2, StoredIsRead
  <2> QED
    BY <1>2, <2>1 DEF Strict
<1>4. /\ text \in Seq(Seq(TextSymbol)) /\ text # <<>> /\ Len(text) = Len(file.lines)
      /\ \A i \in 1..Len(file.lines), k \in Delimiter :
            Cardinality(At(text[i], k)) = Cardinality(At(file.lines[i], k))
  BY <1>1, TextOf
<1> HIDE DEF text
<1>5. Holds(outcome, text, d)
  <2>1. d.has_header \in BOOLEAN
    BY <1>2
  <2> QED
    BY <1>3, <1>4, <2>1, FrameIsTable
<1>6. ASSUME NEW i \in 1..Len(text) PROVE At(text[i], c) # {}
  <2>1. file.lines[i] \in Seq(Symbol) /\ text[i] \in Seq(TextSymbol) /\ i \in DOMAIN file.lines
    BY <1>1, <1>4, FileFacts
  <2>2. At(file.lines[i], c) # {}
    BY <2>1 DEF At, ToSet
  <2>3. Cardinality(At(file.lines[i], c)) # 0
    BY <2>1, <2>2, Places
  <2>4. Cardinality(At(text[i], c)) # 0
    BY <1>4, <2>3 DEF Delimiter
  <2>5. Cardinality(At(text[i], c)) = 0 <=> At(text[i], c) = {}
    BY <2>1, Places
  <2> QED
    BY <2>4, <2>5
<1>7. Len(outcome.names) # 1
  BY <1>2, <1>3, <1>4, <1>5, <1>6, LinesAreCells DEF Delimiter
<1>8. Len(outcome.names) \in Nat \ {0}
  BY <1>5 DEF Holds, HoldsRows
<1>9. \A m \in Nat \ {0} : m # 1 => m > 1
  OBVIOUS
<1> QED
  BY <1>7, <1>8, <1>9

(* With a header asked for, lines that all hold a delimiter are never      *)
(* stored as one column of themselves (UnsplitLinesAreRefused).            *)
THEOREM UnsplitLinesRefused == Spec => []UnsplitLinesAreRefused
BY InductiveInvariant, LinesAreSplit, PTL

-----------------------------------------------------------------------------
(* Previews.                                                               *)

\* The strict reader of a preview and the streaming one of a commit agree:
\* what the first accepts, the second stores, and answers for nothing early.
LEMMA StrictIsStored ==
  ASSUME NEW f \in File, NEW d \in Dialect,
         NEW text, text = ToUtf8(f.lines, f.written, d.encoding),
         NEW table, table = Strict(text, d), IsTable(table),
         Decodes(f.lines, f.written, d.encoding),
         UniqueNames(table), ~Unsplit(table, d), ~(Len(table.rows) > MAX_ROWS)
  PROVE  NormalizeText(f, d) = table
<1> DEFINE n == Len(f.lines)
           few == UNSPLIT_ROWS + (IF d.has_header THEN 1 ELSE 0)
           m == Min({n, few})
           early == SubSeq(f.lines, 1, m)
           Unread(lines) == ~Decodes(lines, f.written, d.encoding)
           single == Len(Split(f.lines[1], d.delimiter)) = 1
           width == Len(Split(text[1], d.delimiter))
<1>1. /\ text \in Seq(Seq(TextSymbol)) /\ text # <<>> /\ Len(text) = n
      /\ \A i \in 1..n, c \in Delimiter :
            Cardinality(At(text[i], c)) = Cardinality(At(f.lines[i], c))
      /\ n \in Nat \ {0} /\ f.lines \in Seq(Seq(Symbol)) /\ d.delimiter \in Delimiter
      /\ d.has_header \in BOOLEAN
  <2>1. n \in Nat \ {0} /\ f.lines \in Seq(Seq(Symbol))
    BY FileFacts
  <2>2. d.delimiter \in Delimiter /\ d.has_header \in BOOLEAN
    BY DEF Dialect, Delimiter
  <2>3. /\ text \in Seq(Seq(TextSymbol)) /\ text # <<>> /\ Len(text) = n
        /\ \A i \in 1..n, c \in Delimiter :
              Cardinality(At(text[i], c)) = Cardinality(At(f.lines[i], c))
    BY TextOf
  <2> QED
    BY <2>1, <2>2, <2>3
<1>2. Holds(table, text, d)
  BY <1>1, FrameIsTable
<1>3. ASSUME NEW i \in 1..n
      PROVE  /\ Len(Split(f.lines[i], d.delimiter)) = Len(Split(text[i], d.delimiter))
             /\ Len(Split(text[i], d.delimiter)) <= width
  <2> DEFINE line == f.lines[i]
             read == text[i]
  <2>1. line \in Seq(Symbol) /\ read \in Seq(TextSymbol)
        /\ Cardinality(At(read, d.delimiter)) = Cardinality(At(line, d.delimiter))
    BY <1>1
  <2>2. Len(Split(line, d.delimiter)) = Cardinality(At(line, d.delimiter)) + 1
        /\ Len(Split(read, d.delimiter)) = Cardinality(At(read, d.delimiter)) + 1
        /\ Cardinality(At(read, d.delimiter)) \in Nat
    <3> HIDE DEF line, read
    <3> QED BY <2>1, SplitIsCells, Places
  <2>3. Len(Split(text[i], d.delimiter)) <= width
    <3>1. Skipped(d) \in {0, 1} /\ (Skipped(d) = 1 <=> d.has_header)
      BY DEF Skipped
    <3>2. CASE i = 1
      BY <2>2, <3>2
    <3>3. CASE i # 1
      <4>1. i - Skipped(d) \in 1..(Len(text) - Skipped(d)) /\ (i - Skipped(d)) + Skipped(d) = i
        BY <1>1, <3>1, <3>3
      <4>2. \A k \in 1..(Len(text) - Skipped(d)) :
               Len(Split(text[k + Skipped(d)], d.delimiter)) <= width
        BY <1>2 DEF Holds, HoldsRows
      <4> HIDE DEF width
      <4> QED BY <4>1, <4>2
    <3> QED BY <3>2, <3>3
  <2> QED
    BY <2>1, <2>2, <2>3
<1>4. m \in Nat /\ m <= n
  <2>1. few \in Nat
    BY BoundAssumption
  <2> HIDE DEF few
  <2>2. m \in Nat /\ m = IF n <= few THEN n ELSE few
    BY <1>1, <2>1, MinOfTwo
  <2> HIDE DEF m
  <2> QED BY <1>1, <2>1, <2>2
<1>5. early \in Seq(Seq(Symbol)) /\ Len(early) = m /\ DOMAIN early = 1..m
      /\ \A i \in 1..m : early[i] = f.lines[i] /\ i \in 1..n
  <2> HIDE DEF m, n
  <2>1. \A i \in 1..m : f.lines[i] \in Seq(Symbol) /\ i \in 1..n
    BY <1>1, <1>4 DEF n
  <2>2. /\ early \in Seq(Seq(Symbol))
        /\ Len(early) = (IF 1 <= m THEN m - 1 + 1 ELSE 0)
        /\ \A i \in 1..m - 1 + 1 : early[i] = f.lines[1 + i - 1]
    BY <1>4, <2>1, SubSeqProperties
  <2> HIDE DEF early
  <2>3. Len(early) = m
    BY <1>4, <2>2
  <2>4. \A i \in 1..m : i \in 1..m - 1 + 1 /\ 1 + i - 1 = i
    BY <1>4
  <2>5. \A i \in 1..m : early[i] = f.lines[i]
    BY <2>2, <2>4
  <2>6. DOMAIN early = 1..m
    BY <2>2, <2>3
  <2> QED
    BY <2>1, <2>2, <2>3, <2>5, <2>6
<1>6. \A i \in DOMAIN f.lines : \A j \in DOMAIN f.lines[i] :
         Readable(f.lines[i][j], f.written, d.encoding)
  BY DEF Decodes
<1>7. ~Unread(f.lines) /\ ~Unread(<<f.lines[1]>>) /\ ~Unread(early)
  <2>1. DOMAIN f.lines = 1..n
    BY <1>1
  <2>2. Decodes(<<f.lines[1]>>, f.written, d.encoding)
    <3>1. 1 \in DOMAIN f.lines
      BY <1>1, <2>1
    <3> QED BY <1>6, <3>1 DEF Decodes
  <2> HIDE DEF early, m, n
  <2>3. Decodes(early, f.written, d.encoding)
    BY <1>5, <1>6, <2>1 DEF Decodes
  <2> QED BY <2>2, <2>3
<1>8. ASSUME single PROVE Long(SplitAll(early, d.delimiter), 1) = {}
  <2>1. width = 1
    <3>1. 1 \in 1..n
      BY <1>1
    <3> QED BY <1>3, <1>8, <3>1
  <2>2. \A i \in 1..m : Len(Split(f.lines[i], d.delimiter)) <= 1
    <3> HIDE DEF width, m, n
    <3> QED BY <1>3, <1>5, <2>1
  <2>3. /\ DOMAIN SplitAll(early, d.delimiter) = 1..m
        /\ \A i \in 1..m : SplitAll(early, d.delimiter)[i] = Split(early[i], d.delimiter)
    <3> HIDE DEF early, m
    <3> QED BY <1>5, SplitAllIsRows
  <2>4. \A i \in 1..m : ~(Len(SplitAll(early, d.delimiter)[i]) > 1)
    <3>1. \A i \in 1..m : Len(Split(f.lines[i], d.delimiter)) \in Nat
      <4> HIDE DEF m, n, early
      <4>1. \A i \in 1..m : f.lines[i] \in Seq(Symbol)
        BY <1>1, <1>5 DEF n
      <4> QED BY <4>1, SplitIsCells, LenProperties
    <3>2. \A i \in 1..m :
             SplitAll(early, d.delimiter)[i] = Split(f.lines[i], d.delimiter)
      <4> HIDE DEF m, n, early
      <4> QED BY <1>5, <2>3
    <3>3. \A k \in Nat : k <= 1 => ~(k > 1)
      OBVIOUS
    <3> HIDE DEF m, n, early
    <3> QED BY <2>2, <3>1, <3>2, <3>3
  <2> HIDE DEF m, early
  <2> QED
    BY <2>3, <2>4 DEF Long
<1>9. table = Frame(ToUtf8(f.lines, f.written, d.encoding), d, FALSE)
  BY DEF Strict
<1>10. NormalizeText(f, d) =
         IF \/ d.encoding # "utf-8" /\ Unread(f.lines)
            \/ d.has_header /\ Unread(<<f.lines[1]>>)
            \/ single /\ (Unread(early) \/ Long(SplitAll(early, d.delimiter), 1) # {})
         THEN Failed
         ELSE IF \/ Unread(f.lines) \/ ~IsTable(table)
                 \/ ~UniqueNames(table) \/ Unsplit(table, d)
                 \/ Len(table.rows) > MAX_ROWS THEN Rejected
         ELSE table
  BY <1>9 DEF NormalizeText
<1> HIDE DEF Unread, early, single
<1> QED
  BY <1>7, <1>8, <1>10

\* The first rows are the first rows.
LEMMA ShownIsPrefix ==
  ASSUME NEW rows, Len(rows) \in Nat
  PROVE  IsPrefix(SubSeq(rows, 1, Min({Len(rows), PREVIEW_ROWS})), rows)
<1> DEFINE m == Min({Len(rows), PREVIEW_ROWS})
           S == {rows[i] : i \in 1..m}
           some == SubSeq(rows, 1, m)
<1>1. m \in Nat /\ m <= Len(rows)
  <2>1. PREVIEW_ROWS \in Nat
    BY BoundAssumption
  <2>2. m \in Nat /\ m = IF Len(rows) <= PREVIEW_ROWS THEN Len(rows) ELSE PREVIEW_ROWS
    BY <2>1, MinOfTwo
  <2> HIDE DEF m
  <2> QED BY <2>1, <2>2
<1>2. some \in Seq(S) /\ Len(some) = m
  <2>1. \A i \in 1..m : rows[i] \in S
    OBVIOUS
  <2> HIDE DEF m, S
  <2>2. some \in Seq(S) /\ Len(some) = IF 1 <= m THEN m - 1 + 1 ELSE 0
    BY <1>1, <2>1, SubSeqProperties
  <2> HIDE DEF some
  <2> QED BY <1>1, <2>2
<1>3. SubSeq(some, 1, Len(some)) = some /\ SubSeq(rows, 1, Len(some)) = some
  <2>1. SubSeq(some, 1, Len(some)) = some
    <3> HIDE DEF some
    <3> QED BY <1>2, SubSeqFull
  <2>2. SubSeq(rows, 1, Len(some)) = some
    BY <1>2
  <2> QED BY <2>1, <2>2
<1> HIDE DEF some
<1>4. IsPrefix(some, rows)
  BY <1>1, <1>2, <1>3 DEF IsPrefix
<1> QED
  BY <1>4 DEF some

\* An answer that passes the checks is a table with rows.
LEMMA CheckedIsTable ==
  ASSUME NEW answer, IsTable(Checked(answer))
  PROVE  /\ Checked(answer) = answer /\ IsTable(answer) /\ UniqueNames(answer)
         /\ Len(answer.rows) \in 1..MAX_ROWS
<1>1. ~IsTable(Rejected)
  BY DEF IsTable, Rejected
<1> QED
  BY <1>1 DEF Checked

LEMMA MergedIsDetected ==
  ASSUME IInv, NEW d \in Dialect, \A field \in Field : form[field] = d[field]
  PROVE  Merged(d) = d
<1>1. \A field \in Field : Merged(d)[field] = d[field]
  BY DEF Merged
<1>2. Merged(d) = [field \in Field |-> Merged(d)[field]]
  BY DEF Merged
<1>3. d = [field \in Field |-> d[field]]
  BY DEF Dialect, Field
<1> QED
  BY <1>1, <1>2, <1>3

\* What a whole file was shown as, and what a reading nobody touched makes of it.
Foretold(shown, stored) ==
    /\ IsTable(stored) <=> "trimmed" \notin shown.warnings
    /\ IsTable(stored) => shown.names = stored.names /\ IsPrefix(shown.rows, stored.rows)

LEMMA TrimmedIsNoted ==
  ASSUME NEW table, NEW d, NEW warnings
  PROVE  "trimmed" \in Shown(table, d, warnings \cup {"trimmed"}).warnings
BY DEF Shown

LEMMA ShownIsForetold ==
  ASSUME NEW table, NEW d, NEW warnings,
         IsTable(table), Len(table.rows) \in Nat, "trimmed" \notin warnings
  PROVE  Foretold(Shown(table, d, warnings), table)
<1>1. Shown(table, d, warnings).warnings = warnings
  BY ShownFields
<1>2. /\ Shown(table, d, warnings).names = table.names
      /\ Shown(table, d, warnings).rows =
            SubSeq(table.rows, 1, Min({Len(table.rows), PREVIEW_ROWS}))
  BY ShownRows
<1>3. IsPrefix(SubSeq(table.rows, 1, Min({Len(table.rows), PREVIEW_ROWS})), table.rows)
  BY ShownIsPrefix
<1> QED
  BY <1>1, <1>2, <1>3 DEF Foretold

LEMMA OwnIsForetold ==
  ASSUME NEW f \in File, Build(f, FALSE).is = "shown", ~Delimited(f)
  PROVE  Foretold(Build(f, FALSE), NormalizeOwn(f)) /\ Sniffed(f)
<1>1. Rejected.is # "shown"
  BY DEF Rejected
<1>2. /\ Sniffed(f) /\ IsTable(Checked(ReadOwn(f)))
      /\ Build(f, FALSE) = Shown(ReadOwn(f), Unset, {})
  BY <1>1 DEF Build, PreviewOwn
<1>3. /\ IsTable(ReadOwn(f)) /\ UniqueNames(ReadOwn(f))
      /\ Len(ReadOwn(f).rows) \in 1..MAX_ROWS
  BY <1>2, CheckedIsTable
<1>4. ReadOwn(f) = OwnTable(f)
  <2>1. ~IsTable(Rejected)
    BY DEF IsTable, Rejected
  <2> QED
    BY <1>3, <2>1 DEF ReadOwn
<1>5. NormalizeOwn(f) = ReadOwn(f)
  <2>1. MAX_ROWS \in Nat
    BY BoundAssumption
  <2>2. Len(OwnTable(f).rows) <= MAX_ROWS
    BY <1>3, <1>4, <2>1
  <2> QED
    BY <1>3, <1>4, <2>2 DEF NormalizeOwn
<1>6. Len(ReadOwn(f).rows) \in Nat
  BY <1>3
<1>7. Foretold(Shown(ReadOwn(f), Unset, {}), ReadOwn(f))
  BY <1>3, <1>6, ShownIsForetold
<1> QED
  BY <1>2, <1>5, <1>7

LEMMA TextIsForetold ==
  ASSUME NEW f \in File, Whole(f), Len(f.lines) # 1, Delimited(f),
         Build(f, FALSE).is = "shown",
         NEW d, d = Detected(f, FALSE).dialect
  PROVE  /\ Foretold(Build(f, FALSE), NormalizeText(f, d))
         /\ Sniffed(f) /\ Kept(f, FALSE) # <<>>
<1> DEFINE found == Detected(f, FALSE)
           text == ToUtf8(f.lines, f.written, d.encoding)
           table == Strict(text, d)
           read == ReadDelimited(f.lines, f.written, d)
           exact == Checked(read)
           lenient == Lenient(f.lines, f.written, d)
           warnings == (IF found.sure THEN {} ELSE {"ragged"}) \cup {}
<1>1. Rejected.is # "shown" /\ Failed.is # "shown" /\ ~IsTable(Rejected) /\ ~IsTable(Failed)
  BY DEF Rejected, Failed, IsTable
<1>2. d \in Dialect /\ InHead(f) = f.lines
  BY DetectedIsDialect, CutIsText
<1>3. Sniffed(f) /\ Build(f, FALSE) = PreviewText(f, FALSE)
  BY <1>1 DEF Build
<1>4. PreviewText(f, FALSE) =
         IF Kept(f, FALSE) = <<>> THEN Rejected
         ELSE IF IsTable(exact) THEN Shown(exact, d, warnings)
         ELSE IF IsTable(lenient) THEN Shown(lenient, d, warnings \cup {"trimmed"})
         ELSE lenient
  BY <1>2 DEF PreviewText
<1>5. Kept(f, FALSE) # <<>>
  BY <1>1, <1>3, <1>4
<1>6. ~IsTable(lenient) => lenient.is # "shown"
  BY <1>1 DEF Lenient, Frame, IsTable, Table
<1>7. read = IF \/ ~Decodes(f.lines, f.written, d.encoding)
                \/ ~IsTable(table) \/ Unsplit(table, d)
             THEN Rejected ELSE table
  BY DEF ReadDelimited, Strict
<1>8. "trimmed" \notin warnings
  OBVIOUS
<1>9. MAX_ROWS \in Nat
  BY BoundAssumption
<1> HIDE DEF lenient, warnings, found
<1>10. CASE IsTable(exact)
  <2>1. /\ exact = read /\ IsTable(read) /\ UniqueNames(read)
        /\ Len(read.rows) \in 1..MAX_ROWS
    <3> HIDE DEF read
    <3> QED BY <1>10, CheckedIsTable
  <2>2. /\ read = table /\ IsTable(table) /\ ~Unsplit(table, d) /\ UniqueNames(table)
        /\ Decodes(f.lines, f.written, d.encoding)
    <3> HIDE DEF read, table
    <3> QED BY <1>1, <1>7, <2>1
  <2>3. Len(table.rows) \in Nat /\ ~(Len(table.rows) > MAX_ROWS)
    <3> HIDE DEF read, table
    <3> QED BY <1>9, <2>1, <2>2
  <2>4. NormalizeText(f, d) = table
    <3>1. text = ToUtf8(f.lines, f.written, d.encoding) /\ table = Strict(text, d)
      OBVIOUS
    <3> HIDE DEF table, text, read
    <3> QED BY <1>2, <2>2, <2>3, <3>1, StrictIsStored
  <2>5. Build(f, FALSE) = Shown(table, d, warnings)
    <3> HIDE DEF table, read
    <3>1. exact = table
      BY <2>1, <2>2
    <3> HIDE DEF exact
    <3> QED BY <1>3, <1>4, <1>5, <1>10, <3>1
  <2> HIDE DEF table
  <2>6. Foretold(Shown(table, d, warnings), table)
    BY <1>8, <2>2, <2>3, ShownIsForetold
  <2> QED
    BY <1>3, <1>5, <2>4, <2>5, <2>6
<1>11. CASE ~IsTable(exact)
  <2>1. Build(f, FALSE) = Shown(lenient, d, warnings \cup {"trimmed"})
    <3> HIDE DEF exact
    <3> QED BY <1>1, <1>3, <1>4, <1>5, <1>6, <1>11
  <2>2. "trimmed" \in Build(f, FALSE).warnings
    <3>1. "trimmed" \in Shown(lenient, d, warnings \cup {"trimmed"}).warnings
      BY TrimmedIsNoted
    <3> QED BY <2>1, <3>1
  <2>3. ASSUME IsTable(NormalizeText(f, d)) PROVE FALSE
    <3>1. /\ IsTable(table) /\ Decodes(f.lines, f.written, d.encoding) /\ UniqueNames(table)
          /\ ~Unsplit(table, d) /\ ~(Len(table.rows) > MAX_ROWS)
      <4>1. table = Frame(ToUtf8(f.lines, f.written, d.encoding), d, FALSE)
        BY DEF Strict
      <4> HIDE DEF table
      <4> QED BY <1>2, <2>3, <4>1, StoredIsRead
    <3>2. Holds(table, text, d) /\ Len(text) = Len(f.lines) /\ Len(f.lines) \in Nat \ {0}
      <4>1. Len(text) = Len(f.lines) /\ Len(f.lines) \in Nat \ {0}
        BY TextOf
      <4>2. text = ToUtf8(f.lines, f.written, d.encoding) /\ table = Strict(text, d)
        OBVIOUS
      <4> HIDE DEF text, table
      <4>3. Holds(table, text, d)
        BY <1>2, <3>1, <4>2, TextIsHeld
      <4> QED BY <4>1, <4>3
    <3>3. Len(table.rows) \in 1..MAX_ROWS
      <4>1. Len(table.rows) = Len(f.lines) - Skipped(d)
        <5> HIDE DEF table, text
        <5> QED BY <3>2 DEF Holds, HoldsRows
      <4>2. Skipped(d) \in {0, 1}
        BY DEF Skipped
      <4> DEFINE r == Len(table.rows)
      <4>3. r \in Nat \ {0}
        <5>1. \A n \in Nat \ {0} : n # 1 => n - 1 \in Nat \ {0} /\ n - 0 \in Nat \ {0}
          OBVIOUS
        <5> HIDE DEF table, text
        <5>2. Len(f.lines) - Skipped(d) \in Nat \ {0}
          BY <3>2, <4>2, <5>1
        <5> QED BY <4>1, <5>2
      <4>4. ~(r > MAX_ROWS)
        BY <3>1
      <4> HIDE DEF r
      <4>5. r \in 1..MAX_ROWS
        BY <1>9, <4>3, <4>4
      <4> QED BY <4>5 DEF r
    <3> HIDE DEF table
    <3>4. read = table
      <4> HIDE DEF read
      <4> QED BY <1>7, <3>1
    <3> HIDE DEF read
    <3>5. exact = read
      BY <3>1, <3>3, <3>4 DEF Checked
    <3> HIDE DEF exact
    <3> QED BY <1>11, <3>1, <3>4, <3>5
  <2> QED
    BY <1>3, <1>5, <2>2, <2>3 DEF Foretold
<1> QED
  BY <1>10, <1>11

LEMMA PreviewHolds == IInv => PreviewForetells
<1> SUFFICES ASSUME IInv, Confirmed, Whole(file), ~HeaderAlone
             PROVE  Foretold(preview, outcome)
  BY DEF PreviewForetells, Foretold
<1>1. file \in File /\ client = "page" /\ corrected = {} /\ outcome # Unset
  BY DEF IInv, Typed, Confirmed
<1>2. /\ preview = Build(file, FALSE) /\ Build(file, FALSE).is = "shown"
      /\ outcome = Commit(file)
      /\ Delimited(file) => \A field \in Field : form[field] = preview.dialect[field]
  BY <1>1 DEF IInv, Proposed, Answered
<1>3. ~Whole(file) = FALSE
  OBVIOUS
<1>4. CASE ~Delimited(file)
  <2>1. Foretold(Build(file, FALSE), NormalizeOwn(file)) /\ Sniffed(file)
    BY <1>1, <1>2, <1>4, OwnIsForetold
  <2>2. Commit(file) = NormalizeOwn(file)
    BY <1>4, <2>1 DEF Commit
  <2> QED
    BY <1>2, <2>1, <2>2
<1>5. CASE Delimited(file)
  <2> DEFINE d == Detected(file, FALSE).dialect
  <2>1. d \in Dialect
    BY <1>1, DetectedIsDialect
  <2>2. preview.dialect = d
    BY <1>1, <1>2, <1>5, BuiltDialect
  <2>3. Merged(d) = d
    <3> HIDE DEF d
    <3> QED BY <1>2, <1>5, <2>1, <2>2, MergedIsDetected
  <2>4. /\ Foretold(Build(file, FALSE), NormalizeText(file, d))
        /\ Sniffed(file) /\ Kept(file, FALSE) # <<>>
    <3>1. d = Detected(file, FALSE).dialect /\ Len(file.lines) # 1
      BY DEF HeaderAlone
    <3> HIDE DEF d
    <3> QED BY <1>1, <1>2, <1>5, <3>1, TextIsForetold
  <2>5. Commit(file) = NormalizeText(file, Merged(d))
    BY <1>3, <1>5, <2>4 DEF Commit
  <2> HIDE DEF d
  <2> QED
    BY <1>2, <2>3, <2>4, <2>5
<1> QED
  BY <1>4, <1>5

(* Who confirms the preview of a whole file gets the columns and the first *)
(* rows it showed, or, if rows were trimmed to show them, a refusal        *)
(* (PreviewForetells).                                                     *)
THEOREM PreviewIsKept == Spec => []PreviewForetells
BY InductiveInvariant, PreviewHolds, PTL
=============================================================================
