----------------------------- MODULE MCColumns -----------------------------
(* Instances of Columns for TLC: a small alphabet of texts, every short    *)
(* column over it and the pairs of columns that reports compare.           *)
EXTENDS Columns

T(shape, at, says, rank, length, words) ==
    [shape |-> shape, at |-> at, says |-> says, rank |-> rank, length |-> length, words |-> words]

minus  == T("integer", -8, "neither", 1, 2, <<8>>)         \* -8
zero   == T("integer", 0, "false", 2, 1, <<0>>)            \* 0
one    == T("integer", 1, "true", 3, 1, <<1>>)             \* 1
point  == T("decimal", 1, "neither", 4, 3, <<1, 0>>)       \* 1.0
first  == T("date", 0, "neither", 5, 10, <<20, 1, 1>>)     \* a day
dawn   == T("datetime", 0, "neither", 6, 16, <<20, 1, 1, 0>>)  \* its midnight
later  == T("datetime", 9, "neither", 7, 16, <<20, 2, 3, 1>>)  \* an hour, a month on
never  == T("no such date", 0, "neither", 8, 10, <<20, 2, 30>>)  \* the 30th of February
blue   == T("word", 0, "neither", 9, 4, <<40>>)
blues  == T("word", 0, "neither", 10, 14, <<40, 41, 40>>)
no     == T("truth", 0, "false", 11, 2, <<50>>)
yes    == T("truth", 0, "true", 12, 3, <<51>>)

MCText == {minus, zero, one, point, first, dawn, later, never, blue, blues, no, yes}

Plain(t) == [text |-> t, padded |-> FALSE]
Spaced(t) == [text |-> t, padded |-> TRUE]
Alphabet == <<Null, Blank, Plain(minus), Plain(zero), Plain(one), Plain(point), Plain(first),
              Plain(dawn), Plain(later), Plain(never), Plain(blue), Spaced(blue),
              Plain(blues), Plain(no), Plain(yes)>>

Letters == DOMAIN Alphabet
Spell(word) == <<[i \in DOMAIN word |-> Alphabet[word[i]]]>>
Ordered(n, letters) ==
    {w \in [1..n -> letters] : \A i \in 2..n : w[i - 1] <= w[i]}
Single == {Spell(w) : w \in [1..1 -> Letters] \cup [1..2 -> Letters] \cup Ordered(3, Letters)}
Four == {Spell(w) : w \in Ordered(4, {2, 3, 4, 5, 7, 9, 11, 12, 14})}
Five == {Spell(w) : w \in Ordered(5, {3, 4, 5, 6, 9})}
Many == {Spell(InOrder(s, <)) : s \in kSubset(5, Letters \ {1, 2, 8, 9, 10, 12, 14})}

Left == <<Null, Plain(blue), Spaced(blue), Plain(one), Plain(yes)>>
Right == <<Blank, Plain(no)>>
Pairs ==
    LET Table(w) == <<[i \in DOMAIN w |-> Left[(w[i] % 5) + 1]],
                      [i \in DOMAIN w |-> Right[(w[i] \div 5) + 1]]>>
    IN {Table(w) : w \in Ordered(3, 0..9)}

MCFiles == Single \cup Four \cup Five \cup Many \cup Pairs
=============================================================================
