------------------------------ MODULE MCTables ------------------------------
(* Instances of Tables for TLC: a category and a number per record.        *)
EXTENDS Tables

MCWord == STRING
MCBaseName == <<<<"g">>, <<"x">>>>
MCBaseType == <<"categorical", "numerical">>
MCData == {
    << <<1, 0>>, <<1, 2>>, <<2, 0>>, <<NoValue, 2>> >>,
    << <<1, 2>>, <<2, 0>>, <<2, NoValue>> >> }
MCNewName == {<<"g">>, <<"count">>}
=============================================================================
