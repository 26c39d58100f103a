----------------------------- MODULE MCGridRows -----------------------------
(* A column of numbers and other texts, and one of everything an export    *)
(* has to quote; three rows for a tie, a NULL and a value to meet.         *)
EXTENDS GridRows

MCNames  == <<<<"n">>, <<"t", "\"">>>>
MCTableName  == <<"\"", "t">>
MCByte   == [x \in {"\n", "\"", "'", ",", "0", "1", "2", "=", "A"} |->
                CASE x = "\n" -> 10 [] x = "\"" -> 34 [] x = "'" -> 39 [] x = "," -> 44
                  [] x = "0" -> 48 [] x = "1" -> 49 [] x = "2" -> 50 [] x = "=" -> 61 [] x = "A" -> 65]
MCLower  == [x \in {"A", "N"} |-> IF x = "A" THEN "a" ELSE "n"]
MCNumber == [t \in {<<"2">>, <<"1", "0">>} |-> IF t = <<"2">> THEN 2 ELSE 10]
MCCells  == <<{NULL, <<"2">>, <<"1", "0">>, <<"1", "A">>},
              {NULL, <<>>, <<"'", "A">>, <<"=", "\"">>, <<",", "\n">>}>>
MCTyped == {<<"N", "=", "'", "2", "'">>, <<" ", "1">>, <<"a">>, <<"=">>}
=============================================================================
