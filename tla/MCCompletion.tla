---------------------------- MODULE MCCompletion ----------------------------
(* Two tables that share a column, queries with and without a FROM clause, *)
(* and joins with both forms of alias.                                     *)
EXTENDS Completion

MCKeywordSet == {"SELECT", "FROM", "JOIN", "WHERE", "ON", "AS", "IS", "NULL", "ORDER", "BY"}
MCIdentChars == MCKeywordSet \cup {"us", "ers", "or", "na", "x", "o", "u"}
MCSymbols    == MCIdentChars \cup {" ", ",", ".", "=", "'"}
MCSqlWords   == {<<kw>> : kw \in MCKeywordSet} \cup JoinKeywords
MCTables     == <<[name |-> <<"us", "ers">>, columns |-> <<<<"na">>, <<"x">>>>],
                  [name |-> <<"or", "ers">>, columns |-> <<<<"na">>>>]>>
MCKeywordList == <<<<"FROM">>, <<"WHERE">>, <<"IS", " ", "NULL">>>>
MCNextClauses == <<<<"WHERE">>, <<"ORDER", " ", "BY">>>>
MCOperators   == <<<<"=">>, <<"IS", " ", "NULL">>>>
MCKeys   == {<<" ">>, <<".">>, <<",">>, <<"us">>, <<"x">>, <<"=">>}
MCStarts == {
    <<"SELECT", " ", "na", " ", "us">>,
    <<"SELECT", " ", "x", "na", " ", "us">>,
    <<"SELECT", " ", "x", " ", "FROM", " ", "us", "ers", " ", "WHERE", " ", "na">>,
    <<"FROM", " ", "or", "ers", " ", "o", " ", "JOIN", " ", "us">>,
    <<"FROM", " ", "us", "ers", " ", "u", " ", "JOIN", " ", "or", "ers", " ", "AS", " ", "o", " ", "ON", " ">>}
=============================================================================
