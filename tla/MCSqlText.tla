----------------------------- MODULE MCSqlText -----------------------------
(* Three keyboards: comments and quotes around parameters, the quotes of   *)
(* MySQL and PostgreSQL around parameters, and statements.                 *)
EXTENDS SqlText

MCLetters    == {"a", "e", "SELECT", "UPDATE", "WHERE"}
MCDigits     == {"1"}
MCKeywords   == {"SELECT", "UPDATE", "WHERE"}
MCWriteWords == {"UPDATE"}
MCValues     == {<<"'", "a", "'", "'", ":", "a", "'">>, <<"-", "1">>}
MCKeyboards  == {
    {<<"-", "-">>, <<"/", "*">>, <<"*", "/">>, <<"'">>, <<"1">>, <<"e">>,
     <<":">>, <<":", "a">>, <<" ">>, <<"\n">>, <<"backslash">>},
    {<<"$">>, <<"$", "a", "$">>, <<"backtick">>, <<"\"">>, <<"'">>, <<":">>, <<":", "a">>, <<" ">>, <<"1">>},
    {<<"UPDATE">>, <<"SELECT">>, <<"WHERE">>, <<" ">>, <<"semicolon">>, <<"\n">>, <<"-", "-">>, <<"/", "*">>, <<"*", "/">>}}
============================================================================
