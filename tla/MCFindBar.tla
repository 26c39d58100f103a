----------------------------- MODULE MCFindBar -----------------------------
(* Texts with adjacent, overlapping and no matches; a replacement that     *)
(* holds a query and one that is empty; two terms to browse.                *)
EXTENDS FindBar

CONSTANTS a, b

MCTexts        == {<<a, a, a>>, <<b, a>>}
MCQueries      == {<<>>, <<a>>, <<a, a>>}
MCReplacements == {<<>>, <<b, a>>}
=============================================================================
