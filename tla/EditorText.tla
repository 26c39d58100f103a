----------------------------- MODULE EditorText -----------------------------
(***************************************************************************)
(* The text of the editor and what the modules that read it share.         *)
(***************************************************************************)
EXTENDS Lists

VARIABLE text \* UiState.editor-text

(* The character at i, "" where there is none.                             *)
At(t, i) == IF i \in 1 .. Len(t) THEN t[i] ELSE ""
=============================================================================
