--------------------------- MODULE MCStoredFiles ---------------------------
(***************************************************************************)
(* StoredFiles for TLC: handlers and contents are interchangeable.          *)
(***************************************************************************)
EXTENDS StoredFiles, TLC

Interchangeable == Permutations(Request) \cup Permutations(Content)
=============================================================================
