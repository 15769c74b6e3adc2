--------------------------- MODULE MCVisualEdits ---------------------------
(***************************************************************************)
(* VisualEdits for TLC.  Threads and workers are interchangeable.           *)
(***************************************************************************)
EXTENDS VisualEdits, TLC

Interchangeable == Permutations(Thread) \cup Permutations(Worker)
=============================================================================
