------------------------- MODULE MCProjectLifecycle -------------------------
(***************************************************************************)
(* ProjectLifecycle for TLC: threads, keys and codes are interchangeable.   *)
(***************************************************************************)
EXTENDS ProjectLifecycle, TLC

Interchangeable ==
    Permutations(Thread) \cup Permutations(Key) \cup Permutations(Code)
=============================================================================
