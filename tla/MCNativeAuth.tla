---------------------------- MODULE MCNativeAuth ----------------------------
(***************************************************************************)
(* NativeAuth for TLC: threads are interchangeable.                         *)
(***************************************************************************)
EXTENDS NativeAuth, TLC

Interchangeable == Permutations(Thread)
=============================================================================
