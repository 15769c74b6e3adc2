--------------------------- MODULE MCChatThreads ---------------------------
(***************************************************************************)
(* ChatThreads for TLC: handlers are interchangeable.                       *)
(***************************************************************************)
EXTENDS ChatThreads, TLC

Interchangeable == Permutations(Handler)
=============================================================================
