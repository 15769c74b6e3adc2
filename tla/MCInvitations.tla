---------------------------- MODULE MCInvitations ----------------------------
(***************************************************************************)
(* Invitations for TLC: threads and addresses are interchangeable.          *)
(***************************************************************************)
EXTENDS Invitations, TLC

Interchangeable == Permutations(Thread) \cup Permutations(Email)
=============================================================================
