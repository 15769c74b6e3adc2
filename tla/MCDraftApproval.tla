--------------------------- MODULE MCDraftApproval ---------------------------
(***************************************************************************)
(* DraftApproval for TLC: threads and fact keys are interchangeable.        *)
(***************************************************************************)
EXTENDS DraftApproval, TLC

Interchangeable == Permutations(Thread) \cup Permutations(FactKey)
=============================================================================
