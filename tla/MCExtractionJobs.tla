-------------------------- MODULE MCExtractionJobs --------------------------
(***************************************************************************)
(* ExtractionJobs for TLC.  The run checks liveness, so that it declares no *)
(* symmetry.                                                                *)
(***************************************************************************)
EXTENDS ExtractionJobs, TLC
=============================================================================
