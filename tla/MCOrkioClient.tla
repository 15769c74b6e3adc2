--------------------------- MODULE MCOrkioClient ---------------------------
(***************************************************************************)
(* OrkioClient for TLC.                                                     *)
(***************************************************************************)
EXTENDS OrkioClient, TLC
=============================================================================
