----------------------- MODULE MCIntegrationExecution -----------------------
(* Instances of IntegrationExecution for TLC.  A thread serves any number of *)
(* requests, one after the other.  The passing run checks liveness, so that  *)
(* neither run declares a symmetry.                                          *)
EXTENDS IntegrationExecution, TLC
=============================================================================
