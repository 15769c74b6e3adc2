----------------------------- MODULE MCPricing -----------------------------
(* Pricing, on a small instance. *)
EXTENDS Pricing, TLC

Interchangeable == Permutations(Handler)
=============================================================================
