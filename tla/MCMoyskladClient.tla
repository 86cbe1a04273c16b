--------------------------- MODULE MCMoyskladClient ---------------------------
(* Instances of MoyskladClient for TLC. *)
EXTENDS MoyskladClient, TLC
=============================================================================
