-------------------------------- MODULE MCCart --------------------------------
(* Two products and two tabs; a line holds three pieces at most, so that one more
   add overflows it. *)
EXTENDS Cart

CONSTANTS r1, r2
=============================================================================
