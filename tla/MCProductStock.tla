--------------------------- MODULE MCProductStock ---------------------------
(* Instances of ProductStock for TLC; stock may be negative in MoySklad. *)
EXTENDS ProductStock
TwoStocks == {-1, 1}
=============================================================================
