----------------------------- MODULE MCAccounts -----------------------------
(* One customer with two requests at a time; two wrong codes are allowed instead of
   five. *)
EXTENDS Accounts

=============================================================================
