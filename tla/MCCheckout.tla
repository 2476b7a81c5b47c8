----------------------------- MODULE MCCheckout -----------------------------
(* Instances of Checkout for TLC. *)
EXTENDS Checkout, TLC

Callees == Permutations(Clients)
=============================================================================
