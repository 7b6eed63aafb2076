----------------------------- MODULE MCDelivery -----------------------------
(* Instances of Delivery for TLC: the bounds are in the configurations.     *)
EXTENDS Delivery
=============================================================================
