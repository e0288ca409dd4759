------------------------------- MODULE MCBilling -------------------------------
(* Billing for TLC. *)
EXTENDS Billing, TLC

Alike == Permutations(Syncs)

=============================================================================
