------------------------------ MODULE MCCheckout ------------------------------
(***************************************************************************)
(* Carts for Checkout.  ada is a member, new has no account yet, stranger  *)
(* belongs to another tenant, paused has a membership that is not active.  *)
(***************************************************************************)
EXTENDS Checkout, TLC

CONSTANTS s1, pro, ebook

\* A plan and an e-book, bought together.
OneCart == (s1 :> <<pro, ebook>>)

NoOps == {}
Deactivating == {"deactivate"}

=============================================================================
