-------------------------- MODULE MCPurchaseService --------------------------
(***************************************************************************)
(* Request mixes for PurchaseService.  The catalogues are model values of  *)
(* the configurations: plans are recurring, the e-book is bought once.     *)
(***************************************************************************)
EXTENDS PurchaseService, TLC

\* Slots are interchangeable, and so are users.
Symmetry == Permutations(Requests) \cup Permutations(Users)
SlotSymmetry == Permutations(Requests)

\* Everything that buys, cancels or expires; nothing an administrator does to
\* a single entitlement row.
Lifecycle == {"create", "subscribe", "cancel", "expire"}

\* Administrators also hand out entitlements for existing purchases, and take
\* products off and on sale.
LifecycleAndAdmin == Lifecycle \cup {"grant", "deactivate", "update"}

\* Selling a product against taking it off sale.
Selling == {"create", "cancel", "deactivate"}

=============================================================================
