----------------------------- MODULE MCTtlCache -----------------------------
(***************************************************************************)
(* Two server processes: readers and a writer in the first, where an       *)
(* invalidation meets loads in flight, and a writer in the second, whose   *)
(* writes the first process is not told of.                                *)
(***************************************************************************)
EXTENDS TtlCache, TLC

CONSTANTS p1, p2, r1, r2, w1, w2

TwoHomes == r1 :> p1 @@ r2 :> p1 @@ w1 :> p1 @@ w2 :> p2

=============================================================================
