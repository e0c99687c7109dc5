------------------------- MODULE MCCollisionSystem -------------------------
(* The collision check of up to three snakes, in every geometry. *)
EXTENDS CollisionSystem, TLC

Symmetry == Permutations(Snakes)

=============================================================================
