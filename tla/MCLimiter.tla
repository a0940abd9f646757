------------------------------ MODULE MCLimiter ------------------------------
(***************************************************************************)
(* Limiter for TLC: one provider without an entry in per_provider (limit   *)
(* 1), one with a limit above the others, one whose limit of 0 admits      *)
(* nothing, and a global budget below the sum of the limits.               *)
(***************************************************************************)
EXTENDS Limiter, TLC

CONSTANTS unlisted, wide, closed

MCProviders == {unlisted, wide, closed}
MCPerProvider == wide :> 3 @@ closed :> 0
Symmetry == Permutations(Addrs)

=============================================================================
