------------------------------ MODULE MCPayout ------------------------------
(***************************************************************************)
(* Instances of Payout: two commissions, so that a payout can hold one and *)
(* wait for the other; three payouts, so that one can be cancelled and     *)
(* another compete for its commissions.                                    *)
(***************************************************************************)
EXTENDS Payout, TLC

Symmetry == Permutations(Commission) \cup Permutations(Batch) \cup Permutations(Clerk)
=============================================================================
