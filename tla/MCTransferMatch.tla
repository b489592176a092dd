--------------------------- MODULE MCTransferMatch ---------------------------
(***************************************************************************)
(* Instances of TransferMatch: two transfers and two top-ups cross, two    *)
(* administrators' requests overlap.                                       *)
(***************************************************************************)
EXTENDS TransferMatch, TLC

Unit == [x \in Payment \cup Posting |-> 1]

Symmetry == Permutations(Transfer) \cup Permutations(Payment) \cup Permutations(Admin)
=============================================================================
