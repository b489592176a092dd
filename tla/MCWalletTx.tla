----------------------------- MODULE MCWalletTx -----------------------------
(***************************************************************************)
(* An instance of WalletTx for TLC: three connections, so that two         *)
(* operations can overlap and a third can come between; the postings are   *)
(* larger than the top-up, so that a debit after it is refused or waived.  *)
(***************************************************************************)
EXTENDS WalletTx, TLC

CONSTANTS p1, k1, k2

OneTopup == {p1}
TwoPostings == {k1, k2}
Amounts == [x \in Payment \cup Posting |-> IF x = p1 THEN 1 ELSE 2]

ConnSymmetry == Permutations(Conn)
=============================================================================
