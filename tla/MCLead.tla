------------------------------- MODULE MCLead -------------------------------
(***************************************************************************)
(* Instances of Lead: two supervisors and two sales people, so that a lead *)
(* can be taken from one of them by another; two requests, so that one is  *)
(* decided while the other holds the lock.                                 *)
(***************************************************************************)
EXTENDS Lead, TLC

Symmetry == Permutations(Lead) \cup Permutations(Supervisor) \cup Permutations(Sales)
                \cup Permutations(Training) \cup Permutations(Closing) \cup Permutations(Request)
=============================================================================
