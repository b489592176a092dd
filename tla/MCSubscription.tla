--------------------------- MODULE MCSubscription ---------------------------
(***************************************************************************)
(* Instances of Subscription: three orders, so that a subscription can be  *)
(* upgraded twice or two orders compete for a closing while a third moves; *)
(* two closings, so that a rejected order can be matched with another one. *)
(***************************************************************************)
EXTENDS Subscription, TLC

Symmetry == Permutations(Order) \cup Permutations(Closing) \cup Permutations(Request)
=============================================================================
