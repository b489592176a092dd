------------------------------ MODULE MCCustomer ------------------------------
(***************************************************************************)
(* An instance of Customer: months of two days, trials of two days.  An    *)
(* owner is created at midnight or in the evening of the first day, an     *)
(* outlet in that evening; requests come in at noon.  The second owner was *)
(* taken down before it registered, under the phone of the first.          *)
(***************************************************************************)
EXTENDS Customer, TLC

CONSTANTS o1, n1, phone

OnePhone == [o \in {o1, n1} |-> phone]

Symmetry == Permutations(Outlet)

\* Two outlets with two subscriptions, or one of each beside the unregistered owner.
Filled(rows) == Cardinality({x \in DOMAIN rows : rows[x] # Null})
Bounded == owner[n1] # Null => Filled(outlet) <= 1 /\ Filled(sub) <= 1
=============================================================================
