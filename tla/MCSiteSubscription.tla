------------------------- MODULE MCSiteSubscription -------------------------
(***************************************************************************)
(* Checking SiteSubscription: customers are interchangeable, subscriptions *)
(* too.                                                                    *)
(***************************************************************************)
EXTENDS SiteSubscription, TLC

Symmetry == Permutations(Subscriptions) \union Permutations(Customers)

=============================================================================
