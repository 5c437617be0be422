-------------------------- MODULE MCStripeWebhook --------------------------
(***************************************************************************)
(* Checking StripeWebhook: customers are interchangeable, subscriptions    *)
(* too.                                                                    *)
(***************************************************************************)
EXTENDS StripeWebhook, TLC

Symmetry == Permutations(Subscriptions) \union Permutations(Customers)

=============================================================================
