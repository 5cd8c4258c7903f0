---------------------------- MODULE MCRunDelivery ----------------------------
(* Small instances of RunDelivery: one or two workers, one more dispatcher. *)
EXTENDS RunDelivery, TLC

Symmetric == Permutations(Workers)
==============================================================================
