--------------------------- MODULE MCMemberships ---------------------------
(* Values of the constants of MembershipContract for model checking.       *)
EXTENDS MembershipContract, TLC

Symmetry == Permutations(Ids) \cup Permutations(Roles) \cup Permutations(Workers)

=============================================================================
