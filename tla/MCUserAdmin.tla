---------------------------- MODULE MCUserAdmin ----------------------------
(* UserAdmin for TLC: accounts other than the seeded one are alike. *)
EXTENDS UserAdmin, TLC

Symmetry == Permutations(Users \ {SeedUser}) \cup Permutations(Requests)
              \cup Permutations(UserCalls)
=============================================================================
