----------------------------- MODULE MCAccounts -----------------------------
(* Accounts for TLC: new passwords, sessions, codes and requests are alike. *)
EXTENDS Accounts, TLC

Symmetry == Permutations(Passwords \ {FirstPassword}) \cup Permutations(Sessions)
              \cup Permutations(Codes) \cup Permutations(Calls)
=============================================================================
