-------------------------- MODULE MCLoanRepayments --------------------------
(* LoanRepayments on small sets; requests and terms are interchangeable. *)
EXTENDS LoanRepayments, TLC

Symmetry == Permutations(PayCalls) \cup Permutations(LoanCalls)
=============================================================================
