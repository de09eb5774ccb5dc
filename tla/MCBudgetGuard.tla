---------------------------- MODULE MCBudgetGuard ----------------------------
(* Small instances of BudgetGuard for TLC. *)
EXTENDS BudgetGuard, TLC

\* One enforced budget, set and dropped.
OneBudget == { [budget |-> 1, action |-> "downgrade"], Unset }

Symmetry == Permutations(Replicas) \cup Permutations(Requests) \cup Permutations(Names)

==============================================================================
