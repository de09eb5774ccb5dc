---------------------------- MODULE MCGeneration -----------------------------
(* Small instances of Generation for TLC. *)
EXTENDS Generation, TLC

CONSTANTS m1, m2

TwoPrices == m1 :> 1 @@ m2 :> 2
OneFallback == { <<>>, <<m2>> }
Symmetry == Permutations(Requests)

==============================================================================
