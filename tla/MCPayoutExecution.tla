------------------------- MODULE MCPayoutExecution -------------------------
(***************************************************************************)
(* Constants of the PayoutExecution checks: one delegator paid in two      *)
(* cycles, which accumulate into one transfer, and another one in the      *)
(* first cycle.                                                            *)
(***************************************************************************)
EXTENDS PayoutExecution, TLC

CONSTANTS a1, a2, b1

MCCycleOf == (a1 :> 1) @@ (a2 :> 2) @@ (b1 :> 1)
MCDestOf  == (a1 :> "a") @@ (a2 :> "a") @@ (b1 :> "b")

OpSymmetry == Permutations(OpIds)
============================================================================
