------------------------------ MODULE MCPayouts ------------------------------
(***************************************************************************)
(* Small instances of payout automation.                                   *)
(***************************************************************************)
EXTENDS Payouts, TLC

CONSTANTS operator, ben

MCSigner == <<operator, ben>>

Symmetry == Permutations(Slot)

==============================================================================
