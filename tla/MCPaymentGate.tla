---------------------------- MODULE MCPaymentGate ----------------------------
(***************************************************************************)
(* Small instances of the payment gate.                                    *)
(***************************************************************************)
EXTENDS PaymentGate, TLC

Symmetry == Permutations(Slot) \union Permutations(Hash) \union Permutations(Quote)

==============================================================================
