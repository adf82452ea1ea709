---------------------------- MODULE MCCreditEscrow ----------------------------
(***************************************************************************)
(* Two users, one of them the first admin, and two quotes.                 *)
(***************************************************************************)
EXTENDS CreditEscrow, Functions, TLC

CONSTANTS alice, bob, escrow, q1, q2

MCAccount == {alice, bob, escrow}
MCQuote == {q1, q2}
MCAmount == {-1, 0, 1, 2}
MCWallet == (alice :> 2) @@ (bob :> 1) @@ (escrow :> 0)

Symmetry == Permutations(MCQuote)

(* A total is the sum of the community modules.                            *)
ASSUME TotalIsSum == \A f \in [MCAccount -> 0 .. 3] : Total(f) = SumFunction(f)

===============================================================================
