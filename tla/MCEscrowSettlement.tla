------------------------- MODULE MCEscrowSettlement -------------------------
(***************************************************************************)
(* One user with credit for one request and a half, and two requests: a    *)
(* flat route, and a metered one whose answers cost less than the deposit, *)
(* as much, and more.                                                      *)
(***************************************************************************)
EXTENDS EscrowSettlement, TLC

CONSTANTS alice, operator, escrow, q1, q2

MCQuote == {q1, q2}
MCAccount == {alice, operator, escrow}
MCWallet == (alice :> 3) @@ (operator :> 0) @@ (escrow :> 0)
MCRoutes == {[perToken |-> FALSE, price |-> 1], [perToken |-> TRUE, price |-> 1]}

Symmetry == Permutations(MCQuote)

(* The deposit is at least the minimum and at least the cost of an answer  *)
(* no longer than its estimate (generateQuote, capForwardBody).            *)
ASSUME DepositCovers ==
    \A route \in [perToken : {TRUE}, price : 0 .. 5], m \in 0 .. 6 :
       \A tokens \in 0 .. estimatedMaxTokens(m) :
          quoteAmount(route, m) >= calculatePrice(route, tokens)

===============================================================================
