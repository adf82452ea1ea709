-------------------------------- MODULE Pricing --------------------------------
(***************************************************************************)
(* What a request costs (packages/x402-core): the deposit asked for before *)
(* it is served, the metered cost after it, and the difference.  Amounts   *)
(* are whole stroops of any size.  A flat route has a price per request, a *)
(* metered one a price per token.                                          *)
(***************************************************************************)
EXTENDS Integers

CONSTANTS
    MIN_PAYMENT,            \* minPaymentAmount
    DEFAULT_TOKEN_ESTIMATE

ASSUME PricingAssumption ==
    /\ MIN_PAYMENT \in Nat
    /\ DEFAULT_TOKEN_ESTIMATE \in Nat \ {0}

Route == [perToken : BOOLEAN, price : Nat]

(* A request without max_tokens, here 0, is estimated at the default; the  *)
(* same number of tokens is then the cap of what is forwarded.             *)
estimatedMaxTokens(max_tokens) ==
    IF max_tokens = 0 THEN DEFAULT_TOKEN_ESTIMATE ELSE max_tokens

atLeastMinimum(n) == IF n < MIN_PAYMENT THEN MIN_PAYMENT ELSE n

quoteAmount(route, max_tokens) ==
    atLeastMinimum(IF route.perToken
                   THEN route.price * estimatedMaxTokens(max_tokens)
                   ELSE route.price)

(* The cost of a metered request, from the upstream's count of tokens.     *)
calculatePrice(route, tokens) == route.price * tokens

(* comparePayment's surplus is negative when the deposit did not cover.    *)
surplus(paid, cost) == paid - cost
isOverpaid(paid, cost) == surplus(paid, cost) > 0
isUnderpaid(paid, cost) == surplus(paid, cost) < 0

===============================================================================
