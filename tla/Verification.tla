------------------------------ MODULE Verification ------------------------------
(***************************************************************************)
(* Whether a transaction on the Stellar network pays a quote               *)
(* (verifyStellarPayment of packages/x402-core), and how a payment finds   *)
(* the quote it was made for: by the transaction's memo, which is the      *)
(* first 24 digits of the quote's id.                                      *)
(*                                                                         *)
(* Amounts are stroops on both sides.  An asset stands for its code with   *)
(* its issuer; an amount or a price that is no number is left out, and so  *)
(* is requireMemo, which no code sets.  An id is its first 24 digits with  *)
(* the rest.                                                               *)
(***************************************************************************)
EXTENDS Pricing, Sequences

CONSTANTS
    AllowPathPayments,      \* config.stellar.network !== 'mainnet'
    NoMemo                  \* no text memo, or none that Horizon answers

ASSUME VerificationAssumption == AllowPathPayments \in BOOLEAN

-------------------------------------------------------------------------------
(* Quotes.                                                                 *)

generateQuote(route, max_tokens, to, id, now, life) ==
    [id |-> id, perToken |-> route.perToken, amount |-> quoteAmount(route, max_tokens),
     perTokenPrice |-> route.price, asset |-> route.asset, paymentAddress |-> to,
     issuedAt |-> now, expiresAt |-> now + life]

isQuoteExpired(quote, now) == now > quote.expiresAt

quoteMemo(id) == id.first24

(* A payment without a memo, or with another kind of text, has no prefix.  *)
quoteIdPrefixFromMemo(memo, ids) == {id \in ids : memo # NoMemo /\ quoteMemo(id) = memo}

(* "best-effort by design": what cannot be read is no memo.                *)
fetchTransactionMemo(tx, answered) == IF answered THEN tx.memo ELSE NoMemo

(* The pending rows a memo may mean on a route.                            *)
findPendingByQuoteMemo(memo, route, pending) ==
    LET ids == {row.id : row \in pending}
    IN  {row \in pending : row.route = route /\ row.id \in quoteIdPrefixFromMemo(memo, ids)}

-------------------------------------------------------------------------------
(* Payments.                                                               *)

PathPayment == {"path_payment_strict_send", "path_payment_strict_receive"}

Direct(tx) == {i \in DOMAIN tx.ops : tx.ops[i].type = "payment"}
OverPath(tx) == {i \in DOMAIN tx.ops : tx.ops[i].type \in PathPayment}

paymentOps(tx) == Direct(tx) \union (IF AllowPathPayments THEN OverPath(tx) ELSE {})

(* "the deposit, for degenerate configs the price of a token, then 1"; and *)
(* the minimum that holds now, whatever held when the quote was made.      *)
requiredAmount(quote) ==
    LET one == IF quote.perTokenPrice > 0 THEN quote.perTokenPrice ELSE 1
    IN  atLeastMinimum(IF quote.perToken /\ quote.amount = 0 THEN one ELSE quote.amount)

Reaching(tx, quote, S) ==
    {i \in S : tx.ops[i].asset = quote.asset /\ tx.ops[i].to = quote.paymentAddress}

Covers(amount, quote) ==
    IF quote.perToken THEN amount >= requiredAmount(quote) ELSE amount = requiredAmount(quote)

matchingOps(tx, quote) ==
    {i \in Reaching(tx, quote, paymentOps(tx)) : Covers(tx.ops[i].amount, quote)}

(* Array.find.                                                             *)
matchingPayment(tx, quote) ==
    CHOOSE i \in matchingOps(tx, quote) : \A j \in matchingOps(tx, quote) : i <= j

inWindow(tx, quote) == quote.issuedAt <= tx.at /\ tx.at <= quote.expiresAt

verified(tx, quote) ==
    tx.successful /\ matchingOps(tx, quote) # {} /\ inWindow(tx, quote)

(* Why a transaction with no matching operation is refused: the precise    *)
(* reasons a payer is told.                                                *)
refusedPath(tx, quote) ==
    /\ ~AllowPathPayments
    /\ Reaching(tx, quote, Direct(tx)) = {}
    /\ Reaching(tx, quote, OverPath(tx)) # {}

belowDeposit(tx, quote) ==
    /\ quote.perToken
    /\ \E i \in Reaching(tx, quote, paymentOps(tx)) : tx.ops[i].amount > 0

failureReason(tx, quote) ==
    CASE ~tx.successful                                   -> "failed on chain"
      [] tx.successful /\ matchingOps(tx, quote) = {}     ->
            IF refusedPath(tx, quote) THEN "path payment"
            ELSE IF belowDeposit(tx, quote) THEN "below the deposit" ELSE "no match"
      [] tx.successful /\ matchingOps(tx, quote) # {}     ->
            IF tx.at < quote.issuedAt THEN "before the quote"
            ELSE IF tx.at > quote.expiresAt THEN "after the quote" ELSE "none"

(* The amount that is credited: of the first operation that matches, or    *)
(* the largest of those below a deposit.                                   *)
creditedAmount(tx, quote) ==
    IF tx.successful /\ matchingOps(tx, quote) # {}
    THEN tx.ops[matchingPayment(tx, quote)].amount
    ELSE IF tx.successful /\ belowDeposit(tx, quote) /\ ~refusedPath(tx, quote)
    THEN LET reached == {tx.ops[i].amount : i \in Reaching(tx, quote, paymentOps(tx))}
         IN  CHOOSE a \in reached : \A b \in reached : b <= a
    ELSE 0

verifyStellarPayment(tx, quote) ==
    [verified |-> verified(tx, quote), amount |-> creditedAmount(tx, quote),
     failureReason |-> failureReason(tx, quote)]

===============================================================================
