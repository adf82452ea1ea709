----------------------------- MODULE CreditEscrow -----------------------------
(***************************************************************************)
(* The credit-escrow contract (contracts/credit-escrow/src/lib.rs): users  *)
(* prepay tokens, the admin charges a user's balance once per quote,       *)
(* refunds a surplus once per quote, and withdraws the revenue.            *)
(*                                                                         *)
(* An invocation is one transaction: it happens entirely or, when it       *)
(* panics, not at all.  A panic is a disabled action.  require_auth is the *)
(* parameter "signer", the address that signed the transaction.            *)
(***************************************************************************)
EXTENDS Totals, Sequences

CONSTANTS
    Account,        \* addresses of the token ledger
    Contract,       \* the address of the escrow itself
    Quote,          \* quote ids
    Amount,         \* the i128 amounts callers may pass, some of them <= 0
    Deployer,       \* the admin named by the constructor
    InitialWallet   \* tokens of every account when the contract is deployed

User == Account \ {Contract}

ASSUME EscrowAssumption ==
    /\ Contract \in Account
    /\ Deployer \in User
    /\ Amount \subseteq Int
    /\ InitialWallet \in [Account -> Nat]
    /\ InitialWallet[Contract] = 0

VARIABLES
    config,     \* CONFIG: the admin and the pause flag
    balance,    \* (BALANCES, user), 0 where there is no entry
    revenue,    \* REVENUE
    charged,    \* the <<user, quote>> keys under CHARGED
    refunded,   \* the <<user, quote>> keys under REFUNDED
    usage,      \* (USAGE, user, 0 .. USAGE_COUNT - 1)
    wallet,     \* the token contract's balances
    cashed      \* history: the revenue withdrawn so far

vars == <<config, balance, revenue, charged, refunded, usage, wallet, cashed>>

Config == [admin : Account, paused : BOOLEAN]
UsageEvent == [amount : Nat, quote_id : Quote]

Init ==
    /\ config = [admin |-> Deployer, paused |-> FALSE]
    /\ balance = [u \in User |-> 0]
    /\ revenue = 0
    /\ charged = {}
    /\ refunded = {}
    /\ usage = [u \in User |-> <<>>]
    /\ wallet = InitialWallet
    /\ cashed = 0

-------------------------------------------------------------------------------

(* The token contract: a transfer fails when the sender holds too little,  *)
(* and a transfer to oneself changes nothing.                              *)
Transfer(from, to, n) ==
    /\ n <= wallet[from]
    /\ wallet' = [wallet EXCEPT ![from] = @ - n, ![to] = @ + n]

(* The checks every operation that moves credit makes.                     *)
Accepts(n) == n > 0 /\ ~config.paused

AdminAccepts(signer, n) == signer = config.admin /\ Accepts(n)

Deposit_NoPauseCheck(signer, n) ==
    /\ n > 0
    /\ Transfer(signer, Contract, n)
    /\ balance' = [balance EXCEPT ![signer] = @ + n]
    /\ UNCHANGED <<config, revenue, charged, refunded, usage, cashed>>

Deposit(signer, n) ==
    /\ Accepts(n)
    /\ Transfer(signer, Contract, n)
    /\ balance' = [balance EXCEPT ![signer] = @ + n]
    /\ UNCHANGED <<config, revenue, charged, refunded, usage, cashed>>

(* A withdrawal checked against the tokens held, not against the balance.  *)
Withdraw_NoBalanceCheck(signer, n) ==
    /\ Accepts(n)
    /\ balance' = [balance EXCEPT ![signer] = @ - n]
    /\ Transfer(Contract, signer, n)
    /\ UNCHANGED <<config, revenue, charged, refunded, usage, cashed>>

Withdraw(signer, n) ==
    /\ Accepts(n)
    /\ n <= balance[signer]
    /\ balance' = [balance EXCEPT ![signer] = @ - n]
    /\ Transfer(Contract, signer, n)
    /\ UNCHANGED <<config, revenue, charged, refunded, usage, cashed>>

LogUsage(user, n, q) ==
    usage' = [usage EXCEPT ![user] = Append(@, [amount |-> n, quote_id |-> q])]

(* A charge that forgets its idempotency key.                              *)
Charge_NotIdempotent(signer, user, n, q) ==
    /\ AdminAccepts(signer, n)
    /\ n <= balance[user]
    /\ charged' = charged \union {<<user, q>>}
    /\ balance' = [balance EXCEPT ![user] = @ - n]
    /\ revenue' = revenue + n
    /\ LogUsage(user, n, q)
    /\ UNCHANGED <<config, refunded, wallet, cashed>>

Charge(signer, user, n, q) ==
    /\ AdminAccepts(signer, n)
    /\ <<user, q>> \notin charged
    /\ n <= balance[user]
    /\ charged' = charged \union {<<user, q>>}
    /\ balance' = [balance EXCEPT ![user] = @ - n]
    /\ revenue' = revenue + n
    /\ LogUsage(user, n, q)
    /\ UNCHANGED <<config, refunded, wallet, cashed>>

(* A refund that pays the user without taking it off the prepaid balance.  *)
Refund_KeepsBalance(signer, user, n, q) ==
    /\ AdminAccepts(signer, n)
    /\ <<user, q>> \notin refunded
    /\ n <= balance[user]
    /\ refunded' = refunded \union {<<user, q>>}
    /\ Transfer(Contract, user, n)
    /\ UNCHANGED <<config, balance, revenue, charged, usage, cashed>>

(* A refund whose transfer is left out.                                    *)
Refund_NoTransfer(signer, user, n, q) ==
    /\ AdminAccepts(signer, n)
    /\ <<user, q>> \notin refunded
    /\ n <= balance[user]
    /\ refunded' = refunded \union {<<user, q>>}
    /\ balance' = [balance EXCEPT ![user] = @ - n]
    /\ UNCHANGED <<config, revenue, charged, usage, wallet, cashed>>

Refund(signer, user, n, q) ==
    /\ AdminAccepts(signer, n)
    /\ <<user, q>> \notin refunded
    /\ n <= balance[user]
    /\ refunded' = refunded \union {<<user, q>>}
    /\ balance' = [balance EXCEPT ![user] = @ - n]
    /\ Transfer(Contract, user, n)
    /\ UNCHANGED <<config, revenue, charged, usage, cashed>>

(* A withdrawal of revenue checked against the tokens held, not against    *)
(* the revenue counter.                                                    *)
WithdrawRevenue_NoCounter(signer, destination, n) ==
    /\ AdminAccepts(signer, n)
    /\ Transfer(Contract, destination, n)
    /\ cashed' = cashed + n
    /\ UNCHANGED <<config, balance, revenue, charged, refunded, usage>>

WithdrawRevenue(signer, destination, n) ==
    /\ AdminAccepts(signer, n)
    /\ n <= revenue
    /\ revenue' = revenue - n
    /\ Transfer(Contract, destination, n)
    /\ cashed' = cashed + n
    /\ UNCHANGED <<config, balance, charged, refunded, usage>>

SetAdmin(signer, new_admin) ==
    /\ signer = config.admin
    /\ config' = [config EXCEPT !.admin = new_admin]
    /\ UNCHANGED <<balance, revenue, charged, refunded, usage, wallet, cashed>>

SetPaused(signer, paused) ==
    /\ signer = config.admin
    /\ config' = [config EXCEPT !.paused = paused]
    /\ UNCHANGED <<balance, revenue, charged, refunded, usage, wallet, cashed>>

(* The escrow cannot sign: its own address never is the signer.            *)
Next ==
    \E signer \in User :
       \/ \E n \in Amount :
             \/ Deposit(signer, n)
             \/ Withdraw(signer, n)
             \/ \E user \in User, q \in Quote :
                   Charge(signer, user, n, q) \/ Refund(signer, user, n, q)
             \/ \E destination \in Account : WithdrawRevenue(signer, destination, n)
       \/ \E new_admin \in Account : SetAdmin(signer, new_admin)
       \/ \E paused \in BOOLEAN : SetPaused(signer, paused)

Spec == Init /\ [][Next]_vars

-------------------------------------------------------------------------------

(* What the usage history says user has been charged, and everyone has.    *)
ChargesTo(user) == [i \in DOMAIN usage[user] |-> usage[user][i].amount]
Spent(user) == Total(ChargesTo(user))
SpentBy == [u \in User |-> Spent(u)]
Earned == Total(SpentBy)

(* The types of the contract's entries and of the token ledger.            *)
TypeOK ==
    /\ config \in Config
    /\ balance \in [User -> Nat]
    /\ revenue \in Nat
    /\ charged \subseteq User \X Quote
    /\ refunded \subseteq User \X Quote
    /\ usage \in [User -> Seq(UsageEvent)]
    /\ wallet \in [Account -> Nat]
    /\ cashed \in Nat

(* After any sequence of deposits, withdrawals, charges, refunds and       *)
(* revenue withdrawals the contract holds at least what it owes: every     *)
(* user's balance and the revenue not yet withdrawn.                       *)
Solvent == Total(balance) + revenue <= wallet[Contract]

(* Revenue is what callers were charged and nothing else: the revenue      *)
(* counter plus all revenue ever withdrawn is the sum of the usage events. *)
RevenueIsUsage == revenue + cashed = Earned

(* The history and the idempotency keys agree: a user's usage events carry *)
(* distinct quotes, exactly those under the user's CHARGED keys.           *)
UsageIsCharged ==
    \A u \in User :
       /\ {usage[u][i].quote_id : i \in DOMAIN usage[u]}
             = {q \in Quote : <<u, q>> \in charged}
       /\ \A i, j \in DOMAIN usage[u] :
             usage[u][i].quote_id = usage[u][j].quote_id => i = j

(* No user loses tokens to anything but a recorded usage event, whoever    *)
(* the admin is and however charges, refunds and pauses are interleaved.   *)
UsersPayOnlyUsage ==
    \A u \in User : wallet[u] + balance[u] + Spent(u) >= InitialWallet[u]

(* The contract implements the promise of PrepaidCredit: balances are the  *)
(* users' claims, the revenue is the operator's, and withdrawals, refunds  *)
(* and revenue withdrawals all redeem a claim.                             *)
claims == [a \in Account |-> IF a = Contract THEN revenue ELSE balance[a]]

Abstract == INSTANCE PrepaidCredit WITH
    Party <- Account, Operator <- Contract,
    claim <- claims, settled <- charged, frozen <- config.paused

ImplementsPrepaidCredit == Abstract!Spec

===============================================================================
