--------------------------- MODULE EscrowSettlement ---------------------------
(***************************************************************************)
(* Requests paid from prepaid credit (the X-Escrow-User branch of          *)
(* ProxyController with X402Service.verifyEscrowPayment, and settleEscrow  *)
(* in x402/escrow-client.ts) over the escrow contract of CreditEscrow.     *)
(*                                                                         *)
(* Every request draws on a fresh quote, so a draw is named by its quote.  *)
(* Its handler goes from step to step of draw[q].stage; the settlement it  *)
(* starts and does not wait for goes on by itself in job[q].  A contract   *)
(* call is a transaction: it is simulated, submitted, and lands, fails or  *)
(* is dropped later, whether or not anybody still waits for it.  Users and *)
(* the operator use the contract at the same time.  Deployments in which   *)
(* escrow settlement is enabled and has its signing key; requests that     *)
(* carry no X-Payment-Hash as well.  The header is an address that nothing *)
(* authenticates: whoever sends a request may name any user, so user(q) is *)
(* the address that was named and not who named it.                        *)
(***************************************************************************)
EXTENDS CreditEscrow, Pricing

CONSTANTS
    Key,            \* the account of CONTRACT_ADMIN_SECRET, the contract's admin
    Payer,          \* the addresses sent in X-Escrow-User
    Routes,         \* the routes requests ask for
    MaxTokens,      \* the max_tokens they ask for, 0 for none
    Tokens          \* the token counts upstreams report, 0 for none

ASSUME SettlementAssumption ==
    /\ Key = Deployer /\ Payer \subseteq User
    /\ Routes \subseteq Route
    /\ MaxTokens \subseteq Nat /\ Tokens \subseteq Nat

VARIABLES
    draw,       \* per quote, the request made with it
    row,        \* per quote, the status of its Payment row
    debt,       \* per quote, the UnderpaymentDebt recorded
    job,        \* per quote, its settlement
    hashes,     \* per quote, the settlement hashes written to its row
    drained     \* history: draws whose payer's balance fell after they read it

contract == <<config, balance, revenue, charged, refunded, usage, wallet, cashed>>
gateway == <<draw, row, debt, hashes>>
allVars == <<contract, gateway, job, drained>>

Stage == {"idle", "read", "refuse", "create", "confirm", "forward", "cost",
          "debt", "settle", "reply", "served", "refused", "failed", "dead"}
Ended == {"served", "refused", "failed", "dead"}
Running == {"charge", "refund", "record", "recordBoth"}

NoRoute == [perToken |-> FALSE, price |-> 0]

(* paid is the amount of the quote, cost what the answer cost.             *)
Draw == [stage : Stage, user : User, route : Route \union {NoRoute}, paid : Nat,
         cost : Nat, answered : BOOLEAN]

(* Of a transaction: not submitted, submitted, executed, failed on the     *)
(* chain, or dropped by the network.                                       *)
TxStatus == {"none", "sent", "ok", "failed", "dropped"}

(* refusal is the contract's answer to a simulation that fails, or that    *)
(* there was no answer.                                                    *)
Job == [leg : {"none", "charge", "refund", "record", "recordBoth", "done", "lost"},
        charge : TxStatus, refund : TxStatus,
        refusal : {"none", "paused", "duplicate", "short", "rpc"}]

Idle == [stage |-> "idle", user |-> Key, route |-> NoRoute, paid |-> 0, cost |-> 0,
         answered |-> FALSE]
NoJob == [leg |-> "none", charge |-> "none", refund |-> "none", refusal |-> "none"]

SettlementInit ==
    /\ Init
    /\ draw = [q \in Quote |-> Idle]
    /\ row = [q \in Quote |-> "absent"]
    /\ debt = [q \in Quote |-> 0]
    /\ job = [q \in Quote |-> NoJob]
    /\ hashes = [q \in Quote |-> {}]
    /\ drained = {}

-------------------------------------------------------------------------------

At(q, stage) == draw[q].stage = stage
Goto(q, stage) == draw' = [draw EXCEPT ![q].stage = stage]
user(q) == draw[q].user
Excess(q) == surplus(draw[q].paid, draw[q].cost)

(* Draws that rely on a balance read before.                               *)
Relying == {q \in Quote : draw[q].stage \notin {"idle", "read", "refuse"}}

Drains ==
    drained' = drained \union {q \in Relying : balance'[user(q)] < balance[user(q)]}

(* Steps of the handler that leave the contract and the settlements alone. *)
Quiet == UNCHANGED <<contract, job, hashes, drained>>

RequestDraw(q) ==
    /\ At(q, "idle")
    /\ \E u \in Payer, route \in Routes, max_tokens \in MaxTokens :
          draw' = [draw EXCEPT ![q] =
                     [Idle EXCEPT !.stage = "read", !.user = u, !.route = route,
                                  !.paid = quoteAmount(route, max_tokens)]]
    /\ UNCHANGED <<row, debt>> /\ Quiet

Unavailable == -1

(* What a reading of the balance may come to.                              *)
getEscrowBalance(u) == {balance[u], Unavailable}

(* The check below with the two sides of the comparison exchanged.         *)
verifyEscrowPayment_Swapped(q) ==
    /\ At(q, "read")
    /\ \E available \in getEscrowBalance(user(q)) :
          Goto(q, IF available <= draw[q].paid THEN "create" ELSE "refuse")
    /\ UNCHANGED <<row, debt>> /\ Quiet

(* The balance is read, and nothing is set aside.                          *)
verifyEscrowPayment(q) ==
    /\ At(q, "read")
    /\ \E available \in getEscrowBalance(user(q)) :
          Goto(q, IF available # Unavailable /\ available >= draw[q].paid
                  THEN "create" ELSE "refuse")
    /\ UNCHANGED <<row, debt>> /\ Quiet

(* 402, with a pending row behind the quote it offers; counting the        *)
(* request may still fail.                                                 *)
RefuseDraw(q) ==
    /\ At(q, "refuse")
    /\ row' = [row EXCEPT ![q] = "pending"]
    /\ \E end \in {"refused", "failed"} : Goto(q, end)
    /\ UNCHANGED debt /\ Quiet

createPendingPayment(q) ==
    /\ At(q, "create")
    /\ row' = [row EXCEPT ![q] = "pending"]
    /\ Goto(q, "confirm")
    /\ UNCHANGED debt /\ Quiet

(* The hash escrow:<quote> is nobody else's, so the claim is never lost.   *)
(* The audit entry and the reading of the row that follow change nothing;  *)
(* when they fail the row is confirmed already, as when the call fails.    *)
confirmPayment(q) ==
    /\ At(q, "confirm")
    /\ row' = [row EXCEPT ![q] = "confirmed"]
    /\ Goto(q, "forward")
    /\ UNCHANGED debt /\ Quiet

(* The answer below with a flat request already paid for by its quote.     *)
Answered_FlatIsPaid(q) ==
    /\ At(q, "forward")
    /\ \E tokens \in Tokens :
          LET metered == draw[q].route.perToken /\ tokens # 0
          IN  draw' = [draw EXCEPT
                 ![q].stage = IF metered THEN "cost" ELSE "reply",
                 ![q].cost = IF metered THEN calculatePrice(draw[q].route, tokens)
                                        ELSE draw[q].paid,
                 ![q].answered = TRUE]
    /\ UNCHANGED <<row, debt>> /\ Quiet

(* An answer, or a stream that has opened: one that breaks off later is    *)
(* metered like one without usage data.  Without tokens or on a flat route *)
(* the cost is what was paid.                                              *)
Answered(q) ==
    /\ At(q, "forward")
    /\ \E tokens \in Tokens :
          LET metered == draw[q].route.perToken /\ tokens # 0
          IN  draw' = [draw EXCEPT
                 ![q].stage = IF metered THEN "cost" ELSE "settle",
                 ![q].cost = IF metered THEN calculatePrice(draw[q].route, tokens)
                                        ELSE draw[q].paid,
                 ![q].answered = TRUE]
    /\ UNCHANGED <<row, debt>> /\ Quiet

recordActualCost(q) ==
    /\ At(q, "cost")
    /\ Goto(q, IF isUnderpaid(draw[q].paid, draw[q].cost) THEN "debt" ELSE "settle")
    /\ UNCHANGED <<row, debt>> /\ Quiet

(* A failure to record the debt is logged and ignored.                     *)
recordUnderpaymentDebt(q) ==
    /\ At(q, "debt")
    /\ \/ debt' = [debt EXCEPT ![q] = -Excess(q)]
       \/ UNCHANGED debt
    /\ Goto(q, "settle")
    /\ UNCHANGED row /\ Quiet

(* The settlement is started, not awaited.                                 *)
settleEscrowDraw(q) ==
    /\ At(q, "settle")
    /\ Goto(q, "reply")
    /\ job' = [job EXCEPT ![q].leg = "charge"]
    /\ UNCHANGED <<contract, row, debt, hashes, drained>>

Reply(q) ==
    /\ At(q, "reply")
    /\ Goto(q, "served")
    /\ UNCHANGED <<row, debt>> /\ Quiet

(* The database or the upstream fails.  There is no hash in the header, so *)
(* the catch block marks nothing and releases nothing.                     *)
Throw(q) ==
    /\ draw[q].stage \in {"refuse", "create", "confirm", "forward", "cost", "reply"}
    /\ Goto(q, "failed")
    /\ UNCHANGED <<row, debt>> /\ Quiet

-------------------------------------------------------------------------------
(* settleEscrow, beside the handler.                                       *)

OnLeg(q, leg) == job[q].leg = leg
JobOnly == UNCHANGED <<contract, gateway, drained>>

(* What the contract answers to a simulated charge or refund of n.         *)
Answer(q, n, keys) ==
    CASE config.paused                   -> "paused"
      [] <<user(q), q>> \in keys         -> "duplicate"
      [] n > balance[user(q)]            -> "short"
      [] OTHER                           -> "none"

(* What is submitted was simulated; a failed simulation ends the job, and  *)
(* so does an RPC that fails.                                              *)
SubmitCharge(q) ==
    LET answer == Answer(q, draw[q].cost, charged)
    IN  /\ OnLeg(q, "charge") /\ job[q].charge = "none"
        /\ \/ job' = [job EXCEPT ![q] =
                 IF answer = "none" THEN [@ EXCEPT !.charge = "sent"]
                                    ELSE [@ EXCEPT !.leg = "done", !.refusal = answer]]
           \/ job' = [job EXCEPT ![q].leg = "done", ![q].refusal = "rpc"]
        /\ JobOnly

(* The hash is returned of a transaction that is on the chain, also when   *)
(* it failed there.                                                        *)
signAndSendContractTx == {"ok", "failed"}

HearCharge(q) ==
    /\ OnLeg(q, "charge") /\ job[q].charge \in signAndSendContractTx
    /\ job' = [job EXCEPT ![q].leg =
                  IF isOverpaid(draw[q].paid, draw[q].cost) THEN "refund" ELSE "record"]
    /\ JobOnly

(* The refund goes ahead after a charge that was not heard of.             *)
ChargeTimesOut_RefundsAnyway(q) ==
    /\ OnLeg(q, "charge") /\ job[q].charge # "none"
    /\ job' = [job EXCEPT ![q].leg =
                  IF isOverpaid(draw[q].paid, draw[q].cost) THEN "refund" ELSE "done"]
    /\ JobOnly

(* send throws when its patience ends.                                     *)
ChargeTimesOut(q) ==
    /\ OnLeg(q, "charge") /\ job[q].charge # "none"
    /\ job' = [job EXCEPT ![q].leg = "done"]
    /\ JobOnly

SubmitRefund(q) ==
    /\ OnLeg(q, "refund") /\ job[q].refund = "none"
    /\ \/ /\ Answer(q, Excess(q), refunded) = "none"
          /\ job' = [job EXCEPT ![q].refund = "sent"]
       \/ job' = [job EXCEPT ![q].leg = "record"]
    /\ JobOnly

HearRefund(q) ==
    /\ OnLeg(q, "refund") /\ job[q].refund \in signAndSendContractTx
    /\ job' = [job EXCEPT ![q].leg = "recordBoth"]
    /\ JobOnly

(* A failed refund, and one not heard of, is logged and left.              *)
RefundTimesOut(q) ==
    /\ OnLeg(q, "refund") /\ job[q].refund # "none"
    /\ job' = [job EXCEPT ![q].leg = "record"]
    /\ JobOnly

(* A failure to write is logged and ignored.                               *)
recordEscrowSettlement(q) ==
    /\ \/ /\ OnLeg(q, "record")
          /\ hashes' \in {hashes, [hashes EXCEPT ![q] = {"charge"}]}
       \/ /\ OnLeg(q, "recordBoth")
          /\ hashes' \in {hashes, [hashes EXCEPT ![q] = {"charge", "refund"}]}
    /\ job' = [job EXCEPT ![q].leg = "done"]
    /\ UNCHANGED <<contract, draw, row, debt, drained>>

(* A charge of the whole deposit.                                          *)
LandCharge_Deposit(q) ==
    /\ job[q].charge = "sent"
    /\ \/ /\ Charge(Key, user(q), draw[q].paid, q)
          /\ job' = [job EXCEPT ![q].charge = "ok"]
       \/ /\ Answer(q, draw[q].paid, charged) # "none"
          /\ job' = [job EXCEPT ![q].charge = "failed"]
          /\ UNCHANGED contract
    /\ Drains
    /\ UNCHANGED gateway

(* A submitted transaction lands: it executes if the contract still allows *)
(* it and fails on the chain if not.                                       *)
LandCharge(q) ==
    /\ job[q].charge = "sent"
    /\ \/ /\ Charge(Key, user(q), draw[q].cost, q)
          /\ job' = [job EXCEPT ![q].charge = "ok"]
       \/ /\ Answer(q, draw[q].cost, charged) # "none"
          /\ job' = [job EXCEPT ![q].charge = "failed"]
          /\ UNCHANGED contract
    /\ Drains
    /\ UNCHANGED gateway

LandRefund(q) ==
    /\ job[q].refund = "sent"
    /\ \/ /\ Refund(Key, user(q), Excess(q), q)
          /\ job' = [job EXCEPT ![q].refund = "ok"]
       \/ /\ Answer(q, Excess(q), refunded) # "none"
          /\ job' = [job EXCEPT ![q].refund = "failed"]
          /\ UNCHANGED contract
    /\ Drains
    /\ UNCHANGED gateway

(* The network forgets a transaction.                                      *)
Expire(q) ==
    /\ \/ job[q].charge = "sent" /\ job' = [job EXCEPT ![q].charge = "dropped"]
       \/ job[q].refund = "sent" /\ job' = [job EXCEPT ![q].refund = "dropped"]
    /\ JobOnly

-------------------------------------------------------------------------------

(* The process dies between two steps, with the request and its settlement. *)
Crash(q) ==
    /\ draw[q].stage \notin Ended \union {"idle"} \/ job[q].leg \in Running
    /\ draw' = [draw EXCEPT ![q].stage = IF @ \in Ended THEN @ ELSE "dead"]
    /\ job' = [job EXCEPT ![q].leg = IF @ \in Running THEN "lost" ELSE @]
    /\ UNCHANGED <<contract, row, debt, hashes, drained>>

(* Users deposit and withdraw; the operator pauses.  Taking out revenue    *)
(* touches no user's balance and is left out.                              *)
Elsewhere ==
    /\ \E signer \in User :
          \/ \E n \in Amount : Deposit(signer, n) \/ Withdraw(signer, n)
          \/ \E paused \in BOOLEAN : SetPaused(signer, paused)
    /\ Drains
    /\ UNCHANGED <<gateway, job>>

Handler(q) ==
    \/ verifyEscrowPayment(q) \/ RefuseDraw(q) \/ createPendingPayment(q)
    \/ confirmPayment(q) \/ Answered(q) \/ recordActualCost(q)
    \/ recordUnderpaymentDebt(q) \/ settleEscrowDraw(q) \/ Reply(q) \/ Throw(q)

Settle(q) ==
    \/ SubmitCharge(q) \/ HearCharge(q) \/ ChargeTimesOut(q)
    \/ SubmitRefund(q) \/ HearRefund(q) \/ RefundTimesOut(q) \/ recordEscrowSettlement(q)

SettlementNext ==
    \/ \E q \in Quote :
          \/ RequestDraw(q) \/ Handler(q) \/ Settle(q)
          \/ LandCharge(q) \/ LandRefund(q) \/ Expire(q) \/ Crash(q)
    \/ Elsewhere

SettlementSpec == SettlementInit /\ [][SettlementNext]_allVars

-------------------------------------------------------------------------------

(* The types of the draws, rows, settlements and of the contract below.    *)
SettlementTypeOK ==
    /\ TypeOK
    /\ draw \in [Quote -> Draw]
    /\ row \in [Quote -> {"absent", "pending", "confirmed"}]
    /\ debt \in [Quote -> Nat]
    /\ job \in [Quote -> Job]
    /\ hashes \in [Quote -> SUBSET {"charge", "refund"}]
    /\ drained \subseteq Quote

(* Nobody is charged for a request the upstream did not answer, for one    *)
(* that named another address, or for anything but its cost (applyMetered- *)
(* Pricing, settleEscrowDraw), however late the charge lands.  (The answer *)
(* need not have reached a client: a handler may fail after it settled.)   *)
UsageIsServed ==
    \A u \in User : \A i \in DOMAIN usage[u] :
       LET q == usage[u][i].quote_id
       IN  /\ user(q) = u /\ draw[q].answered /\ row[q] = "confirmed"
           /\ usage[u][i].amount = draw[q].cost

(* A draw admitted on a sufficient balance is refused by the contract for  *)
(* lack of credit only when it cost more than its deposit or the balance   *)
(* fell after it was read (verifyEscrowPayment), and never as a duplicate: *)
(* there is one settlement per draw (settleEscrowDraw's comment).          *)
RefusedOnlyIfDrained ==
    \A q \in Quote :
       /\ job[q].refusal # "duplicate"
       /\ job[q].refusal = "short" => q \in drained \/ Excess(q) < 0

(* A surplus is paid out only after the charge was decided on the chain    *)
(* (settleEscrow skips the refund after a charge it did not hear of).      *)
RefundFollowsCharge ==
    \A q \in Quote :
       <<user(q), q>> \in refunded => job[q].charge \in {"ok", "failed"}

(* Nothing is served for free but by a failure: the settlement of a served *)
(* draw ends without the charge only when the contract or the network      *)
(* refused it or the transaction was submitted (applyMeteredPricing: "any  *)
(* escrow balance" must not buy "unlimited requests on flat-rate routes"). *)
ServedIsSettled ==
    \A q \in Quote :
       At(q, "served") =>
          \/ job[q].leg \in Running \union {"lost"}
          \/ <<user(q), q>> \in charged
          \/ job[q].refusal # "none" \/ job[q].charge # "none"

===============================================================================
