------------------------------- MODULE PaidCall -------------------------------
(***************************************************************************)
(* A call of a client SDK from its first request to the last line of its   *)
(* answer (packages/sdk and python/x402_sdk, which differ in what they     *)
(* send along and how they read a stream), with the parts of the gateway   *)
(* it meets: the rate limit, the routing of each request by itself, the    *)
(* quote a paid retry is resolved to, the streamed answer and the notice   *)
(* the provider gets.  The gateway's handler is one step here; what may    *)
(* happen between its own steps is module PaymentGate's.                   *)
(*                                                                         *)
(* The SDK makes one transaction per call.  Stellar and Horizon are        *)
(* external: a transaction that was accepted may land until its time bound *)
(* and answers may be lost.  The Python client's requests give up after    *)
(* thirty seconds of silence; the TypeScript client's have no timeout of   *)
(* their own, and a wallet's owner may never answer.                       *)
(***************************************************************************)
EXTENDS RateLimit, StreamFraming, Notices, Verification

CONSTANTS
    Provider, NoProvider,
    Priced,         \* the route of each provider: its prices and its asset
    RequestTokens,  \* max_tokens of the request, or 0
    QuoteLife,      \* QUOTE_EXPIRY_SECONDS
    TxLife,         \* setTimeout(300), TRANSACTION_TIMEOUT
    Patience,       \* paymentTimeout
    MaxTime         \* a bound on the clock

VARIABLES
    now,
    call,       \* the SDK's call
    tx,         \* its transaction
    trouble     \* history: what went wrong outside of the SDK

clientVars == <<now, call, tx, trouble>>
vars == <<clientVars, rates, notices, streaming>>

ASSUME PaidCallAssumption ==
    /\ NoProvider \notin Provider /\ NoMemo \notin Provider \X Nat
    /\ Priced \in [Provider -> [perToken : BOOLEAN, price : Nat, asset : {"USDC"}]]
    /\ {RequestTokens, QuoteLife, TxLife, Patience} \subseteq Nat

Init ==
    /\ now = 0 /\ trouble = {}
    /\ call = [pc |-> "idle", sdk |-> "typescript", provider |-> NoProvider, issuedAt |-> 0,
               deadline |-> 0, server |-> NoProvider, inTime |-> FALSE]
    /\ tx = [state |-> "none", to |-> NoProvider, validUntil |-> 0, at |-> 0]
    /\ RatesInit /\ NoticesInit /\ StreamInit

At(pc) == call.pc = pc
Goto(pc) == call' = [call EXCEPT !.pc = pc]
Fail == Goto("failed")
Returned == call.pc \in {"done", "failed"}
Struck(what) == trouble' = trouble \union {what}

-------------------------------------------------------------------------------
(* The first request.                                                      *)

Start ==
    /\ At("idle")
    /\ \E sdk \in {"typescript", "python"} :
          call' = [call EXCEPT !.pc = "ask", !.sdk = sdk]
    /\ UNCHANGED <<now, tx, trouble, rates>>

(* A request without a hash is quoted by the provider the balancer picks;  *)
(* what else it may be answered ends the call.                             *)
Quoted(p) ==
    call' = [call EXCEPT !.pc = "quoted", !.provider = p, !.issuedAt = now]

Quote(p, max_tokens, t) ==
    generateQuote(Priced[p], max_tokens, p, [first24 |-> <<p, t>>], t, QuoteLife)

storedQuote == Quote(call.provider, RequestTokens, call.issuedAt)
expiresAt == storedQuote.expiresAt

AskQuote ==
    /\ At("ask")
    /\ \E pass \in BOOLEAN :
          /\ checkLimit(now, pass)
          /\ \/ pass /\ \E p \in Provider : Quoted(p)
             \/ Fail
    /\ UNCHANGED <<now, tx, trouble>>

(* A quote that ran out, or names another asset than the caller pays with, *)
(* is not paid.                                                            *)
handle402Payment ==
    /\ At("quoted")
    /\ \/ ~isQuoteExpired(storedQuote, now) /\ Goto("build")
       \/ Fail
    /\ UNCHANGED <<now, tx, trouble, rates>>

-------------------------------------------------------------------------------
(* Paying.                                                                 *)

Built == [tx EXCEPT !.state = "built", !.to = call.provider, !.validUntil = now + TxLife]

(* loadAccount, then a transaction with a time bound.                      *)
buildPaymentTransaction ==
    /\ At("build")
    /\ \/ tx' = Built /\ Goto("sign")
       \/ Fail /\ UNCHANGED tx
    /\ UNCHANGED <<now, trouble, rates>>

(* A key signs at once; a wallet's owner may take long or refuse.          *)
SignWithKey == At("sign") /\ Goto("submit") /\ UNCHANGED <<now, tx, trouble, rates>>

signTransaction ==
    /\ At("sign")
    /\ Goto("submit") \/ Fail
    /\ UNCHANGED <<now, tx, trouble, rates>>

pay_quote == SignWithKey \/ signTransaction

Submitted == tx' \in {tx, [tx EXCEPT !.state = "pending"]}

(* An answer that is lost is a failed call whose payment may land.         *)
submitTransaction ==
    /\ At("submit")
    /\ Submitted
    /\ \/ /\ tx'.state = "pending"
          /\ call' = [call EXCEPT !.pc = "wait", !.deadline = now + Patience]
       \/ Fail
    /\ UNCHANGED <<now, trouble, rates>>

Land ==
    /\ tx.state = "pending" /\ now <= tx.validUntil
    /\ \E state \in {"landed", "reverted"} : tx' = [tx EXCEPT !.state = state, !.at = now]
    /\ UNCHANGED <<now, call, trouble, rates>>

(* A loop without the deadline.                                            *)
waitForConfirmation_Forever ==
    At("wait") /\ Goto("poll") /\ UNCHANGED <<now, tx, trouble, rates>>

waitForConfirmation ==
    /\ At("wait")
    /\ IF now < call.deadline THEN Goto("poll") ELSE Fail
    /\ UNCHANGED <<now, tx, trouble, rates>>

(* The poll's answer may come after the deadline, or not at all.           *)
PollAnswer ==
    /\ At("poll")
    /\ \/ tx.state = "landed" /\ Goto("retry")
       \/ Goto("wait")
    /\ UNCHANGED <<now, tx, trouble, rates>>

(* What the call waits for does not come, and nothing ends the wait.       *)
Hang ==
    /\ \/ call.sdk = "typescript" /\ call.pc \in {"ask", "build", "submit", "poll"}
       \/ At("sign")
    /\ Goto("hung")
    /\ IF At("submit") THEN Submitted ELSE UNCHANGED tx
    /\ IF At("ask") THEN \E pass \in BOOLEAN : checkLimit(now, pass) ELSE UNCHANGED rates
    /\ UNCHANGED <<now, trouble>>

-------------------------------------------------------------------------------
(* The paid retry, at the gateway.                                         *)

(* The Python client sends the hash alone.                                 *)
CarriesQuoteId == call.sdk = "typescript"

(* What Horizon tells of the transaction, and the row of the quote.        *)
OnChain ==
    [successful |-> tx.state = "landed", at |-> tx.at, memo |-> quoteMemo(storedQuote.id),
     ops |-> <<[type |-> "payment", to |-> tx.to, asset |-> storedQuote.asset,
                amount |-> storedQuote.amount]>>]

pendingRows == {[id |-> storedQuote.id, route |-> call.provider]}

ByMemo(p, memoRead) ==
    findPendingByQuoteMemo(fetchTransactionMemo(OnChain, memoRead), p, pendingRows) # {}

(* The stored quote is found whatever route the retry was sent to.         *)
Resolves_AnyRoute(p, memoRead) == CarriesQuoteId \/ ByMemo(call.provider, memoRead)

(* A payment found by X-Quote-Id alone.                                    *)
Resolves_IdOnly(p, memoRead) == CarriesQuoteId /\ p = call.provider

(* By X-Quote-Id, or by the transaction's memo if Horizon answers, and for *)
(* the selected route only.                                                *)
Resolves(p, memoRead) == (CarriesQuoteId /\ p = call.provider) \/ ByMemo(p, memoRead)

(* The stored quote must not have run out.  Without one the payment is     *)
(* held against a quote made now, for the default number of tokens: it is  *)
(* too early unless it was made in this very second.                       *)
Accepted(p, memoRead) ==
    IF Resolves(p, memoRead)
    THEN ~isQuoteExpired(storedQuote, now) /\ verifyStellarPayment(OnChain, storedQuote).verified
    ELSE verifyStellarPayment(OnChain, Quote(p, 0, now)).verified

(* What the SDK hears, and whether its retry came within the quote's life. *)
Answered(p, how) ==
    call' = [call EXCEPT !.pc = how, !.server = p, !.inTime = now <= expiresAt]

Refused(what) == Struck(what) /\ Answered(NoProvider, "failed")

(* A retry whose request or answer the network loses, for one SDK an error *)
(* and for the other a wait without an end.                                *)
Unheard(p) ==
    \/ Struck("network") /\ Answered(p, "failed")
    \/ call.sdk = "typescript" /\ Answered(p, "hung") /\ UNCHANGED trouble

(* The payment is claimed and announced, and the upstream answers at once, *)
(* in a stream, or not; or the gateway fails before it has answered.       *)
Admit(p) ==
    /\ notify
    /\ \/ \E how \in {"done", "streamed"} : Answered(p, how) /\ UNCHANGED trouble
       \/ \E what \in {"upstream", "gateway"} : Refused(what)
       \/ Unheard(p)
    /\ IF At("streamed")' THEN forwardStreamRequest ELSE UNCHANGED streaming

(* The caller's address is not the one the quote was given to, which only  *)
(* the quote's id makes good.                                              *)
Moved(p, memoRead) == Resolves(p, memoRead) /\ ~CarriesQuoteId

(* The payment is not the selected route's, or not of a quote that holds.  *)
Mismatched(p, memoRead) ==
    /\ trouble' = trouble \union (IF p = call.provider THEN {} ELSE {"routed"})
                         \union (IF memoRead THEN {} ELSE {"horizon"})
    /\ Answered(NoProvider, "failed")

(* The handler, up to the answer: its route is selected anew, and any call *)
(* of its own to the database or Redis may fail.                           *)
handleChatCompletion(p, memoRead) ==
    \/ Accepted(p, memoRead) /\ Admit(p)
    \/ /\ \/ Refused("gateway")
          \/ Moved(p, memoRead) /\ Refused("moved")
          \/ Accepted(p, memoRead) /\ \E what \in {"owing", "horizon"} : Refused(what)
          \/ ~Accepted(p, memoRead) /\ Mismatched(p, memoRead)
       /\ UNCHANGED <<notices, streaming>>

(* The fresh hash of a paid retry is counted in the unpaid tier, heard or  *)
(* not.                                                                    *)
RetryPaid ==
    /\ At("retry")
    /\ \E pass \in BOOLEAN :
          /\ checkLimit(now, pass)
          /\ \/ pass /\ \E p \in Provider, memoRead \in BOOLEAN : handleChatCompletion(p, memoRead)
             \/ /\ (~pass /\ Refused("throttled")) \/ Unheard(NoProvider)
                /\ UNCHANGED <<notices, streaming>>
    /\ UNCHANGED <<now, tx>>

(* The Python client reads a stream to its end before it returns it, and   *)
(* gives up on a silence.                                                  *)
GiveUp ==
    /\ At("streamed") /\ call.sdk = "python" /\ stream.pc # "ended"
    /\ Struck("network") /\ Fail
    /\ UNCHANGED <<now, tx, rates>>

(* Other requests from the same address, while this call's are not there.  *)
Neighbour ==
    /\ call.pc \in {"idle", "wait", "retry"}
    /\ \E pass \in BOOLEAN : checkLimit(now, pass)
    /\ UNCHANGED clientVars

Tick ==
    /\ ~(call.pc \in {"done", "failed", "streamed", "hung"})
    /\ \/ now < MaxTime
       \/ call.pc \in {"wait", "poll"} /\ now < call.deadline
    /\ now' = now + 1
    /\ UNCHANGED <<call, tx, trouble, rates>>

-------------------------------------------------------------------------------
Step ==
    \/ Start \/ AskQuote \/ handle402Payment
    \/ buildPaymentTransaction \/ pay_quote \/ submitTransaction
    \/ waitForConfirmation \/ PollAnswer \/ Hang \/ GiveUp

Receive == Upstream \/ Finish \/ DrainOrClose

Next ==
    \/ (Step \/ Land \/ Tick \/ Neighbour) /\ UNCHANGED <<notices, streaming>>
    \/ RetryPaid
    \/ SendNotice /\ UNCHANGED <<clientVars, rates, streaming>>
    \/ Receive /\ UNCHANGED <<clientVars, rates, notices>>

(* The SDK's process goes on, and what it waits for comes, fails or is     *)
(* known to hang; time passes; the gateway's own calls return or throw,    *)
(* and the stream's timer fires.  No fairness makes a client read, so a    *)
(* write may wait for ever.                                                *)
Fairness ==
    /\ WF_vars(Step /\ UNCHANGED <<notices, streaming>>)
    /\ WF_vars(RetryPaid)
    /\ WF_vars(Tick /\ UNCHANGED <<notices, streaming>>)
    /\ WF_vars(SendNotice /\ UNCHANGED <<clientVars, rates, streaming>>)
    /\ WF_vars(StreamTimesOut /\ UNCHANGED <<clientVars, rates, notices>>)
    /\ WF_vars(Finish /\ UNCHANGED <<clientVars, rates, notices>>)

Spec == Init /\ [][Next]_vars /\ Fairness

-------------------------------------------------------------------------------
Served == call.pc \in {"done", "streamed"}

(* sdk/index.ts with proxy.controller.ts: whoever answers a paid call is   *)
(* the provider the transaction paid, though the retry was routed by       *)
(* itself, and the payment landed within the quote's window (or, if the    *)
(* quote could not be found again, in the second of the retry).            *)
ServedByPayee ==
    Served => /\ tx.state = "landed" /\ tx.to = call.server
              /\ call.issuedAt <= tx.at
              /\ tx.at <= expiresAt \/ tx.at = now

(* The two sides of a call agree on its payment: one that was retried      *)
(* before its quote ran out is served unless the retry was throttled or    *)
(* routed elsewhere, it sent no quote id from an address that had changed, *)
(* the payer owes, Horizon or the upstream failed, the gateway's own       *)
(* database or Redis did, or the network lost the retry, its answer or the *)
(* rest of a stream.                                                       *)
PaidIsServed ==
    At("failed") /\ tx.state = "landed" /\ call.inTime => trouble # {}

(* A stream that came to its end, or one that nobody ends under a reader   *)
(* that has no timeout.                                                    *)
ReadToEnd == stream.pc = "ended" \/ (stream.pc = "abandoned" /\ call.sdk = "typescript")

(* waitForConfirmation, sendWithSignature and the stream's timer: a call   *)
(* returns, and its stream ends, unless it hangs on a request without a    *)
(* timeout or on a signer, a write waits for ever for a client that reads  *)
(* no more, or onDone failed under a reader that has no timeout; and the   *)
(* notice always comes to its end.                                         *)
CallReturns ==
    /\ []<>~stream.waits => At("ask") ~> (Returned \/ At("hung") \/ ReadToEnd)
    /\ notice.pc # "none" ~> notice.pc = "done"

===============================================================================
