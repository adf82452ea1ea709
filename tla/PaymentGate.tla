------------------------------ MODULE PaymentGate ------------------------------
(***************************************************************************)
(* How the gateway turns an on-chain payment into one LLM response: the    *)
(* chat/completions handler for requests that carry X-Payment-Hash         *)
(* (proxy.controller.ts), the payment rows it works on                     *)
(* (payments.service.ts), the replay claims (x402.service.ts, x402-core)   *)
(* and the public POST /x402/verify endpoint that shares them.             *)
(*                                                                         *)
(* A handler is one slot; between two of its awaits other handlers run, so *)
(* each step of a slot below is the code from one await to the next.  Any  *)
(* replica of the gateway may run any slot.  Time is a small clock, every  *)
(* route belongs to one provider, and a deposit is one unit.               *)
(***************************************************************************)
EXTENDS Integers, FiniteSets, Totals

CONSTANTS
    Slot,           \* request handlers that may be running at one time
    Hash,           \* payment transaction hashes
    Quote,          \* quote ids
    NoHash, NoQuote,
    Flat, Metered,  \* routes priced per request, and per token
    Payer,          \* the wallets transactions are paid from
    MAX_AMOUNT,     \* bound on the amount of a transaction
    MAX_DEFICIT,    \* bound on what one response may cost beyond its deposit
    MAX_TIME,       \* bound on the clock
    QUOTE_EXPIRY,   \* quoteExpirySeconds
    MANY,           \* deliveries of a hash are counted up to this number
    Verify,         \* is POST /x402/verify called?
    Recording,      \* is contractAdminSecret set, so that payments are recorded?
    Faults          \* may the database fail and the process die?

ASSUME GateAssumption ==
    /\ NoHash \notin Hash /\ NoQuote \notin Quote
    /\ Flat \intersect Metered = {}
    /\ {MAX_AMOUNT, MAX_DEFICIT, MAX_TIME, QUOTE_EXPIRY, MANY} \subseteq Nat
    /\ {Verify, Recording, Faults} \subseteq BOOLEAN

VARIABLES
    now,        \* the clock
    tx,         \* the transactions on the chain
    row,        \* the Payment rows, by quote id
    claimed,    \* hashes whose x402:replay key is set in Redis
    recorded,   \* hashes under USED_TX in the payment-verifier contract
    debt,       \* UnderpaymentDebt.amount, by quote id; 0 when there is none
    settled,    \* the quotes whose debt has status settled
    req,        \* the state of each handler
    wins,       \* history: how often a hash was claimed by confirmPayment
    delivered,  \* history: how many responses a hash has bought, up to MANY
    spent       \* history: hashes consumed without a response, by a handler that
                \* died holding the row or by POST /x402/verify

history == <<wins, delivered, spent>>
ledgers == <<row, debt, settled>>
vars == <<now, tx, ledgers, claimed, recorded, req, history>>

Route == Flat \union Metered
Deposit == 1

-------------------------------------------------------------------------------
(* The payment rows.                                                       *)

NoRow == [status |-> "none", hash |-> NoHash, route |-> NoQuote, issued |-> 0]
Unused == {q \in Quote : row[q].status = "none"}
Bound(h) == \E q \in Quote : row[q].hash = h
RowOf(h) == CHOOSE q \in Quote : row[q].hash = h

Pending(route, t) == [status |-> "pending", hash |-> NoHash, route |-> route, issued |-> t]

(* What verifyStellarPayment accepts: a payment in the quote's window, of  *)
(* exactly the quoted amount, or at least the deposit on a metered route.  *)
Satisfies_AnyAge(h, route, issued) ==
    /\ h \in DOMAIN tx
    /\ IF route \in Flat THEN tx[h].amount = Deposit ELSE tx[h].amount >= Deposit
    /\ tx[h].time <= issued + QUOTE_EXPIRY

Satisfies(h, route, issued) ==
    /\ h \in DOMAIN tx
    /\ IF route \in Flat THEN tx[h].amount = Deposit ELSE tx[h].amount >= Deposit
    /\ issued <= tx[h].time
    /\ tx[h].time <= issued + QUOTE_EXPIRY

(* getOpenDebtTotal for the payer of a transaction.                        *)
OpenDebts(h) ==
    {q \in Quote : /\ debt[q] > 0 /\ q \notin settled
                   /\ tx[row[q].hash].payer = tx[h].payer}
OpenDebt(h) == Total([q \in OpenDebts(h) |-> debt[q]])

-------------------------------------------------------------------------------
(* The world: quotes, payments, time, the replay cache and the cleanup job. *)

Idle == [pc |-> "idle", kind |-> "chat", hash |-> NoHash, route |-> NoQuote,
         header |-> NoQuote, quote |-> NoQuote, issued |-> 0, retry |-> FALSE,
         stream |-> FALSE, missed |-> {}]

At(s, pc) == req[s].pc = pc

(* The bound on rows: an unused id beyond those of handlers with a quote   *)
(* of their own.                                                           *)
SpareId ==
    LET Verifying == {"claim", "verify", "debt", "settle", "confirm"}
    IN  Cardinality(Unused)
          > Cardinality({s \in Slot : req[s].quote = NoQuote /\ req[s].pc \in Verifying})
Goto(s, pc) == req' = [req EXCEPT ![s].pc = pc]
Finish(s) == req' = [req EXCEPT ![s] = Idle]

(* A refusal is answered once its audit entry is written; when that throws *)
(* the chat handler ends in its catch block instead.                       *)
Refuse(s) ==
    \/ Finish(s)
    \/ Faults /\ req[s].kind = "chat" /\ Goto(s, "mark")

Init ==
    /\ now = 0
    /\ tx = [h \in {} |-> 0]
    /\ row = [q \in Quote |-> NoRow]
    /\ claimed = {} /\ recorded = {}
    /\ debt = [q \in Quote |-> 0] /\ settled = {}
    /\ req = [s \in Slot |-> Idle]
    /\ wins = [h \in Hash |-> 0] /\ delivered = [h \in Hash |-> 0]
    /\ spent = {}

Tick ==
    /\ now < MAX_TIME
    /\ now' = now + 1
    /\ UNCHANGED <<tx, ledgers, claimed, recorded, req, history>>

(* A request without payment headers is answered 402 with a stored quote.  *)
(* The bound leaves the ids that the handlers now running may need.        *)
IssueQuote(q, route) ==
    /\ q \in Unused
    /\ SpareId
    /\ row' = [row EXCEPT ![q] = Pending(route, now)]
    /\ UNCHANGED <<now, tx, debt, settled, claimed, recorded, req, history>>

(* A client pays, with a quote's memo or with none.                        *)
Pay(h, memo, payer, n) ==
    /\ h \notin DOMAIN tx
    /\ memo \notin Unused
    /\ tx' = [g \in DOMAIN tx \union {h} |->
                IF g = h THEN [memo |-> memo, payer |-> payer, amount |-> n, time |-> now]
                         ELSE tx[g]]
    /\ UNCHANGED <<now, ledgers, claimed, recorded, req, history>>

(* The claim's TTL passes, or Redis loses its data.                        *)
LoseClaim(h) ==
    /\ h \in claimed
    /\ claimed' = claimed \ {h}
    /\ UNCHANGED <<now, tx, ledgers, recorded, req, history>>

(* expireStalePayments, run by the cleanup job.                            *)
ExpireStale_AnyStatus ==
    LET stale == {q \in Quote \ Unused : row[q].issued + QUOTE_EXPIRY < now}
    IN  /\ stale # {}
        /\ row' = [q \in Quote |->
                     IF q \in stale THEN [row[q] EXCEPT !.status = "expired"] ELSE row[q]]
        /\ UNCHANGED <<now, tx, debt, settled, claimed, recorded, req, history>>

ExpireStale ==
    LET stale == {q \in Quote : /\ row[q].status = "pending"
                                /\ row[q].issued + QUOTE_EXPIRY < now}
    IN  /\ stale # {}
        /\ row' = [q \in Quote |->
                     IF q \in stale THEN [row[q] EXCEPT !.status = "expired"] ELSE row[q]]
        /\ UNCHANGED <<now, tx, debt, settled, claimed, recorded, req, history>>

-------------------------------------------------------------------------------
(* Finding the payment of a request.                                       *)

(* A chat request with X-Payment-Hash, and X-Quote-Id if header says so.   *)
StartChat(s, h, route, header) ==
    /\ At(s, "idle")
    /\ header \notin Unused
    /\ req' = [req EXCEPT ![s] = [Idle EXCEPT !.pc = "lookup", !.hash = h,
                                              !.route = route, !.header = header]]
    /\ UNCHANGED <<now, tx, ledgers, claimed, recorded, history>>

(* POST /x402/verify: the named quote must still be pending.               *)
StartVerify(s, h, q) ==
    /\ Verify
    /\ At(s, "idle")
    /\ row[q].status = "pending"
    /\ req' = [req EXCEPT ![s] = [Idle EXCEPT !.pc = "claim", !.kind = "verify",
                                              !.hash = h, !.quote = q,
                                              !.route = row[q].route,
                                              !.issued = row[q].issued]]
    /\ UNCHANGED <<now, tx, ledgers, claimed, recorded, history>>

(* findByTxHash: a row whose upstream failed is a free retry, a confirmed  *)
(* one a replay, and without a row the quote has to be found.              *)
Lookup(s) ==
    LET h == req[s].hash
    IN  /\ At(s, "lookup")
        /\ \/ ~Bound(h) /\ Goto(s, "resolve")
           \/ /\ Bound(h) /\ row[RowOf(h)].status = "upstream_failed"
              /\ req' = [req EXCEPT ![s] = [@ EXCEPT !.pc = "reread", !.header = NoQuote]]
           \/ Bound(h) /\ row[RowOf(h)].status = "confirmed" /\ Finish(s)
        /\ UNCHANGED <<now, tx, ledgers, claimed, recorded, history>>

(* The pending quote named by X-Quote-Id, else the one the memo leads to   *)
(* (Horizon may fail to return it), on the requested route.                *)
Resolved(s) ==
    LET Open(q) == q # NoQuote /\ row[q].status = "pending" /\ row[q].route = req[s].route
        h == req[s].hash
    IN  IF Open(req[s].header) THEN {req[s].header}
        ELSE {NoQuote} \union
             {q \in Quote : h \in DOMAIN tx /\ tx[h].memo = q /\ Open(q)}

(* An expired quote is refused, and so is a caller at another address than *)
(* the quote's who brings no quote id.  Without a quote a fresh one is     *)
(* made for the verification; where the bound has no id for it the request *)
(* is refused, as it is whenever Horizon fails.                            *)
Resolve(s) ==
    /\ At(s, "resolve")
    /\ \E q \in Resolved(s) :
          LET expired == q # NoQuote /\ now > row[q].issued + QUOTE_EXPIRY
              ready == IF q = NoQuote THEN SpareId ELSE ~expired
          IN  \/ /\ ready
                 /\ req' = [req EXCEPT ![s] = [@ EXCEPT
                              !.pc = "claim", !.header = NoQuote, !.quote = q,
                              !.issued = IF q = NoQuote THEN now ELSE row[q].issued]]
              \/ /\ ~ready \/ (q # NoQuote /\ req[s].header = NoQuote)
                 /\ Finish(s)
    /\ UNCHANGED <<now, tx, ledgers, claimed, recorded, history>>

-------------------------------------------------------------------------------
(* verifyPayment: the claim, the contract, Horizon, and the audit trail.   *)

ClaimHash(s) ==
    LET h == req[s].hash
    IN  /\ At(s, "claim")
        /\ claimed' = claimed \union {h}
        /\ IF h \in claimed THEN Refuse(s) ELSE Goto(s, "verify")
        /\ UNCHANGED <<now, tx, ledgers, recorded, history>>

(* The contract's used set; "not used" whenever it cannot be asked.        *)
isPaymentUsedOnChain(h) == IF h \in recorded THEN {TRUE, FALSE} ELSE {FALSE}

(* The used set after a recording, which may fail.                         *)
recordPaymentOnChain(h) == {recorded} \union (IF Recording THEN {recorded \union {h}} ELSE {})

(* A hash the contract has recorded is refused and stays claimed.  A failed *)
(* verification, or Horizon not knowing the payment yet, gives the claim   *)
(* back.  A verified payment is recorded in the contract.                  *)
VerifyOnChain(s) ==
    LET h == req[s].hash
    IN  /\ At(s, "verify")
        /\ \/ /\ TRUE \in isPaymentUsedOnChain(h)
              /\ claimed' = claimed \union {h}
              /\ UNCHANGED recorded
              /\ Refuse(s)
           \/ /\ claimed' = claimed \ {h}
              /\ UNCHANGED recorded
              /\ Refuse(s)
           \/ /\ Satisfies(h, req[s].route, req[s].issued)
              /\ UNCHANGED claimed
              /\ recorded' \in recordPaymentOnChain(h)
              /\ Goto(s, IF req[s].kind = "chat" THEN "debt" ELSE "confirm")
        /\ UNCHANGED <<now, tx, ledgers, history>>

-------------------------------------------------------------------------------
(* The debt gate and the claim of the row.                                 *)

ReadDebt(s) ==
    LET h == req[s].hash
    IN  /\ At(s, "debt")
        /\ IF OpenDebt(h) = 0 THEN Goto(s, "confirm")
           ELSE IF tx[h].amount >= Deposit + OpenDebt(h) THEN Goto(s, "settle")
           ELSE Refuse(s)
        /\ UNCHANGED <<now, tx, ledgers, claimed, recorded, history>>

(* A settlement of the debt of the quote that is being paid, if any.       *)
SettleDebts_OwnQuote(s) ==
    /\ At(s, "settle")
    /\ settled' = settled \union ({req[s].quote} \intersect OpenDebts(req[s].hash))
    /\ Goto(s, "confirm")
    /\ UNCHANGED <<now, tx, row, debt, claimed, recorded, history>>

SettleDebts(s) ==
    /\ At(s, "settle")
    /\ settled' = settled \union OpenDebts(req[s].hash)
    /\ Goto(s, "confirm")
    /\ UNCHANGED <<now, tx, row, debt, claimed, recorded, history>>

(* The claim won: the row takes the hash, and the handler goes on.         *)
Win(s, q, old) ==
    LET h == req[s].hash
    IN  /\ row' = [row EXCEPT ![q] = [old EXCEPT !.status = "confirmed", !.hash = h]]
        /\ wins' = [wins EXCEPT ![h] = @ + 1]
        /\ IF req[s].kind = "chat"
           THEN Goto(s, "reread") /\ UNCHANGED spent
           ELSE Finish(s) /\ spent' = spent \union {h}
        /\ UNCHANGED delivered

(* confirmPayment that finds the row by its quote id alone.                *)
Confirm_AnyRow(s) ==
    LET h == req[s].hash
        q == req[s].quote
    IN  /\ At(s, "confirm")
        /\ \/ q # NoQuote /\ row[q].hash = h /\ Win(s, q, row[q])
           \/ q # NoQuote /\ ~Bound(h) /\ Win(s, q, row[q])
           \/ q = NoQuote /\ ~Bound(h)
              /\ \E new \in Unused : Win(s, new, Pending(req[s].route, req[s].issued))
           \/ /\ Bound(h) /\ (q # NoQuote => row[q].hash # h)
              /\ Finish(s) /\ UNCHANGED <<row, history>>
        /\ UNCHANGED <<now, tx, debt, settled, claimed, recorded>>

(* confirmPayment takes a row that has no hash yet, whatever its status,   *)
(* and the unique index takes each hash once.  A payment without a quote   *)
(* gets its row first; when it then loses, the row it leaves is named by   *)
(* no one and is not kept here.                                            *)
Confirm(s) ==
    LET h == req[s].hash
        q == req[s].quote
    IN  /\ At(s, "confirm")
        /\ \/ q # NoQuote /\ row[q].hash = NoHash /\ ~Bound(h) /\ Win(s, q, row[q])
           \/ q = NoQuote /\ ~Bound(h)
              /\ \E new \in Unused : Win(s, new, Pending(req[s].route, req[s].issued))
           \/ /\ Bound(h) \/ (q # NoQuote /\ row[q].hash # NoHash)
              /\ Finish(s) /\ UNCHANGED <<row, history>>
        /\ UNCHANGED <<now, tx, debt, settled, claimed, recorded>>

-------------------------------------------------------------------------------
(* Forwarding, and what follows a response.                                *)

Deliver(h) ==
    /\ delivered' = [delivered EXCEPT ![h] = IF @ < MANY THEN @ + 1 ELSE @]
    /\ UNCHANGED <<wins, spent>>

(* The handler reads the row again; its status then decides whether the    *)
(* answer is a retry that has to restore the row.                          *)
Reread(s) ==
    LET q == RowOf(req[s].hash)
    IN  /\ At(s, "reread")
        /\ req' = [req EXCEPT ![s] = [@ EXCEPT
                      !.pc = "forward", !.quote = q, !.issued = 0, !.missed = {},
                      !.retry = row[q].status = "upstream_failed"]]
        /\ UNCHANGED <<now, tx, ledgers, claimed, recorded, history>>

(* The upstream answers, or fails.  A stream has reached the client by the *)
(* time the handler goes on.                                               *)
Forward(s) ==
    /\ At(s, "forward")
    /\ \/ Goto(s, "mark") /\ UNCHANGED history
       \/ Goto(s, IF req[s].retry THEN "restore" ELSE "meter") /\ UNCHANGED history
       \/ /\ req' = [req EXCEPT ![s] = [@ EXCEPT !.pc = "meter", !.stream = TRUE]]
          /\ Deliver(req[s].hash)
    /\ UNCHANGED <<now, tx, ledgers, claimed, recorded>>

Restored(q) ==
    IF row[q].status = "upstream_failed" THEN [row EXCEPT ![q].status = "confirmed"] ELSE row

(* confirmUpstreamRetry, for a retry that was answered: before a JSON      *)
(* response, after a streamed one.                                         *)
Restore(s) ==
    /\ At(s, "restore")
    /\ row' = Restored(req[s].quote)
    /\ IF req[s].stream THEN Finish(s) ELSE Goto(s, "meter")
    /\ UNCHANGED <<now, tx, debt, settled, claimed, recorded, history>>

(* applyMeteredPricing: what a response cost beyond the deposit is a debt, *)
(* once for a quote.  (The history field missed collects, for a handler    *)
(* past its reading of the ledger, the debts recorded since.)              *)
Meter(s) ==
    LET q == req[s].quote
        next == IF ~req[s].stream THEN [req[s] EXCEPT !.pc = "reply"]
                ELSE IF req[s].retry THEN [req[s] EXCEPT !.pc = "restore"]
                ELSE Idle
    IN
    /\ At(s, "meter")
    /\ \E deficit \in 0 .. MAX_DEFICIT :
          /\ req[s].route \in Flat => deficit = 0
          /\ debt' = [debt EXCEPT ![q] = IF @ = 0 THEN deficit ELSE @]
    /\ req' = [t \in Slot |->
                 IF t = s THEN next
                 ELSE IF req[t].pc \in {"settle", "confirm"} /\ debt'[q] > debt[q]
                      THEN [req[t] EXCEPT !.missed = @ \union {q}]
                      ELSE req[t]]
    /\ UNCHANGED <<now, tx, row, settled, claimed, recorded, history>>

Reply(s) ==
    /\ At(s, "reply")
    /\ Deliver(req[s].hash)
    /\ Finish(s)
    /\ UNCHANGED <<now, tx, ledgers, claimed, recorded>>

-------------------------------------------------------------------------------
(* Failure.  The catch block of the chat handler marks the row of the hash *)
(* the request carried, releases its claim and answers 502.                *)

Marked(h) == [q \in Quote |-> IF row[q].hash = h
                              THEN [row[q] EXCEPT !.status = "upstream_failed"]
                              ELSE row[q]]

(* A catch block that marks only what is already being retried.            *)
MarkUpstreamFailure_Retries(s) ==
    /\ At(s, "mark")
    /\ row' = IF req[s].retry THEN Marked(req[s].hash) ELSE row
    /\ Goto(s, "release")
    /\ UNCHANGED <<now, tx, debt, settled, claimed, recorded, history>>

MarkUpstreamFailure(s) ==
    /\ At(s, "mark")
    /\ row' = Marked(req[s].hash)
    /\ Goto(s, "release")
    /\ UNCHANGED <<now, tx, debt, settled, claimed, recorded, history>>

ReleaseHash(s) ==
    /\ At(s, "release")
    /\ claimed' = claimed \ {req[s].hash}
    /\ Finish(s)
    /\ UNCHANGED <<now, tx, ledgers, recorded, history>>

(* Where a handler holds a consumed payment that it has yet to answer.     *)
Serving == {"reread", "forward", "restore", "meter", "reply", "mark"}

(* Steps whose database or Redis call may throw.                           *)
Fallible == {"lookup", "resolve", "claim", "debt", "settle", "confirm",
             "reread", "restore", "meter", "reply"}

(* The verify endpoint has no catch block: it answers 500.                 *)
Throw(s) ==
    /\ Faults
    /\ req[s].pc \in Fallible
    /\ IF req[s].kind = "chat" THEN Goto(s, "mark") ELSE Finish(s)
    /\ UNCHANGED <<now, tx, ledgers, claimed, recorded, history>>

(* The process dies, or the catch block itself throws: no answer.          *)
Die(s) ==
    /\ Faults
    /\ ~At(s, "idle")
    /\ spent' = IF req[s].pc \in Serving THEN spent \union {req[s].hash} ELSE spent
    /\ Finish(s)
    /\ UNCHANGED <<now, tx, ledgers, claimed, recorded, wins, delivered>>

Handle(s) ==
    \/ Lookup(s) \/ Resolve(s) \/ ClaimHash(s) \/ VerifyOnChain(s)
    \/ ReadDebt(s) \/ SettleDebts(s) \/ Confirm(s) \/ Reread(s)
    \/ Forward(s) \/ Restore(s) \/ Meter(s) \/ Reply(s)
    \/ MarkUpstreamFailure(s) \/ ReleaseHash(s)

Next ==
    \/ Tick
    \/ \E q \in Quote, route \in Route : IssueQuote(q, route)
    \/ \E h \in Hash, memo \in Quote \union {NoQuote}, payer \in Payer, n \in 1 .. MAX_AMOUNT :
          Pay(h, memo, payer, n)
    \/ \E h \in Hash : LoseClaim(h)
    \/ ExpireStale
    \/ \E s \in Slot :
          \/ \E h \in Hash, route \in Route, header \in Quote \union {NoQuote} :
                StartChat(s, h, route, header)
          \/ \E h \in Hash, q \in Quote : StartVerify(s, h, q)
          \/ Handle(s) \/ Throw(s) \/ Die(s)

Spec == Init /\ [][Next]_vars

-------------------------------------------------------------------------------

TxType == [memo : Quote \union {NoQuote}, payer : Payer, amount : 1 .. MAX_AMOUNT, time : Nat]

RowType == [status : {"none", "pending", "expired", "confirmed", "upstream_failed"},
            hash : Hash \union {NoHash}, route : Route \union {NoQuote}, issued : Nat]

ReqType == [pc : Fallible \union {"idle", "verify", "forward", "mark", "release"},
            kind : {"chat", "verify"}, hash : Hash \union {NoHash},
            route : Route \union {NoQuote}, header : Quote \union {NoQuote},
            quote : Quote \union {NoQuote}, issued : Nat,
            retry : BOOLEAN, stream : BOOLEAN, missed : SUBSET Quote]

(* The types of the rows, the keys and the handlers' locals.               *)
TypeOK ==
    /\ now \in 0 .. MAX_TIME
    /\ tx \in [DOMAIN tx -> TxType] /\ DOMAIN tx \subseteq Hash
    /\ row \in [Quote -> RowType]
    /\ claimed \subseteq Hash /\ recorded \subseteq Hash
    /\ debt \in [Quote -> 0 .. MAX_DEFICIT] /\ settled \subseteq Quote
    /\ req \in [Slot -> ReqType]
    /\ wins \in [Hash -> Nat] /\ delivered \in [Hash -> 0 .. MANY]
    /\ spent \subseteq Hash

(* Single use, by the database alone: however the Redis claim was lost and *)
(* whatever the contract answered, one request at most wins a hash, and no *)
(* two rows carry the same one.                                            *)
ClaimedOnce ==
    \A h \in Hash :
       /\ wins[h] <= 1
       /\ wins[h] = Cardinality({q \in Quote : row[q].hash = h})

(* The transaction is on the chain, in the window of a quote of that time, *)
(* and pays the deposit.                                                   *)
WasPaid(h, issued) ==
    /\ h \in DOMAIN tx
    /\ tx[h].amount >= Deposit
    /\ tx[h].time \in issued .. issued + QUOTE_EXPIRY

(* A row that carries a hash was paid, inside its quote's window, and so   *)
(* was the request that is about to take a row, though row and quote were  *)
(* read before the verification and are written after it.                  *)
AdmissionWasPaid ==
    /\ \A q \in Quote : row[q].hash # NoHash => WasPaid(row[q].hash, row[q].issued)
    /\ \A s \in Slot : At(s, "confirm") => WasPaid(req[s].hash, req[s].issued)

(* A consumed row stays consumed: it keeps its hash, and no job or handler *)
(* turns it back into a quote that can be paid or an expired one.          *)
BindingPermanent ==
    [][\A q \in Quote : row[q].hash # NoHash =>
          /\ row'[q].hash = row[q].hash
          /\ row'[q].status \in {"confirmed", "upstream_failed"}]_vars

(* "Preserve their payment for a free retry rather than burning their      *)
(* funds": a confirmed payment has bought a response or a handler still    *)
(* works on it, unless a handler died or the verify endpoint consumed it.  *)
PaidIsServedOrHeld ==
    \A q \in Quote :
       row[q].status = "confirmed" =>
          LET h == row[q].hash
          IN  \/ delivered[h] > 0
              \/ h \in spent
              \/ \E s \in Slot : req[s].hash = h /\ req[s].pc \in Serving

(* proxy.controller.ts:386: a consumed hash "must never grant access a     *)
(* second time".                                                           *)
ServedOnce == \A h \in Hash : delivered[h] <= 1

(* The debt gate: when a chat request is about to consume its payment, its *)
(* payer owes the provider nothing but what responses that overlapped with *)
(* this very request cost after it had read the ledger.                    *)
NoAdmissionWhileOwing ==
    \A s \in Slot :
       At(s, "confirm") /\ req[s].kind = "chat" => OpenDebts(req[s].hash) \subseteq req[s].missed

===============================================================================
