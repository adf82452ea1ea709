# Formal verification of the pay-per-token LLM gateway

TLA+ models of the gateway: the Soroban contracts that hold its money, the
request path that turns one on-chain payment into one LLM answer, prepaid
credit, the automation that pays providers, the way paid calls reach an
upstream, the client SDKs that pay, and the console with its start-up, sign-in
and catalogue. TLC checks the models on small instances, and TLAPS proves their
safety properties for every value of the parameters. Source paths are
relative to the repository; line numbers are those of the modelled commit.

Contents: [1 the system](#1-the-system) · [2 modules](#2-the-modules) ·
[3 runs](#3-the-runs) · [4 disagreements found](#4-where-code-and-documents-disagree) ·
[5 proofs](#5-the-proofs) · [6 limits](#6-what-is-abstracted-and-what-is-not-modelled) ·
[7 what remains](#7-what-remains) · [8 running it](#8-running-it)

## 1. The system

A client asks `POST /v1/chat/completions` without payment and is answered 402
with a **quote** (amount, memo, expiry). It pays on Stellar and asks again with
the transaction **hash**. The gateway claims the hash, checks the payment on
Horizon, records it in a contract, confirms the quote's row, forwards the
request to the route's provider and meters what it cost. Alternatively the
client prepays into the escrow contract and names an address in `X-Escrow-User`,
whose balance the gateway charges afterwards (nothing authenticates that header,
section 4). Confirmed revenue is paid out to providers
through a multisig wallet. Providers sign in to a console with their wallet and
manage their endpoints there.

| component | state | operations | correct when |
|---|---|---|---|
| credit-escrow contract `contracts/credit-escrow` | balances, revenue, `charged` and `refunded` quotes, usage log, admin, pause | deposit, withdraw, charge, refund, withdraw_revenue, set_admin, pause | it can always pay every balance and the revenue; a quote is charged once; users lose tokens to usage only |
| multisig contract `contracts/multisig` | signers, threshold, proposals with approvals | propose, approve (executes at the threshold), set_signers | an executed proposal is paid once, by a quorum; no rotation locks the wallet |
| payment-verifier contract `contracts/payment-verifier` | used hashes, index, trail of records, pause | record_payment, refund_payment, get_payments | used set, index and trail agree; a consumed hash stays consumed; paging misses nothing |
| payment gate `modules/proxy/proxy.controller.ts`, `modules/payments`, `modules/x402`, `packages/x402-core` | `Payment` and `UnderpaymentDebt` rows, `x402:replay:*` keys, locals of the handlers in flight | quote, resolve, claim, verify, settle debts, confirm, forward, meter, mark failed, restore, release, expire; `POST /x402/verify` | one payment buys one consumption; what is admitted was paid; what was paid is served or kept |
| prices and on-chain verification `packages/x402-core` | none | quote, compare, match operations and memo | a payment counts once, in the quote's asset, to its address, in its window |
| escrow settlement `modules/proxy/proxy.controller.ts`, `x402/escrow-client.ts` | the draw's row, the debt, the settlement in flight | read the balance of the address named, charge and refund without waiting, record | what is charged was answered for the address named; what was answered is charged or counted as lost |
| payout automation `modules/payouts`, `modules/admin`, `x402/payout-lock.ts` | `PayoutProposal` rows, a Redis lock, the wallet | daily job, admin propose and approve | no more is proposed than was earned; the ledger never claims an execution that did not happen |
| load balancer `modules/balancer` | per-provider running weights, consecutive failures, open time | select, record | nobody gets ahead of its share of the turns |
| upstream proxy `modules/proxy/proxy.service.ts` | per-host circuit in Redis, the stream being relayed | check, success, failure, retry, stream | a failing host is tried again; calls end; a stream arrives whole, with its receipt unless recording its cost failed |
| client SDKs `packages/sdk`, `python/x402_sdk` | one call and its transaction | ask, pay, wait, retry, read | a call ends, but for waits that nothing bounds; whoever serves it was paid; what was paid in time is served, or one of few named things went wrong |
| rate limit `common/guards/rate-limit.guard.ts` | windows in Redis | count | no window of a bucket holds more than it may |
| webhooks and notices `packages/notifications`, `modules/notifications` | one event's delivery, the feed | look up, send, retry, mark read | a receiver that keys by event id handles an event once |
| authentication `packages/authentication`, `modules/auth` | challenges, sessions, tokens | issue, verify, guard, sign out | a session was signed for; a request acts while its session holds |
| routes and providers `modules/providers`, `modules/routes` | their rows | create, update, approve, delete | rows change by their owner's request; no route outlives its provider |
| configuration and schema guard `packages/config`, `common/schema-guard.ts`, `main.ts` | environment, tables, the process | validate, probe, ping, listen | only a process that has seen the tables the guard names, and whose settings name one network, listens |
| console listings `modules/analytics`, `modules/payments`, `modules/admin` | none (they read events, payments, audit entries, payouts) | totals, events, time series, statistics, pages | a series shows what a count shows; a wallet is shown its own rows; paging misses none |
| health, metrics, dashboard, logger, types | | | not modelled, section 6 |

**How they meet.** Handlers of any number of replicas share the database (a
unique index on `Payment.txHash`, conditional updates), Redis (claims, locks,
circuits, sessions, windows) and the chain. Between two awaits of one handler
anything else may run. The contract's used set is a second line behind the
Redis claim, and the database behind both. The payout job, the admin API and
foreign signers meet in the multisig wallet, which the gateway reads back after
the fact. The SDK meets the gateway twice per call, and each of the two requests
is counted, routed and answered by itself.

**What is hard.** Rows read before a verification that takes seconds and written
after it; two requests with one hash; Redis that expires or loses a claim; a
contract that answers "unused" when it cannot be asked; a failure after a
payment was recorded and before its row was confirmed; free retries racing one
another; debts that arise while another request of the payer is being admitted;
credit that is read and not reserved; settlements nobody waits for; jobs that
outlive their lock; transactions whose answer is lost; approvals by somebody
else in between; circuits that open, age and are probed by concurrent calls;
clients that stop reading; a stream whose cost cannot be recorded once its
headers are sent; a retry that is routed elsewhere, or comes from another
address; sessions that end
while a request is in flight; migrations that run while a process starts.
`PROJECT.json` lists each under `hazards`, at the line where it bites, with the
properties that would notice.

## 2. The modules

Each module starts with what it models; `PROJECT.json` `map` leads from every
definition to its lines. A definition named `X_Something` is a faulty variant of
the definition `X` that follows it: replacing the one by the other makes a
property fail, which shows that the property depends on that line of code.

| module | models | builds on |
|---|---|---|
| `Totals` | amounts per key and their total | |
| `PrepaidCredit` | abstract specification: claims on held tokens, settled once per quote, frozen as a whole | |
| `CreditEscrow` | the escrow contract over the token's ledger | `Totals`; refines `PrepaidCredit` |
| `Pricing` | the deposit of a request, its metered cost, the difference | |
| `EscrowSettlement` | requests paid from prepaid credit, from the address named in `X-Escrow-User` to the settlement record | `CreditEscrow`, `Pricing` |
| `Multisig` | the payout wallet | `Totals` |
| `PaymentVerifier` | the audit trail, with a reader that pages through it | |
| `PaymentGate` | chat requests paid by hash, `POST /x402/verify`, expiry, debts, replay claims | `Totals` (what is owed is a total) |
| `Payouts` | daily job, admin API, distributed lock | instance of `Multisig` as the wallet |
| `LoadBalancer`, `CircuitBreaker` | selection of a provider; the breaker in Redis | `Totals` (the total of the weights) |
| `Forwarding` | paid calls through balancer, breaker and retries | both of them |
| `Verification` | quotes, their memo, and whether a transaction pays one | `Pricing` |
| `RateLimit` | the sliding window of one bucket | |
| `StreamFraming` | the lines of a streamed answer, writes that wait for the client, the withheld `[DONE]`, an `onDone` that may reject, both SDKs' readers | |
| `Notices` | one event on its way to the feed and to a webhook | |
| `PaidCall` | one call of either SDK, composed with the four above | all four |
| `Startup` | a process from its environment to `listen()`, while migrations run | |
| `Sessions` | challenges, sessions, tokens, the guard | `Startup` |
| `Catalog` | providers, routes and notices in the console | `Sessions` |
| `Analytics`, `Listings` | totals, event list, time series and ranking; pages and statistics of rows; all as operators | |
| `TotalsTheorems`, `…Proofs` | lemmas and theorems, section 5 | |
| `MC…` | constants for TLC | the module of that name |

**Contracts.** An invocation is one transaction. One that panics changes
nothing, so a panic is a disabled action. `require_auth` is the parameter
`signer`; amounts include zero and negative numbers, since callers may pass
them. `CreditEscrow` keeps both sides of every transfer (the contract's entries
and the token ledger `wallet`), so the order of the two in the code and the
contract's own account as a party are part of the model. `PaymentVerifier` adds
the reader's `cursor` and `collected`, so that records may be appended between
two pages.

**PaymentGate.** A slot is a handler, its `pc` the next await: `lookup`
(`findByTxHash`), `resolve` (`X-Quote-Id` or memo), `claim` (Redis), `verify`
(contract and Horizon), `debt`, `settle`, `confirm` (`confirmPayment`),
`reread`, `forward`, then `restore`/`meter`/`reply`, and `mark`/`release` for
the catch block. `row` stands for the Payment table, `claimed` for the
`x402:replay` keys, `recorded` for the contract's used set. `LoseClaim` covers
the TTL and a Redis restart. `Throw` is any database or Redis call failing,
`Die` the process stopping or the catch block itself throwing. `wins`,
`delivered`, `spent` and the field `missed` are history and influence nothing.

**EscrowSettlement.** Every request draws on a fresh quote, so a draw is named by
it: `draw[q].stage` is the next step of its handler, `job[q]` the settlement
that the handler starts and does not wait for. A contract call is simulated,
submitted, and lands, fails or is dropped later, whether or not its sender
still waits. `Elsewhere` is the rest of the contract's use that a draw can
notice: deposits, withdrawals and pausing. `drained` records whose balance fell
under a draw that had read it.

**Payouts.** A slot is a running job or admin request. `Submit` is
`signAndSendContractTx`: it reports success when `send()` returns and failure
when something throws, and with a fault of kind `answers` either report may be
wrong. `SimulatePropose` takes the id from the simulation, which is what the
code records. `Crash` leaves the lock to its TTL; a fault of kind `locks` lets it
expire under a job that is still running; one of kind `others` is a proposal of
somebody else that outdates a simulated id. `origin` is history: for each
proposal the row it was made for, or 0 if it is not the provider's or its row
has been given up.

**Forwarding.** `record` and `recordFailure`/`recordSuccess` of the two modules
are conjoined where the code calls them, including the paths on which only one
is called (a stream that breaks off is a failure for the breaker and a success
for the balancer). `Tick` ages both.

**PaidCall.** `call.pc` is the SDK's next await. The gateway's handler is one
step (`RetryPaid`), with the refusals of every stage: the rate limit, the route,
the address the quote is bound to, the verification, a debt, Horizon, the
upstream, and a failure of the gateway's own database or Redis at any point
(the catch block). What may happen between its awaits is `PaymentGate`'s
subject. `tx` is the transaction, which may land, or fail, until its time bound,
long after the SDK has given up. `trouble` collects what went wrong outside of
the SDK. A call is `hung` when what it waits for does not come and nothing ends
the wait. The two SDKs differ in `CarriesQuoteId`, in their time limits (the
Python client's thirty seconds, none in the TypeScript client) and in their
readers.

**StreamFraming.** `stream.pc` is the next step of `forwardStreamRequest`,
`stream.waits` a `writeChunk` that waits for `drain` or `close`: no step of the
loop is taken meanwhile, and the safety timer, which aborts the upstream only,
does not end the wait. `OnDoneRejects` is the callback that records cost and
request throwing, before the receipt or after it; it leaves the stream
`abandoned`, as the sentinel and `res.end()` behind it are skipped.

**Startup, Sessions, Catalog** extend one another: `Boot` runs until the process
listens, and `Serve` only while it does. A request in flight is one slot; its
`pc` is the next call to the store or the database, so a look-up and the write
that follows it are two steps, with anything in between. `late` says that a
request, or a verification, began when its session or challenge was already
over. A URL of the environment is the main network's, a test network's that its
text names (`marked`), or a test network's that it does not name (`unmarked`):
`isTestNetworkUrl` is a search for two words and lets the last through.

## 3. The runs

"pass" runs finish without error; their bounds are chosen so that the named
situations occur, and every action of every next-state relation fires in some
run. Each property has a mutant in `PROJECT.json` that violates it in the same
run.

| run | instance | shows |
|---|---|---|
| `credit_escrow` | 2 users and the contract's own address, 2 quotes, amounts −1..2, 3 tokens | `Solvent`; revenue and usage log agree (`RevenueIsUsage`, `UsageIsCharged`); users pay only usage; every step is a step of `PrepaidCredit` or a stutter (`ImplementsPrepaidCredit`) |
| `escrow_settlement` | 1 user with credit for a request and a half, 2 draws, a flat and a metered route, answers of 0, 1 or 3 tokens at an estimate of 2, lost and late answers, crashes | what is in the usage log is the cost of an answered request that named the address charged (`UsageIsServed`); a draw is refused after admission only if the balance was drained under it; a refund follows a landed charge; what was answered ends charged, refused by the contract, counted as lost, or was never deposited (`ServedIsSettled`) |
| `multisig` | 3 possible signers, 5 signer vectors (one with a duplicate), 2 proposals, 2 tokens | each executed proposal is paid once, and at a quorum; nothing happens before a quorum of the first signers; the threshold stays reachable |
| `payment_verifier` | 4 hashes, pages of 0 to 4 records capped at 2, `u32` cut to 4 | used set, index and trail agree; records are only appended or marked; a walk with concurrent writes has no gap |
| `payment_gate` | 2 handlers, 1 hash, 2 quotes, a flat route, 2 instants, database faults, crashes, `/x402/verify` | `AdmissionWasPaid`, `PaidIsServedOrHeld`, `BindingPermanent` |
| `payment_claims` | 2 handlers, 2 hashes, 2 quotes, metered costs | `ClaimedOnce`; `NoAdmissionWhileOwing`: a payer with debts is admitted only past debts recorded after this request had read the ledger |
| `payouts` | 2 jobs of all three kinds, 2 rows, 3 proposals, threshold 1, crashes, one fault | only an overrun lock admits a second job; no row says executed of a proposal that is not; what is proposed for rows never given up was earned |
| `forwarding` | 2 providers (weights 2 and 1) of one host, 2 calls, 2 attempts, both strategies, Redis failing | no provider is ahead of its share, or behind it, by more than the highest weight times the number of the others (`SpreadEvenly`); `TriedAgain` and `CallsEnd` (liveness) |
| `paid_call` | 1 call, both SDKs, 2 providers, a flat and a metered route, 3 instants, a limit of 1 request, streams of up to 3 lines, writes that wait, an `onDone` that rejects, 3 webhook attempts | whoever answers was paid (`ServedByPayee`); a payment retried in time is served, or the retry was throttled, routed elsewhere or from another address without a quote id, the payer owes, or Horizon, the upstream, the gateway's own stores or the network failed (`PaidIsServed`); `StreamComplete`, `HandledOnce`, `RateKept`; `CallReturns` (liveness) |
| `console` | 2 wallets, 2 requests, 1 challenge, 2 sessions, a provider with a route and a notice; 12 environments: production, development, 9 wrong in one variable, and one whose Horizon is a test network's without saying so | `BootIsSafe`: a gateway that listens on the main network uses no URL that names a test network, and has seen the tables its guard names; `SessionsAreSigned`, `ActsWhileSignedIn`, `NoOrphans`, `OwnersOnly` |
| `served_once`, `paid_twice` | minimal | violated, see section 4 |

**Operators checked against references.** Pure functions are compared by
`ASSUME`s that TLC evaluates in these runs: `VerifierAgrees` compares
`verifyStellarPayment` with a loop over the operations, on all transactions of
up to two operations; `SeriesCounts` compares the time series with a count by
whole seconds; `DepositCovers` that no answer within its estimate costs more
than its deposit; `TotalIsSum` the total of a ledger with the community
modules' sum. Of the console's listings, `HighestAccount` says that the rankings
of callers and routes account for the revenue; `PagesListAll` that who pages to
the last announced page sees every row that was there at the start, though rows
are added between the requests and between the two statements of one; and
`OwnRowsOnly` that a wallet is shown its own rows, and of all its providers the
sum of what it is shown of each. Rows of one instant come in any order, so
`PagesListAll` needs distinct times: of two rows with one `createdAt` one may be
listed on two pages and the other on none.

**Why the bounds are enough to be interesting.** Two handlers and one hash
produce every race for a payment; the second quote lets a hash be offered for a
row it does not belong to; two hashes of one payer are needed for debts. Two
instants with an expiry of zero separate "issued before" from "paid in the
window" and "expired". For the payouts two jobs suffice for every overlap of
read, reserve and propose; the third proposal is what a second claim on the same
revenue needs beside one that went astray (with two, `ProposedIsEarned` would
hold by the bound). Credit for a request and a half makes two admitted draws
compete. Two providers with weights 2 and 1 distinguish smooth weighted
round-robin from plain round-robin; `SpreadEvenly` was also tried with three to
five providers and other weights. One would expect that no provider is ever a
whole cycle ahead, as with constant availability; with circuits that open and
close this fails from four providers on (weights 8, 8, 1, 1 can reach a running
weight of 18, the sum of all four), which is why the bound is the highest weight
times the number of the others. That bound is proved (section 5). In `paid_call`
quotes, transactions and patience last one unit of three, as all three last 300 s
in the code, and the window of the rate limit is full after one request; three
lines are the fewest with a sentinel between two lines of content. `u32`
saturation is modelled with a smaller maximum, at which the paging arithmetic
behaves as at 2^32−1.

**Bounds that are guards.** `MAX_TIME`, `MAX_AMOUNT`, `MAX_DEFICIT`, `MANY` and
the supply of quote ids (`SpareId`) in `PaymentGate`; `MaxRows`, `MaxProposals`,
`MaxRevenue`, `MaxFaults` in `Payouts`; `MaxProposals`, `MaxFunding` in
`Multisig`; `MaxTime`, `MaxCounted`, `MaxLines` in `PaidCall`; `KEY_TTL` and the
cooldowns as the largest ages in `LoadBalancer` and `CircuitBreaker`, past which
nothing changes in the code either.

There are two state constraints. `OthersSignIn` of `console`: gateways in
another environment than `Live`, which differ in their URLs or in a sign-in
without a signature, are explored up to the first provider. `DetailAtOnce` of
`paid_call`: the lines of a stream and the attempts after the first of a webhook,
neither of which reads the clock of the call, are explored in calls answered in
the first instant; later ones have streams that begin, end, break and wait
without a line. This cuts nothing before a call is answered, so
`CallReturns` sees every wait of the call itself.

**The budget of faults.** In `payouts` one fault may happen, of any kind and at
any time. `LockExclusive` and `ProposedIsEarned` say themselves what they need:
no lock that expired under the job in question, and none at all. That claims
stay covered with any number of faults is proved (section 5). `paid_twice` has
no faults. `payment_claims` has no crashes and no `/x402/verify`, which
`payment_gate` has; `ClaimedOnce` is proved for both.

**Deadlock** is checked in all runs but two. In `credit_escrow` the admin role
may be handed to the contract's own address, which signs nothing, while the
contract is paused: the program really stops there. In `paid_call` the single
call comes to its end.

**Fairness.** `Forwarding`: weak fairness of the clock, and of the steps of an
admitted call. Attempts are bounded by `AbortSignal.timeout` for plain calls and
by the safety timer while a stream is read; a streamed call that waits for
response headers relies on the HTTP runtime's default timeout. Nothing is
assumed of clients: `Paid`, `Unpaid`, `Block` and `DrainOrClose` may never
happen, so `CallsEnd` says that a call ends *or* waits for a client that has
stopped reading (`writeChunk` waits for `drain` or `close` without a timer).
`PaidCall`: weak fairness of the SDK's steps, of the paid retry, of time and of
the notice. What an SDK step waits for comes, fails, or is known to `Hang`, which
is among these steps: the Python client's requests give up after thirty seconds
of silence, while the TypeScript client's `fetch` calls and the wait for an
external signer have no timeout (`sdk/index.ts:63`, 187, 319, 350; the SDK also
runs in browsers, so no runtime default is counted on). Of the stream, weak
fairness of the safety timer and of the last steps (`Finish`): the database
answers `onDone` or throws. Both are enabled only while no write waits. Nothing
is assumed of Stellar (`Land`), of the upstream's lines, of other requests or of
a client that reads (`DrainOrClose`). So `CallReturns` says that a call returns
though a transaction never lands and an upstream falls silent, *or* it hangs on
one of those waits, a write waits for ever, or a reader without a timeout waits
for the end of an abandoned stream. The other modules state no fairness and no liveness.

## 4. Where code and documents disagree

The two "violation" runs check a sentence of the repository that its code does
not keep; `PROJECT.json` `findings` quotes it and the line.

* `served_once`: two free retries of one `upstream_failed` payment that both
  read the row before either is answered are both served
  (`proxy.controller.ts:365`, against the comment at 386).
* `paid_twice`: approving a proposal that another signer's approval has already
  executed fails, the row is marked failed, and its revenue is proposed and paid
  again (`admin.service.ts:450`).

Met while modelling, described by the models and not given a run of their own:

*Prepaid credit.* `X-Escrow-User` is a bare header: nothing shows that whoever
sends it owns the address it names (`proxy.controller.ts:110` and 138,
`x402.service.ts:225`), so anyone can spend a named user's credit.
`UsageIsServed` speaks of the address named for that reason. It speaks of
*answered* requests, not of served ones, because the settlement is started before
the handler is through: it lands though the handler fails afterwards and the
client is told 502. A process that stops loses the settlements it has started,
and nothing tries them again; a charge the contract refuses because the balance
went elsewhere was served for nothing.

*Request path.* The contract, Redis and the database each remember that a hash
is consumed and are written one after another. The database fails after the
payment was recorded in the contract and before the row was confirmed: the 502
says the payment is preserved for retry, but the retry is refused as a replay,
as is any other hash that the contract or Redis remembers and the database does
not (`proxy.controller.ts:225`).
After one cooldown the balancer never takes a provider that keeps failing out of
rotation again (`load-balancer.service.ts:217`, against the comment at 100). A
half-open circuit lets every concurrent call through, not "one probe call"
(`proxy.service.ts:135`). A stream that breaks off counts as a success for the
balancer (`proxy.controller.ts:803`); a 4xx of the upstream counts as a failure
of its circuit. When a stream fails, `[DONE]` is written before the receipt and
a second one may follow it, against the comment at `proxy.service.ts:616`; an
upstream's last line without a newline runs into the receipt, and an
unterminated `[DONE]` is forgotten. `onDone` is awaited in the `finally` block
that ends a stream, after its safety timer was cleared, and writes to the
database before the receipt and after it (`proxy.controller.ts:810`, 845, 1048):
where it rejects, neither the withheld `[DONE]` nor `res.end()` is written
(`proxy.service.ts:618-623`), the handler's 502 throws as headers were sent, and
an answer that was delivered whole is marked `upstream_failed`, with a free
retry. A write to a client that stops reading waits without a timer, and the
safety timer does not free it (`proxy.service.ts:515`).

*Clients.* The paid retry selects its provider again, so with two providers it
may reach another one than the quote's and be refused (`proxy.controller.ts:93`
and `289`). It carries a hash the rate limit has never seen and so counts as
unpaid: it can be answered 429 after paying, and an SDK never reaches the paid
tier. The Python client sends no `X-Quote-Id`: when its
address has changed since the quote was given it is answered 403 after paying
(`proxy.controller.ts:454-471`), and if the memo cannot be read from
Horizon its payment is held against a fresh quote and refused as too early,
except within the second of the payment, when it is accepted even past the
quote's expiry. That fresh quote ignores `max_tokens`. A metered route priced at
zero quotes zero and then requires at least one stroop when `MIN_PAYMENT` is
zero. The 402 that asks for an escrow top-up is never paid by an SDK. A lost
answer to `submitTransaction` is a failed call whose payment may land; a lost
answer to any request of the TypeScript client is a call without an end. The
TypeScript SDK passes base64 text where the Stellar library takes a transaction;
the model does what is meant.

*Payouts.* The recorded proposal id is the simulation's (`tx.result`, which the
comment at `multisig-client.ts:115` takes for the invocation's). A proposal of
somebody else in between makes the row name a stranger's proposal: an approval
then signs that one, "executed" is what it became, and a failure marks the row
failed while its own proposal stays approvable. Two approvals in flight can turn
a failed row back to "approved", as the status was read before the await. The
proposal of a failed row remains in the wallet, which is why `ProposedIsEarned`
speaks of rows never given up. A row left pending by a crash reserves its
revenue for ever.

*Console.* The approve endpoint has only `AuthGuard`, where the comment at
`providers.service.ts:164` says "Only callable by an admin", and an owner may set
`active` directly. Two overlapping verifications of one challenge both buy a
session. Deleting a provider or a route cascades to payments and debts. The
schema guard looks for the three oldest tables only. The check for a
main-network gateway searches its URLs for `testnet` and `futurenet`, so a URL of
a test network that names neither is accepted (`config/src/index.ts:272-288`).
A main-network gateway
without contract ids in its environment falls back to test-network ids;
`NETWORK_PASSPHRASE` is checked and never used. Rounding in
`analytics.service.ts` moves or drops events of the last half second of a
window, which the alignment described at 197 is meant to prevent. Event ids are
32-bit hashes and may collide. `notify` reports success whatever happened.

## 5. The proofs

`tlapm` checks eight modules; `PROJECT.json` `theorems` lists the results. The
constants are arbitrary but for the named assumptions of the modules
(`GateAssumption` and so on: bounds are natural numbers, null values are not
members, the first configuration of the wallet is valid), which TLC evaluates in
every run. Two theorems need one more hypothesis and state it.

| module | theorems | by |
|---|---|---|
| `TotalsTheorems` | lemmas about totals | |
| `EscrowProofs` (contract) | `TypeCorrect`, `SolventAlways`, `RevenueIsUsageAlways`, `UsageIsChargedAlways`, `UsersPayOnlyUsageAlways`, `ImplementsAlways` | `SolventInv`, `HistoryInv`, `RevenueInv` |
| `EscrowProofs` (settlement) | `SettlementTypeCorrect`, `UsageIsServedAlways`, `RefusedOnlyIfDrainedAlways`, `RefundFollowsChargeAlways`, `ServedIsSettledAlways` | `SettlementInv` |
| `ContractProofs` (multisig) | `TypeCorrect`, `QuorumReachableAlways`, `InitialQuorumAlways`, `ExecutesAtQuorumAlways`, `ExecutedPaidOnceAlways` | `QuorumInv`, `PaidInv` |
| `ContractProofs` (verifier) | `VerifierTypeCorrect`, `ReplaySetMatchesTrailAlways`, `TrailAppendOnlyAlways`, `WalkHasNoGapAlways` | `TrailInv` |
| `PaymentGateProofs` | `TypeCorrect`, `BindingPermanentAlways`, `ClaimedOnceAlways`, `AdmissionWasPaidAlways`, `PaidIsServedOrHeldAlways`, `NoAdmissionWhileOwingAlways` | `GateInv`, `AdmissionInv`, `ServedInv`, `DebtInv` |
| `PayoutsProofs` | `LockExclusiveAlways`, `LedgerNeverAheadAlways`, `ProposedIsEarnedAlways` | `PayoutsInv` |
| `ForwardingProofs` | `SpreadEvenlyAlways` | `SpreadInv` |
| `PaidCallProofs` | `CreditedWasPaid`, `ServedByPayeeAlways`, `PaidIsServedAlways`, `StreamCompleteAlways`, `HandledOnceAlways`, `RateKeptAlways` | `CallInv`, `StreamInv`, `NoticeInv`, `RateInv` |
| `CatalogProofs` | `BootIsSafeAlways`, `SessionsAreSignedAlways`, `ActsWhileSignedInAlways`, `NoOrphansAlways`, `OwnersOnlyAlways` | `BootInv`, `SessionInv`, `CatalogInv` |

**Totals.** The total of a ledger is the cardinality of the set of its units, so
that no induction over a sum is needed: `TotalsTheorems` derives from the
library's facts on cardinalities what one changed, added or removed entry does to
a total, and how totals over sets of keys (`TotalOver`) add up. `MCCreditEscrow`
has TLC compare a total with the sum.

**The escrow contract.** `Solvent` alone is not inductive, because cardinality
says nothing about infinite sets: `SolventInv` adds that the units are finitely
many. It is an inequality because revenue withdrawn to the contract's own address
stays in its account unaccounted for. `RevenueIsUsage` relates the revenue to a
sum over users of sums over their histories; `HistoryInv` says that each history
is a finite ledger, and one lemma, that nothing but a charge touches a history,
carries the three properties about usage. The refinement of `PrepaidCredit` is
proved step by step: a transfer moves what the abstract step moves, and each
action maps to one abstract action or to a stutter.

**Settlement.** The four properties concern different moments of a draw, and none
is inductive. `SettlementInv` is an invariant of each quote by itself
(`QuoteInv`) and of each usage record (`EventOK`). It ties the stage of the
handler, the leg of the settlement and the transaction in flight to what the
contract has under that quote; for the refusals, that a balance read by a draw
either still covers its deposit or has been `drained`. A step then concerns one
quote, and the others keep their conditions because they share nothing with it
but a balance.

**Multisig.** `QuorumInv`: the approvals of a proposal have acted, and as long as
the configuration is the first, all of them are by first signers. `PaidInv`
counts the executed proposals as a ledger.

**Payment gate.** The base is `GateInv`: types, `ConsumedRows` (a row with a hash
has been confirmed), `Carried` (a handler at work has a hash) and `Held` (a
handler about to read its row again finds one). Types alone are not inductive, as
reading a row by hash has a result only if there is one.

* `ClaimedOnce` follows from one lemma, `NextHashes`: a step leaves all hashes as
  they are, or one handler wins a hash no row has.
* `AdmissionWasPaid` needs `AdmissionInv`: past the verification a handler's
  payment satisfies the time of issue it read (`Verified`), that time still is
  the stored quote's (`Quoted`), and so rows are paid (`RowsPaid`).
* `PaidIsServedOrHeld` needs `ServedInv`: what handlers beyond the confirmation
  hold is the row of their own hash, streams have begun to answer, and every
  confirmed row is answered, consumed or in somebody's hand. When a handler lets
  go of a hash, either it has answered, or it has taken the row out of the status
  `confirmed`. The theorem assumes `MANY > 0`: where the history counts no
  delivery at all, it cannot tell that one happened.
* `NoAdmissionWhileOwing` needs `DebtInv`: a debt belongs to a row that carries a
  hash, so its payer is known and never changes, and the open debts are finitely
  many, so a sum of zero means there is none. What becomes open later is in
  `missed` of every request that has already read the ledger.

**Payouts**, for any number of jobs, rows, faults and amounts, by one invariant
in five parts. `Shape` has the types. `JobInv` says what a job knows between its
steps: one that is about to propose has a pending row without an id that no other
job has, and one that approves has the id of its row. `LockInv` adds that no job
is overrun without a fault of the lock. `LedgerNeverAhead` needs only that the
wallet takes nothing back. `MoneyInv` is the heart: the proposals that count are
reservations of distinct rows, of the same amount, and a job that has set revenue
aside has room for it beside all claims. Claims are bounded by what the rows
reserve through an injection of their units, again without induction. The lock is
needed in one place, when revenue is read.

**Balancer.** A bound on each provider's running weight is not inductive: several
providers just below the bound can push one of them over it. `SpreadInv` bounds
sums: the weights always sum to zero, and any k of n providers together are ahead
by at most k·M·(n−k), where M is the highest weight. A turn raises each available
provider by its weight and takes the sum of these from one of the highest. A set
with the chosen provider does not grow. Of a set without it the available ones
are each no higher than the chosen one, so that a set of j of them has at most
j/(j+1) of what they have together with it; the bounds of the larger set and of
the unavailable rest then add up to the bound of the set (`Crowding`). One member
gives the upper bound, all but one the lower. Sums are of natural numbers, so the
proof shifts the weights by a constant (`Lifted`).

**Paid call.** `CallInv` ties the call to its transaction: made for the quote's
provider, after the quote, landed in the past. `PaidIsServedAlways` is about the
one refusal without a trouble of its own, a payment that is not accepted: the
route was the quote's and the memo was read, or a trouble is recorded. It assumes
`MIN_PAYMENT > 0`, because a zero quote does not cover itself (section 4); its
core is `OwnPaymentAccepted`, that a client's own payment passes the verification
of its own quote. `CreditedWasPaid` says that what the verification credits is
the amount of an operation to the quote's address, in its asset, covering the
quote, for transactions of any length. `StreamInv` says line by line where what
the upstream sent stands on the wire, and that receipt and sentinel come once and
last; of an abandoned stream, that its content is there all the same and no
sentinel follows. The readers give sets of places, so nothing has to be folded. `NoticeInv`
ties what the receiver has seen to the channels reported. `RateInv` says that
the set in Redis holds at least what the window that ends now counts.

**Console.** `BootInv`: what a starting process has seen stays true, as nothing
in the schema is dropped, and the configuration in use is one that the checks let
through. `BootIsSafeAlways` says of a main-network gateway what those checks can
see: no URL that names a test network, the network's own passphrase and issuer. `SessionInv`: spent challenges are gone, ended sessions
are not live, and what a request in flight relies on lasts. `CatalogInv`: a
request about to write still names a row of its own wallet.

**Only model-checked.** The liveness properties `TriedAgain`, `CallsEnd` and
`CallReturns`: liveness under fairness is beyond the prover. `ServedOnce` and
`PaidIsEarned` are violated (section 4). The pure operators of section 3 that are
compared with references over bounded inputs (`verifyStellarPayment` as a loop,
the time series, the listings) would need inductions over data, which none of the
installed provers can do. The one recursive operator, `FirstPaid` in
`MCPaidCall`, is a reference for TLC alone.

## 6. What is abstracted, and what is not modelled

* Contracts: storage lifetimes and events are left out. On the network a
  transaction whose storage footprint was simulated before another proposal took
  its id may be rejected; the model lets it succeed, which is the weaker
  assumption for `ProposedIsEarned`.
* Gate: one provider, a deposit is one unit, the binding of a quote to an IP
  address is a refusal that may happen, prices and token counts are a free
  choice of the deficit, the row left by a losing payment without a quote is
  dropped. Horizon may fail at any time. The fallback to claims in memory is for
  tests and left out.
* Prepaid credit: deployments with settlement enabled and a signing key; a
  request that carries a payment hash beside its escrow headers is left out. The
  contract is charged the full cost of an answer that exceeded its deposit while
  the excess is recorded as a debt as well; the recorded settlement hash may be
  of a transaction that failed; a refund moves the surplus to the user's wallet,
  not back to the balance. These are in the model as they are in the code.
* Payouts: one provider's ledger; whether a provider may be paid is left to the
  environment.
* Forwarding: latency averages are a free choice among available providers, the
  breaker's in-memory fallback is a lost operation (`RedisFails`), one gateway
  instance.
* Rate limit: a request's time is the gateway's `Date.now()`, taken before the
  script in Redis runs (`rate-limit.guard.ts:135`); the model has one clock that
  does not go back, so scores that arrive out of order from several replicas are
  left out.
* Notices: one event at a time, so event ids are not compared with each other.
* Paid call: the gateway's handler is one step, the upstream answers a plain
  call at once, and one transaction is made per call, as in both SDKs. Amounts
  and prices that are not numbers, and `requireMemo`, which nothing sets, are
  left out.
* Console: a row is reduced to its owner, its provider and whether it is active;
  the in-memory session store of tests and the migration of old cookies are left
  out, ports and time limits are passed through. Address classification for
  webhooks is a pure function and appears as a refusal that may happen.
* The Stellar SDK, Redis, Prisma and the token contract are modelled by how the
  code uses them.
* Not modelled: health, metrics and tracing, which read and report; the
  dashboard, an interface over the API; logger, types and validation, which
  format, declare and parse; key handling of the wallet package; the scripts,
  which drive a deployed system by hand, and the material for a video.

## 7. What remains

* An abstract payment ("one payment, one answer") that `PaymentGate` without its
  known exceptions implements, and `PaidCall` over `PaymentGate` in place of the
  one step that stands for it.
* Where the deactivation of a provider meets its payouts: `Catalog` has the
  status and `Payouts` the money; their product needs a smaller `Payouts`.
* Proofs: every safety and action property of a passing run has its theorem.
  What could be added are theorems about the two composed models above, and that
  a gateway without free retries keeps `ServedOnce`.

## 8. Running it

```
tlc -workers 2 -config MCPaymentGate.cfg MCPaymentGate    # one run
tlapm PaymentGateProofs.tla                               # one proof module
```

`PROJECT.json` names module, configuration and expected result of every run. The
largest, `payouts`, generates six million states; each takes under a minute on
two cores.
