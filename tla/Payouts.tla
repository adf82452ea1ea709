-------------------------------- MODULE Payouts --------------------------------
(***************************************************************************)
(* Payout automation for one provider: the daily job of every replica      *)
(* (payouts.service.ts) and the admin API (admin.service.ts) propose the   *)
(* provider's confirmed revenue to the multisig wallet, and the API's      *)
(* approve endpoint signs proposals with the operator's key.  They meet in *)
(* the PayoutProposal table and in a Redis lock (distributed-lock.ts,      *)
(* payout-lock.ts); the wallet is the contract of module Multisig.         *)
(*                                                                         *)
(* A running job or request is one slot, and its steps are the code from   *)
(* one await to the next.  Whether the provider may be paid at all (it is  *)
(* active, owned by the caller, has a valid wallet, automation is on) is   *)
(* left to the environment that starts a job.                              *)
(***************************************************************************)
EXTENDS Totals, Sequences

CONSTANTS
    Slot,           \* jobs and requests that may be running at one time
    Kind,           \* what they may be: "cron", "admin", "approve"
    Signer,         \* the wallet's signers, a sequence
    Operator,       \* the account of CONTRACT_ADMIN_SECRET
    Payee, Wallet,  \* the provider's payout account, the multisig contract
    Stranger,       \* another provider's payout account
    Threshold,
    Free, Orphan,   \* the lock is free; it is held by a job that died
    MaxRevenue,     \* bound on the confirmed revenue
    MaxRows,        \* bound on the rows of the ledger
    MaxProposals,   \* bound on the proposals of the wallet
    MaxFaults       \* bound on the answers lost, the locks outlived and the
                    \* proposals of others, together

VARIABLES
    revenue,        \* sum of the provider's confirmed payments
    rows,           \* the PayoutProposal rows
    lock,           \* the holder of x402:lock:payout-propose:<provider>
    job,            \* the state of each slot
    overrun,        \* history: slots whose lock expired while they ran
    faults,         \* history: how many answers were lost, and so on
    origin,         \* history: the row each proposal was made for, or 0: it
                    \* is not the provider's, or its row was given up
    signers, threshold, proposals, held, funded, acted  \* the wallet

wallet == <<signers, threshold, proposals, held, funded, acted>>
history == <<faults, origin>>
vars == <<revenue, rows, lock, job, overrun, history, wallet>>

Chain == INSTANCE Multisig WITH
    Account <- {Signer[i] : i \in DOMAIN Signer} \union {Operator, Payee, Stranger, Wallet},
    Contract <- Wallet, SignerList <- {Signer}, InitialSigners <- Signer,
    InitialThreshold <- Threshold, Amount <- 1 .. MaxRevenue,
    MaxFunding <- MaxRevenue

ASSUME PayoutsAssumption ==
    /\ Kind \subseteq {"cron", "admin", "approve"}
    /\ {Free, Orphan} \intersect Slot = {}
    /\ Threshold \in 1 .. Len(Signer)
    /\ {MaxRevenue, MaxRows, MaxProposals, MaxFaults} \subseteq Nat

-------------------------------------------------------------------------------
(* The ledger of proposals.                                                *)

Reserving_ExecutedOnly == {"executed"}
Reserving == {"pending", "proposed", "approved", "executed"}

Reserved == [i \in DOMAIN rows |-> IF rows[i].status \in Reserving THEN rows[i].amount ELSE 0]

SetStatus(i, status) == rows' = [rows EXCEPT ![i].status = status]

(* A row that is marked failed no longer reserves its revenue.             *)
GiveUp(i) ==
    /\ SetStatus(i, "failed")
    /\ origin' = [p \in DOMAIN origin |-> IF origin[p] = i THEN 0 ELSE origin[p]]

(* The budget of faults, spent by one kind of them.                        *)
Fault(kind) ==
    /\ faults.answers + faults.locks + faults.others < MaxFaults
    /\ faults' = [faults EXCEPT ![kind] = @ + 1]

Idle == [pc |-> "idle", kind |-> "cron", amount |-> 0, row |-> 0, id |-> 0]

At(s, pc) == job[s].pc = pc
Goto(s, pc) == job' = [job EXCEPT ![s].pc = pc]
Finish(s) == job' = [job EXCEPT ![s] = Idle] /\ overrun' = overrun \ {s}

(* A job ends by releasing its lock; the approve endpoint takes none.      *)
Leave(s) ==
    IF job[s].kind = "approve" THEN Finish(s)
    ELSE job' = [job EXCEPT ![s] = [Idle EXCEPT !.pc = "unlock"]] /\ UNCHANGED overrun

Init ==
    /\ revenue = 0 /\ rows = <<>> /\ lock = Free
    /\ job = [s \in Slot |-> Idle] /\ overrun = {}
    /\ faults = [answers |-> 0, locks |-> 0, others |-> 0] /\ origin = <<>>
    /\ Chain!Init

(* The gateway confirms a payment; the wallet, whose funds are those of    *)
(* every provider, receives them independently of it, at once.             *)
Earn ==
    /\ revenue < MaxRevenue
    /\ revenue' = revenue + 1
    /\ UNCHANGED <<rows, lock, job, overrun, wallet, history>>

FundWallet ==
    /\ Chain!Fund(MaxRevenue)
    /\ UNCHANGED <<revenue, rows, lock, job, overrun, history>>

(* The wallet pays every provider, and propose asks nobody's authorisation: *)
(* a job for another provider, or anyone else, proposes.                   *)
OtherProposes ==
    /\ Fault("others")
    /\ Chain!Propose(Stranger, 1)
    /\ origin' = Append(origin, 0)
    /\ UNCHANGED <<revenue, rows, lock, job, overrun>>

(* A signer approves a proposal with a tool of its own.                    *)
SignerApproves(a, i) ==
    /\ Chain!Approve(a, i)
    /\ UNCHANGED <<revenue, rows, lock, job, overrun, history>>

-------------------------------------------------------------------------------
(* The lock.                                                               *)

(* SET NX EX: whoever does not get the lock, or no answer, ends.           *)
tryAcquireLock(s) == lock = Free /\ lock' = s

(* The job's turn for the provider.                                        *)
StartJob(s) ==
    /\ At(s, "idle") /\ "cron" \in Kind
    /\ tryAcquireLock(s)
    /\ job' = [job EXCEPT ![s] = [Idle EXCEPT !.pc = "pending"]]
    /\ UNCHANGED <<revenue, rows, overrun, wallet, history>>

(* The admin's request, which may come twice.                              *)
StartRequest(s) ==
    /\ At(s, "idle") /\ "admin" \in Kind
    /\ tryAcquireLock(s)
    /\ job' = [job EXCEPT ![s] = [Idle EXCEPT !.pc = "pending", !.kind = "admin"]]
    /\ UNCHANGED <<revenue, rows, overrun, wallet, history>>

(* A release that deletes the key whoever holds it.                        *)
Unlock_AnyToken(s) ==
    /\ At(s, "unlock")
    /\ lock' = Free
    /\ Finish(s)
    /\ UNCHANGED <<revenue, rows, wallet, history>>

(* Compare and delete: the token must still be this job's.                 *)
Unlock(s) ==
    /\ At(s, "unlock")
    /\ lock' = IF lock = s THEN Free ELSE lock
    /\ Finish(s)
    /\ UNCHANGED <<revenue, rows, wallet, history>>

LockExpires ==
    /\ \/ lock = Orphan /\ UNCHANGED <<overrun, faults>>
       \/ lock \in Slot /\ overrun' = overrun \union {lock} /\ Fault("locks")
    /\ lock' = Free
    /\ UNCHANGED <<revenue, rows, job, origin, wallet>>

Crash(s) ==
    /\ ~At(s, "idle")
    /\ lock' = IF lock = s THEN Orphan ELSE lock
    /\ Finish(s)
    /\ UNCHANGED <<revenue, rows, wallet, history>>

-------------------------------------------------------------------------------
(* Proposing: read what is pending, reserve it, propose it, record it.     *)

pendingRevenue == revenue - Total(Reserved)

(* The job takes all of it; an admin may name less, and more is capped.    *)
ReadPending(s) ==
    /\ At(s, "pending")
    /\ \/ pendingRevenue <= 0 /\ Leave(s)
       \/ \E amount \in 1 .. pendingRevenue :
             /\ job[s].kind = "cron" => amount = pendingRevenue
             /\ job' = [job EXCEPT ![s].pc = "create", ![s].amount = amount]
             /\ UNCHANGED overrun
    /\ UNCHANGED <<revenue, rows, lock, wallet, history>>

CreateRow(s) ==
    /\ At(s, "create")
    /\ Len(rows) < MaxRows
    /\ rows' = Append(rows, [amount |-> job[s].amount, status |-> "pending", id |-> 0])
    /\ job' = [job EXCEPT ![s].pc = "simulate", ![s].row = Len(rows) + 1]
    /\ UNCHANGED <<revenue, lock, overrun, wallet, history>>

(* client.propose simulates the call: the id that is recorded later is the *)
(* simulation's.  Indices here are the contract's ids plus one.            *)
SimulatePropose(s) ==
    /\ At(s, "simulate")
    /\ job' = [job EXCEPT ![s].pc = "propose", ![s].id = Len(proposals) + 1]
    /\ UNCHANGED <<revenue, rows, lock, overrun, wallet, history>>

(* What signAndSendContractTx makes of a transaction that would do "lands". *)
(* It answers with a hash when send() returns, looking at no status: the   *)
(* transaction landed, or failed on the chain, and when it throws, the     *)
(* transaction failed, or landed and its answer was lost.                  *)
Submit(s, lands, sent, failed) ==
    \/ lands /\ Goto(s, sent) /\ UNCHANGED faults
    \/ lands /\ Goto(s, failed) /\ Fault("answers")
    \/ UNCHANGED wallet /\ Goto(s, failed) /\ UNCHANGED faults
    \/ UNCHANGED wallet /\ Goto(s, sent) /\ Fault("answers")

CallPropose(s) ==
    /\ At(s, "propose")
    /\ Submit(s, Chain!Propose(Payee, job[s].amount), "proposed", "refused")
    /\ origin' = IF proposals' = proposals THEN origin ELSE Append(origin, job[s].row)
    /\ UNCHANGED <<revenue, rows, lock, overrun>>

ProposeFailed(s) ==
    /\ At(s, "refused")
    /\ GiveUp(job[s].row)
    /\ Leave(s)
    /\ UNCHANGED <<revenue, lock, faults, wallet>>

(* What getMultisigConfig makes of the wallet: null when it cannot be read. *)
ReadsThreshold(n) == threshold = n

Recorded(s) ==
    rows' = [rows EXCEPT ![job[s].row].status = "proposed", ![job[s].row].id = job[s].id]

(* With a threshold of one the gateway approves at once, if it could read  *)
(* the threshold: the job calls the contract with the id it was given, ... *)
JobProposed(s) ==
    /\ At(s, "proposed") /\ job[s].kind = "cron"
    /\ Recorded(s)
    /\ \/ Leave(s)
       \/ ReadsThreshold(1) /\ Goto(s, "approve") /\ UNCHANGED overrun
    /\ UNCHANGED <<revenue, lock, wallet, history>>

(* ... the admin's request goes through the approve endpoint.              *)
RequestProposed(s) ==
    /\ At(s, "proposed") /\ job[s].kind = "admin"
    /\ Recorded(s)
    /\ \/ Leave(s)
       \/ ReadsThreshold(1) /\ Goto(s, "check") /\ UNCHANGED overrun
    /\ UNCHANGED <<revenue, lock, wallet, history>>

-------------------------------------------------------------------------------
(* Approving with the operator's key.                                      *)

StartApprove(s, i) ==
    /\ At(s, "idle")
    /\ "approve" \in Kind
    /\ job' = [job EXCEPT ![s] = [Idle EXCEPT !.pc = "check", !.kind = "approve", !.row = i]]
    /\ UNCHANGED <<revenue, rows, lock, overrun, wallet, history>>

(* approvePayout refuses a row that is settled or was never proposed.      *)
CheckRow(s) ==
    LET r == rows[job[s].row]
    IN  /\ At(s, "check")
        /\ IF r.status \in {"executed", "failed"} \/ r.id = 0 THEN Leave(s)
           ELSE /\ job' = [job EXCEPT ![s].pc = "approve", ![s].id = r.id]
                /\ UNCHANGED overrun
        /\ UNCHANGED <<revenue, rows, lock, wallet, history>>

CallApprove(s) ==
    /\ At(s, "approve")
    /\ Submit(s, job[s].id \in DOMAIN proposals /\ Chain!Approve(Operator, job[s].id),
              "approved", "unapproved")
    /\ UNCHANGED <<revenue, rows, lock, overrun, origin>>

(* An approval that is taken for the payment.                              *)
ReadsExecuted_Assumed(i, executed) == executed = (i \in DOMAIN proposals)

(* The execution is read back from the proposal; what cannot be read is    *)
(* not taken for executed.                                                 *)
ReadsExecuted(i, executed) ==
    executed => i \in DOMAIN proposals /\ proposals[i].executed

(* The job records the execution and nothing else, ...                     *)
JobApproved(s) ==
    /\ At(s, "approved") /\ job[s].kind = "cron"
    /\ \E executed \in BOOLEAN :
          /\ ReadsExecuted(job[s].id, executed)
          /\ IF executed THEN SetStatus(job[s].row, "executed") ELSE UNCHANGED rows
    /\ Leave(s)
    /\ UNCHANGED <<revenue, lock, wallet, history>>

(* ... approvePayout also that it approved.                                *)
RequestApproved(s) ==
    /\ At(s, "approved") /\ job[s].kind # "cron"
    /\ \E executed \in BOOLEAN :
          /\ ReadsExecuted(job[s].id, executed)
          /\ SetStatus(job[s].row, IF executed THEN "executed" ELSE "approved")
    /\ Leave(s)
    /\ UNCHANGED <<revenue, lock, wallet, history>>

(* approvePayout marks the row failed; the job leaves it as it is.         *)
ApproveFailed(s) ==
    /\ At(s, "unapproved")
    /\ IF job[s].kind = "cron" THEN UNCHANGED <<rows, origin>> ELSE GiveUp(job[s].row)
    /\ Leave(s)
    /\ UNCHANGED <<revenue, lock, faults, wallet>>

-------------------------------------------------------------------------------

Next ==
    \/ Earn \/ FundWallet \/ LockExpires
    \/ OtherProposes
    \/ \E a \in signers, i \in DOMAIN proposals : SignerApproves(a, i)
    \/ \E s \in Slot :
          \/ StartJob(s) \/ StartRequest(s)
          \/ \E i \in DOMAIN rows : StartApprove(s, i)
          \/ ReadPending(s) \/ CreateRow(s) \/ SimulatePropose(s) \/ CallPropose(s)
          \/ ProposeFailed(s) \/ JobProposed(s) \/ RequestProposed(s)
          \/ CheckRow(s) \/ CallApprove(s) \/ JobApproved(s) \/ RequestApproved(s)
          \/ ApproveFailed(s) \/ Unlock(s) \/ Crash(s)

Spec == Init /\ [][Next]_vars

-------------------------------------------------------------------------------

RowType == [amount : Nat \ {0}, id : Nat,
            status : {"pending", "proposed", "approved", "executed", "failed"}]

JobType == [pc : {"idle", "pending", "create", "simulate", "propose", "proposed", "refused", "check",
                  "approve", "approved", "unapproved", "unlock"},
            kind : {"cron", "admin", "approve"}, amount : Nat, row : Nat, id : Nat]

(* The types of the ledger, the lock and the jobs' locals.                 *)
TypeOK ==
    /\ revenue \in 0 .. MaxRevenue
    /\ rows \in Seq(RowType)
    /\ \A i \in DOMAIN rows : rows[i].id \in 0 .. Len(proposals) + 1
    /\ lock \in Slot \union {Free, Orphan}
    /\ job \in [Slot -> JobType]
    /\ overrun \subseteq Slot
    /\ origin \in Seq(0 .. Len(rows)) /\ Len(origin) = Len(proposals)
    /\ faults \in [{"answers", "locks", "others"} -> 0 .. MaxFaults]
    /\ Chain!TypeOK

(* The lock serialises the reading, reserving and proposing of revenue:    *)
(* two jobs are in it together only if one of them outlived its TTL, and   *)
(* no job ends the exclusion of another.                                   *)
InSection(s) == job[s].kind # "approve" /\ ~At(s, "idle")
LockExclusive ==
    \A s \in Slot : InSection(s) /\ s \notin overrun => lock = s

(* "An unconfirmed approval must not be recorded as executed": a row says  *)
(* executed only of a proposal that the wallet has executed, whatever the  *)
(* answers that got lost and the jobs that overlapped.                     *)
LedgerNeverAhead ==
    \A i \in DOMAIN rows :
       rows[i].status = "executed" =>
          rows[i].id \in DOMAIN proposals /\ proposals[rows[i].id].executed

(* Every proposal made for a row that the ledger has not given up, paid or *)
(* still to be paid, is covered by confirmed revenue, as long as no job    *)
(* outlives its lock: what the wallet's signers can be made to pay for     *)
(* these rows never exceeds what the provider earned.                      *)
Claimed == {i \in DOMAIN proposals : origin[i] # 0}
Claims == [i \in Claimed |-> proposals[i].amount]
ProposedIsEarned == faults.locks = 0 => Total(Claims) <= revenue

(* database/src/index.ts:28: a payout counts as pending "MINUS every       *)
(* proposal that is in flight or already paid", so that the provider is    *)
(* never paid twice: what was paid out is confirmed revenue.               *)
PaidToPayee == [i \in DOMAIN proposals |->
                   IF proposals[i].executed /\ proposals[i].destination = Payee
                   THEN proposals[i].amount ELSE 0]
PaidIsEarned == Total(PaidToPayee) <= revenue

===============================================================================
