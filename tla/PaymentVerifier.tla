---------------------------- MODULE PaymentVerifier ----------------------------
(***************************************************************************)
(* The payment-verifier contract (contracts/payment-verifier/src/lib.rs):  *)
(* the on-chain audit trail of verified payments and the set of consumed   *)
(* transaction hashes, with a reader that walks the trail page by page     *)
(* while payments are being recorded.  An invocation is one transaction,   *)
(* and one that panics is a disabled action.                               *)
(***************************************************************************)
EXTENDS Integers, Sequences, FiniteSets

CONSTANTS
    Address,        \* addresses that may sign or become admin
    Hash,           \* transaction hashes
    PaidAmount,         \* the i128 amounts callers may pass, some <= 0
    Limit,          \* the page sizes readers may ask for
    Deployer,       \* the admin named by the constructor
    MAX_PAGE_SIZE,
    U32_MAX         \* the largest index

ASSUME VerifierAssumption ==
    /\ Deployer \in Address
    /\ PaidAmount \subseteq Int
    /\ Limit \subseteq 0 .. U32_MAX
    /\ MAX_PAGE_SIZE \in Nat
    /\ U32_MAX \in Nat

VARIABLES
    config,     \* CONFIG: the admin and the pause flag
    used,       \* the hashes under USED_TX
    tx_idx,     \* (TX_IDX, hash), defined for the hashes that have one
    payments,   \* (PAYMENT, idx) at index idx + 1; PAY_CNT is its length
    cursor,     \* the reader's next offset
    collected   \* the records the reader has been given

verifier == <<config, used, tx_idx, payments, cursor, collected>>
reader == <<cursor, collected>>

Config == [admin : Address, paused : BOOLEAN]
Payment == [tx_hash : Hash, amount : Nat, refunded : BOOLEAN]

VerifierInit ==
    /\ config = [admin |-> Deployer, paused |-> FALSE]
    /\ used = {}
    /\ tx_idx = [h \in {} |-> 0]
    /\ payments = <<>>
    /\ cursor = 0
    /\ collected = <<>>

-------------------------------------------------------------------------------

count == Len(payments)

SmallerOf(a, b) == IF a <= b THEN a ELSE b

saturating_add(a, b) == SmallerOf(a + b, U32_MAX)

(* get_payments(offset, limit): the records with index offset .. end - 1.  *)
get_payments(offset, limit) ==
    LET end == SmallerOf(saturating_add(offset, SmallerOf(limit, MAX_PAGE_SIZE)), count)
    IN  SubSeq(payments, offset + 1, end)

(* record_payment whose index entry already counts the new record.         *)
RecordPayment_NextIndex(signer, hash, n) ==
    /\ signer = config.admin /\ ~config.paused /\ n > 0
    /\ hash \notin used
    /\ count < U32_MAX
    /\ payments' = Append(payments, [tx_hash |-> hash, amount |-> n, refunded |-> FALSE])
    /\ used' = used \union {hash}
    /\ tx_idx' = [h \in DOMAIN tx_idx \union {hash} |->
                    IF h = hash THEN count + 1 ELSE tx_idx[h]]
    /\ UNCHANGED <<config, reader>>

RecordPayment(signer, hash, n) ==
    /\ signer = config.admin /\ ~config.paused /\ n > 0
    /\ hash \notin used
    /\ count < U32_MAX
    /\ payments' = Append(payments, [tx_hash |-> hash, amount |-> n, refunded |-> FALSE])
    /\ used' = used \union {hash}
    /\ tx_idx' = [h \in DOMAIN tx_idx \union {hash} |->
                    IF h = hash THEN count ELSE tx_idx[h]]
    /\ UNCHANGED <<config, reader>>

(* refund_payment that also gives the hash free.                           *)
RefundPayment_FreesHash(signer, hash) ==
    /\ signer = config.admin /\ ~config.paused
    /\ hash \in DOMAIN tx_idx
    /\ ~payments[tx_idx[hash] + 1].refunded
    /\ payments' = [payments EXCEPT ![tx_idx[hash] + 1].refunded = TRUE]
    /\ used' = used \ {hash}
    /\ UNCHANGED <<config, tx_idx, reader>>

RefundPayment(signer, hash) ==
    /\ signer = config.admin /\ ~config.paused
    /\ hash \in DOMAIN tx_idx
    /\ ~payments[tx_idx[hash] + 1].refunded
    /\ payments' = [payments EXCEPT ![tx_idx[hash] + 1].refunded = TRUE]
    /\ UNCHANGED <<config, used, tx_idx, reader>>

SetAdmin(signer, new_admin) ==
    /\ signer = config.admin
    /\ config' = [config EXCEPT !.admin = new_admin]
    /\ UNCHANGED <<used, tx_idx, payments, reader>>

SetPaused(signer, paused) ==
    /\ signer = config.admin
    /\ config' = [config EXCEPT !.paused = paused]
    /\ UNCHANGED <<used, tx_idx, payments, reader>>

(* A reader that trusts the limit it asked for.                            *)
ReadPage_ByLimit(limit) ==
    LET page == get_payments(cursor, limit)
    IN  /\ page # <<>>
        /\ collected' = collected \o page
        /\ cursor' = cursor + limit
        /\ UNCHANGED <<config, used, tx_idx, payments>>

(* The walk of the audit trail: the next offset is past what was returned, *)
(* and an empty page ends the walk for now.                                *)
ReadPage(limit) ==
    LET page == get_payments(cursor, limit)
    IN  /\ page # <<>>
        /\ collected' = collected \o page
        /\ cursor' = cursor + Len(page)
        /\ UNCHANGED <<config, used, tx_idx, payments>>

VerifierNext ==
    \/ \E signer \in Address :
          \/ \E hash \in Hash, n \in PaidAmount : RecordPayment(signer, hash, n)
          \/ \E hash \in Hash : RefundPayment(signer, hash)
          \/ \E new_admin \in Address : SetAdmin(signer, new_admin)
          \/ \E paused \in BOOLEAN : SetPaused(signer, paused)
    \/ \E limit \in Limit : ReadPage(limit)

VerifierSpec == VerifierInit /\ [][VerifierNext]_verifier

-------------------------------------------------------------------------------

(* The types of the contract's entries and of what the reader holds.       *)
VerifierTypeOK ==
    /\ config \in Config
    /\ used \in SUBSET Hash
    /\ tx_idx \in [DOMAIN tx_idx -> Nat] /\ DOMAIN tx_idx \in SUBSET Hash
    /\ payments \in Seq(Payment)
    /\ cursor \in Nat
    /\ collected \in Seq(Payment)

(* The replay set, the index and the trail agree: a hash is consumed       *)
(* exactly when it has an index entry, the entry leads to the one record   *)
(* with that hash, and every record is reached that way, refunded or not.  *)
ReplaySetMatchesTrail ==
    /\ used = DOMAIN tx_idx
    /\ \A h \in used : /\ tx_idx[h] + 1 \in DOMAIN payments
                       /\ payments[tx_idx[h] + 1].tx_hash = h
    /\ \A i \in DOMAIN payments : /\ payments[i].tx_hash \in used
                                  /\ tx_idx[payments[i].tx_hash] = i - 1

(* Records are added one at a time at the end; an existing record changes  *)
(* only by becoming refunded, once; no consumed hash is ever given free.   *)
TrailAppendOnly ==
    [][/\ used \subseteq used'
       /\ Len(payments') \in {Len(payments), Len(payments) + 1}
       /\ \A i \in DOMAIN payments :
             payments'[i] # payments[i] =>
                /\ ~payments[i].refunded
                /\ payments'[i] = [payments[i] EXCEPT !.refunded = TRUE]]_verifier

(* Walking the pages recovers every record exactly once and in order,      *)
(* whatever limits the reader asks for and however many payments are       *)
(* recorded or refunded between two pages.                                 *)
WalkHasNoGap ==
    /\ cursor = Len(collected)
    /\ cursor <= count
    /\ \A i \in DOMAIN collected :
          /\ collected[i].tx_hash = payments[i].tx_hash
          /\ collected[i].amount = payments[i].amount
          /\ collected[i].refunded => payments[i].refunded

===============================================================================
