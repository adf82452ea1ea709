------------------------------ MODULE MCPaidCall ------------------------------
(* One call between two providers; quotes, transactions and the SDK's       *)
(* patience last one unit each, as all last 300 s in the code.  One route   *)
(* has a flat price, the other is metered.  A stream has up to three lines. *)
EXTENDS PaidCall, SequencesExt

CONSTANTS p1, p2

Prices == [p \in {p1, p2} |-> [perToken |-> p = p2, price |-> 1, asset |-> "USDC"]]

(* Neither a stream nor a webhook reads the clock of the call: the lines of *)
(* a stream, and the attempts after the first, are explored in calls that   *)
(* are answered in the first instant.                                       *)
DetailAtOnce == sent # << >> \/ notice.attempt > 1 => now = 0

-------------------------------------------------------------------------------
(* Bounded transactions and quotes for the verification of payments.       *)

Ops == [type : {"payment", "path_payment_strict_send", "create_account"}, to : {p1, p2},
        asset : {"USDC", "XLM"}, amount : 0 .. 2]

SomeOps == {<< >>} \union {<<a>> : a \in Ops}
              \union {<<a, b>> : a \in {op \in Ops : op.to = p1}, b \in {op \in Ops : op.asset = "USDC"}}

Txs == [successful : BOOLEAN, at : {0, 2, 4}, ops : SomeOps]

Quotes == {[Quote(p, n, 1) EXCEPT !.amount = n] : p \in {p1, p2}, n \in 0 .. 2}

(* The verifier written as its documentation has it: a loop over the       *)
(* operations that stops at the first that counts.                         *)
Counts(op, q) ==
    /\ op.type \in {"payment"} \union (IF AllowPathPayments THEN PathPayment ELSE {})
    /\ <<op.asset, op.to>> = <<q.asset, q.paymentAddress>>
    /\ LET due == IF q.amount > MIN_PAYMENT THEN q.amount ELSE MIN_PAYMENT
       IN  IF q.perToken THEN op.amount >= due ELSE op.amount = due

RECURSIVE FirstPaid(_, _)
FirstPaid(ops, q) ==
    IF ops = << >> THEN -1
    ELSE IF Counts(Head(ops), q) THEN Head(ops).amount ELSE FirstPaid(Tail(ops), q)

ASSUME VerifierAgrees ==
    \A tx1 \in Txs, q \in Quotes :
       LET v == verifyStellarPayment(tx1, q)
           first == FirstPaid(tx1.ops, q)
       IN  /\ v.verified = (tx1.successful /\ first >= 0 /\ q.issuedAt <= tx1.at /\ tx1.at <= q.expiresAt)
           /\ v.verified => v.amount = first
           /\ v.verified <=> v.failureReason = "none"

===============================================================================
