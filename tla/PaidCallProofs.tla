---------------------------- MODULE PaidCallProofs ----------------------------
(***************************************************************************)
(* What a paid call buys and whom it pays, for any providers, prices,      *)
(* lives of quotes and transactions and patience of the SDK.               *)
(***************************************************************************)
EXTENDS PaidCall, FiniteSetTheorems, WellFoundedInduction, TLAPS

-------------------------------------------------------------------------------
(* Verification.                                                           *)

LEMMA MinimumHolds ==
    ASSUME NEW n \in Nat
    PROVE  /\ atLeastMinimum(n) \in Nat /\ atLeastMinimum(n) >= MIN_PAYMENT
           /\ atLeastMinimum(n) >= n /\ atLeastMinimum(atLeastMinimum(n)) = atLeastMinimum(n)
BY PricingAssumption DEF atLeastMinimum

(* A quote as generateQuote makes one, or as a row gives it back.          *)
QuoteOK(quote) == quote.amount \in Nat /\ quote.perTokenPrice \in Nat

LEMMA RequiredHolds ==
    ASSUME NEW quote, QuoteOK(quote)
    PROVE  /\ requiredAmount(quote) \in Nat /\ requiredAmount(quote) >= MIN_PAYMENT
           /\ requiredAmount(quote) >= quote.amount
<1> DEFINE one == IF quote.perTokenPrice > 0 THEN quote.perTokenPrice ELSE 1
           due == IF quote.perToken /\ quote.amount = 0 THEN one ELSE quote.amount
<1>1. due \in Nat /\ due >= quote.amount
  BY DEF QuoteOK
<1> HIDE DEF due
<1>2. requiredAmount(quote) = atLeastMinimum(due)
  BY DEF requiredAmount, due
<1> QED
  BY <1>1, <1>2, MinimumHolds, PricingAssumption DEF QuoteOK

(* The first of a set of places.                                           *)
LEMMA LeastNatural ==
    ASSUME NEW T \in SUBSET Nat, T # {}
    PROVE  \E x \in T : \A y \in T : x <= y
<1> DEFINE R == OpToRel(<, Nat)
<1>1. IsWellFoundedOn(R, Nat)
  BY NatLessThanWellFounded
<1>2. \A x, y \in Nat : y < x => <<y, x>> \in R
  BY DEF OpToRel
<1> HIDE DEF R
<1>3. PICK x \in T : \A y \in T : <<y, x>> \notin R
  BY <1>1, WFMin
<1>4. ASSUME NEW y \in T PROVE x <= y
  <2>1. x \in Nat /\ y \in Nat /\ ~(y < x)
    BY <1>2, <1>3
  <2> QED
    BY <2>1
<1> QED
  BY <1>4

(* What is credited for a verified transaction is the amount of one of its *)
(* operations, which pays the quote's address in its asset and covers the  *)
(* quote and the minimum, whatever other operations there are and in       *)
(* whatever order (verifyStellarPayment).                                  *)
THEOREM CreditedWasPaid ==
    ASSUME NEW tx1, DOMAIN tx1.ops \subseteq Nat,
           \A i \in DOMAIN tx1.ops : tx1.ops[i].amount \in Nat,
           NEW quote, QuoteOK(quote), verifyStellarPayment(tx1, quote).verified
    PROVE  /\ \E i \in DOMAIN tx1.ops :
                 /\ verifyStellarPayment(tx1, quote).amount = tx1.ops[i].amount
                 /\ tx1.ops[i].to = quote.paymentAddress /\ tx1.ops[i].asset = quote.asset
           /\ verifyStellarPayment(tx1, quote).amount >= quote.amount
           /\ verifyStellarPayment(tx1, quote).amount >= MIN_PAYMENT
<1> DEFINE matching == matchingOps(tx1, quote)
           first == matchingPayment(tx1, quote)
<1>1. verified(tx1, quote)
  BY DEF verifyStellarPayment
<1>2. tx1.successful /\ matching # {}
  BY <1>1 DEF verified
<1>3. \A i \in matching :
         /\ i \in DOMAIN tx1.ops /\ Covers(tx1.ops[i].amount, quote)
         /\ tx1.ops[i].to = quote.paymentAddress /\ tx1.ops[i].asset = quote.asset
  BY DEF matchingOps, Reaching, paymentOps, Direct, OverPath
<1>4. first \in matching
  <2>1. matching \in SUBSET Nat
    BY <1>3
  <2>2. \E i \in matching : \A j \in matching : i <= j
    BY <1>2, <2>1, LeastNatural
  <2> HIDE DEF matching
  <2>3. first \in matching
    <3>1. first = CHOOSE i \in matching : \A j \in matching : i <= j
      BY DEF matchingPayment, matching
    <3> QED
      BY <2>2, <3>1
  <2> QED
    BY <2>3
<1>5. verifyStellarPayment(tx1, quote).amount = tx1.ops[first].amount
  BY <1>2 DEF verifyStellarPayment, creditedAmount
<1> HIDE DEF matching, first
<1>6. Covers(tx1.ops[first].amount, quote) /\ tx1.ops[first].amount \in Nat
  BY <1>3, <1>4
<1>7. tx1.ops[first].amount >= requiredAmount(quote)
  BY <1>6, RequiredHolds DEF Covers
<1>8. /\ tx1.ops[first].amount >= quote.amount /\ tx1.ops[first].amount >= MIN_PAYMENT
  BY <1>6, <1>7, RequiredHolds, PricingAssumption DEF QuoteOK
<1> QED
  BY <1>3, <1>4, <1>5, <1>8

-------------------------------------------------------------------------------
(* The call and its transaction.                                           *)

CallType ==
    [pc : {"idle", "ask", "quoted", "build", "sign", "submit", "wait", "poll", "retry",
           "done", "streamed", "failed", "hung"},
     sdk : {"typescript", "python"}, provider : Provider \union {NoProvider}, issuedAt : Nat,
     deadline : Nat, server : Provider \union {NoProvider}, inTime : BOOLEAN]

TxType ==
    [state : {"none", "built", "pending", "landed", "reverted"},
     to : Provider \union {NoProvider}, validUntil : Nat, at : Nat]

Unpaid == call.pc \in {"idle", "ask", "quoted", "build"}
Ended == call.pc \in {"done", "streamed", "failed", "hung"}
OnLedger == tx.state \in {"landed", "reverted"}

(* The transaction is made for the quote's provider after the quote was    *)
(* issued, and lands in the past; nothing is in time before a retry.       *)
CallInv ==
    /\ now \in Nat /\ call \in CallType /\ tx \in TxType
    /\ call.pc \in {"quoted", "build"} => call.provider \in Provider
    /\ Unpaid => tx.state = "none"
    /\ tx.state # "none" => /\ tx.to = call.provider /\ call.provider \in Provider
                            /\ call.issuedAt <= now
    /\ call.pc \in {"quoted", "build"} => call.issuedAt <= now
    /\ call.pc \in {"sign", "submit", "wait", "poll", "retry"} => tx.state # "none"
    /\ call.pc \in {"sign", "submit"} => tx.state = "built"
    /\ OnLedger => call.issuedAt <= tx.at /\ tx.at <= now
    /\ At("retry") => tx.state = "landed"
    /\ ~Ended => ~call.inTime
    /\ ServedByPayee

LEMMA InitCall == Init => CallInv
<1> SUFFICES ASSUME Init PROVE CallInv
  OBVIOUS
<1>1. /\ now \in Nat /\ call \in CallType /\ tx \in TxType
  BY DEF Init, CallType, TxType
<1>2. call.pc = "idle" /\ tx.state = "none"
  BY DEF Init
<1>3. ~call.inTime
  BY DEF Init
<1> QED
  BY <1>1, <1>2, <1>3 DEF CallInv, Unpaid, Ended, OnLedger, At, ServedByPayee, Served

(* A step of the call before its retry.                                    *)
LEMMA StepCall == ASSUME CallInv, Step PROVE CallInv'
<1>1. CASE Start
  <2>1. PICK sdk \in {"typescript", "python"} : call' = [call EXCEPT !.pc = "ask", !.sdk = sdk]
    BY <1>1 DEF Start
  <2>2. /\ call' \in CallType /\ call'.pc = "ask" /\ call'.inTime = call.inTime
        /\ call.pc = "idle" /\ UNCHANGED <<now, tx>>
    BY <1>1, <2>1 DEF Start, At, CallInv, CallType
  <2> QED
    BY <2>2 DEF CallInv, Unpaid, Ended, OnLedger, At, ServedByPayee, Served
<1>2. CASE AskQuote
  <2>1. call.pc = "ask" /\ UNCHANGED <<now, tx>> /\ (Fail \/ \E p \in Provider : Quoted(p))
    BY <1>2 DEF AskQuote, At
  <2>2. CASE Fail
    <3>1. call' \in CallType /\ call'.pc = "failed" /\ call'.issuedAt = call.issuedAt
          /\ call'.provider = call.provider
      BY <2>2 DEF Fail, Goto, CallInv, CallType
    <3> QED
      BY <2>1, <3>1 DEF CallInv, Unpaid, Ended, OnLedger, At, ServedByPayee, Served
  <2>3. ASSUME NEW p \in Provider, Quoted(p) PROVE CallInv'
    <3>1. call' \in CallType /\ call'.pc = "quoted" /\ call'.issuedAt = now
          /\ call'.provider = p /\ call'.inTime = call.inTime
      BY <2>3 DEF Quoted, CallInv, CallType
    <3> QED
      BY <2>1, <3>1 DEF CallInv, Unpaid, Ended, OnLedger, At, ServedByPayee, Served
  <2> QED
    BY <2>1, <2>2, <2>3
<1>3. CASE handle402Payment
  <2>1. call.pc = "quoted" /\ UNCHANGED <<now, tx>> /\ (Goto("build") \/ Goto("failed"))
    BY <1>3 DEF handle402Payment, At, Fail
  <2>2. PICK pc \in {"build", "failed"} : call' = [call EXCEPT !.pc = pc]
    BY <2>1 DEF Goto
  <2>3. call' \in CallType /\ call'.pc = pc /\ call'.issuedAt = call.issuedAt
        /\ call'.provider = call.provider /\ call'.inTime = call.inTime
    BY <2>2 DEF CallInv, CallType
  <2> QED
    BY <2>1, <2>3 DEF CallInv, Unpaid, Ended, OnLedger, At, ServedByPayee, Served
<1>4. CASE buildPaymentTransaction
  <2>1. /\ call.pc = "build" /\ UNCHANGED now /\ tx.state = "none"
        /\ \/ tx' = Built /\ call' = [call EXCEPT !.pc = "sign"]
           \/ UNCHANGED tx /\ call' = [call EXCEPT !.pc = "failed"]
    BY <1>4 DEF buildPaymentTransaction, At, Fail, Goto, CallInv, Unpaid
  <2>2. CASE UNCHANGED tx /\ call' = [call EXCEPT !.pc = "failed"]
    <3>1. call' \in CallType /\ call'.pc = "failed"
      BY <2>2 DEF CallInv, CallType
    <3> QED
      BY <2>1, <2>2, <3>1 DEF CallInv, Unpaid, Ended, OnLedger, At, ServedByPayee, Served
  <2>3. CASE tx' = Built /\ call' = [call EXCEPT !.pc = "sign"]
    <3>1. call' \in CallType /\ call'.pc = "sign" /\ call'.issuedAt = call.issuedAt
          /\ call'.provider = call.provider /\ call'.inTime = call.inTime
      BY <2>3 DEF CallInv, CallType
    <3>2. now + TxLife \in Nat
      BY PaidCallAssumption DEF CallInv
    <3>3. tx' \in TxType /\ tx'.state = "built" /\ tx'.to = call.provider
      BY <2>3, <3>2 DEF Built, CallInv, TxType, CallType
    <3> QED
      BY <2>1, <3>1, <3>3 DEF CallInv, Unpaid, Ended, OnLedger, At, ServedByPayee, Served
  <2> QED
    BY <2>1, <2>2, <2>3
<1>5. CASE pay_quote
  <2>1. call.pc = "sign" /\ UNCHANGED <<now, tx>> /\ (Goto("submit") \/ Goto("failed"))
    BY <1>5 DEF pay_quote, SignWithKey, signTransaction, At, Fail
  <2>2. PICK pc \in {"submit", "failed"} : call' = [call EXCEPT !.pc = pc]
    BY <2>1 DEF Goto
  <2>3. call' \in CallType /\ call'.pc = pc /\ call'.issuedAt = call.issuedAt
        /\ call'.provider = call.provider /\ call'.inTime = call.inTime
    BY <2>2 DEF CallInv, CallType
  <2> QED
    BY <2>1, <2>3 DEF CallInv, Unpaid, Ended, OnLedger, At, ServedByPayee, Served
<1>6. CASE submitTransaction
  <2>1. /\ call.pc = "submit" /\ UNCHANGED now /\ tx' \in {tx, [tx EXCEPT !.state = "pending"]}
        /\ \/ /\ tx'.state = "pending"
              /\ call' = [call EXCEPT !.pc = "wait", !.deadline = now + Patience]
           \/ call' = [call EXCEPT !.pc = "failed"]
    BY <1>6 DEF submitTransaction, Submitted, At, Fail, Goto
  <2>2. now + Patience \in Nat
    BY PaidCallAssumption DEF CallInv
  <2>3. /\ call' \in CallType /\ call'.issuedAt = call.issuedAt
        /\ call'.provider = call.provider /\ call'.inTime = call.inTime
        /\ call'.pc = "failed" \/ (call'.pc = "wait" /\ tx'.state = "pending")
    BY <2>1, <2>2 DEF CallInv, CallType
  <2>4. tx' \in TxType /\ tx'.to = tx.to /\ tx'.at = tx.at /\ (tx' = tx \/ tx'.state = "pending")
    BY <2>1 DEF CallInv, TxType
  <2> QED
    BY <2>1, <2>3, <2>4 DEF CallInv, Unpaid, Ended, OnLedger, At, ServedByPayee, Served
<1>7. CASE waitForConfirmation
  <2>1. call.pc = "wait" /\ UNCHANGED <<now, tx>> /\ (Goto("poll") \/ Goto("failed"))
    BY <1>7 DEF waitForConfirmation, At, Fail
  <2>2. PICK pc \in {"poll", "failed"} : call' = [call EXCEPT !.pc = pc]
    BY <2>1 DEF Goto
  <2>3. call' \in CallType /\ call'.pc = pc /\ call'.issuedAt = call.issuedAt
        /\ call'.provider = call.provider /\ call'.inTime = call.inTime
    BY <2>2 DEF CallInv, CallType
  <2> QED
    BY <2>1, <2>3 DEF CallInv, Unpaid, Ended, OnLedger, At, ServedByPayee, Served
<1>8. CASE PollAnswer
  <2>1. /\ call.pc = "poll" /\ UNCHANGED <<now, tx>>
        /\ (tx.state = "landed" /\ Goto("retry")) \/ Goto("wait")
    BY <1>8 DEF PollAnswer, At
  <2>2. PICK pc \in {"retry", "wait"} :
           call' = [call EXCEPT !.pc = pc] /\ (pc = "retry" => tx.state = "landed")
    BY <2>1 DEF Goto
  <2>3. call' \in CallType /\ call'.pc = pc /\ call'.issuedAt = call.issuedAt
        /\ call'.provider = call.provider /\ call'.inTime = call.inTime
    BY <2>2 DEF CallInv, CallType
  <2> QED
    BY <2>1, <2>2, <2>3 DEF CallInv, Unpaid, Ended, OnLedger, At, ServedByPayee, Served
<1>9. CASE Hang
  <2>1. /\ call.pc \in {"ask", "build", "submit", "poll", "sign"}
        /\ UNCHANGED now /\ call' = [call EXCEPT !.pc = "hung"]
        /\ UNCHANGED tx \/ (call.pc = "submit" /\ tx' = [tx EXCEPT !.state = "pending"])
    BY <1>9 DEF Hang, Submitted, At, Goto
  <2>2. /\ call' \in CallType /\ call'.pc = "hung" /\ call'.issuedAt = call.issuedAt
        /\ call'.provider = call.provider
    BY <2>1 DEF CallInv, CallType
  <2>3. tx' \in TxType /\ tx'.to = tx.to /\ tx'.at = tx.at
        /\ (UNCHANGED tx \/ (call.pc = "submit" /\ tx'.state = "pending"))
    BY <2>1 DEF CallInv, TxType
  <2> QED
    BY <2>1, <2>2, <2>3 DEF CallInv, Unpaid, Ended, OnLedger, At, ServedByPayee, Served
<1>10. CASE GiveUp
  <2>1. UNCHANGED <<now, tx>> /\ call' = [call EXCEPT !.pc = "failed"]
    BY <1>10 DEF GiveUp, Fail, Goto
  <2>2. /\ call' \in CallType /\ call'.pc = "failed" /\ call'.issuedAt = call.issuedAt
        /\ call'.provider = call.provider
    BY <2>1 DEF CallInv, CallType
  <2> QED
    BY <2>1, <2>2 DEF CallInv, Unpaid, Ended, OnLedger, At, ServedByPayee, Served
<1> QED
  BY <1>1, <1>2, <1>3, <1>4, <1>5, <1>6, <1>7, <1>8, <1>9, <1>10 DEF Step

(* The network and the clock.                                              *)
LEMMA LandCall == ASSUME CallInv, Land PROVE CallInv'
<1>1. tx.state = "pending" /\ UNCHANGED <<now, call>>
  BY DEF Land
<1>2. PICK state \in {"landed", "reverted"} : tx' = [tx EXCEPT !.state = state, !.at = now]
  BY DEF Land
<1>3. tx' \in TxType /\ tx'.state = state /\ tx'.to = tx.to /\ tx'.at = now
  BY <1>2 DEF CallInv, TxType
<1>4. ~Served
  BY <1>1 DEF CallInv, ServedByPayee
<1> QED
  BY <1>1, <1>3, <1>4 DEF CallInv, Unpaid, Ended, OnLedger, At, ServedByPayee, Served

LEMMA TickCall == ASSUME CallInv, Tick PROVE CallInv'
<1>1. ~Ended /\ now' = now + 1 /\ UNCHANGED <<call, tx>>
  BY DEF Tick, Ended
<1>2. now' \in Nat /\ \A n \in Nat : n <= now => n <= now'
  BY <1>1 DEF CallInv
<1>3. call.issuedAt \in Nat /\ tx.at \in Nat
  BY DEF CallInv, CallType, TxType
<1> QED
  BY <1>1, <1>2, <1>3 DEF CallInv, Unpaid, Ended, OnLedger, At, ServedByPayee, Served

(* A verified payment went to the quote's address, within its window.      *)
LEMMA VerifiedHolds ==
    ASSUME NEW quote, verifyStellarPayment(OnChain, quote).verified
    PROVE  /\ tx.state = "landed" /\ tx.to = quote.paymentAddress
           /\ quote.issuedAt <= tx.at /\ tx.at <= quote.expiresAt
<1>1. verified(OnChain, quote)
  BY DEF verifyStellarPayment
<1>2. OnChain.successful /\ OnChain.at = tx.at /\ OnChain.successful = (tx.state = "landed")
  BY <1>1 DEF verified, OnChain
<1>3. inWindow(OnChain, quote) /\ matchingOps(OnChain, quote) # {}
  BY <1>1 DEF verified
<1>4. PICK i \in DOMAIN OnChain.ops : OnChain.ops[i].to = quote.paymentAddress
  BY <1>3 DEF matchingOps, Reaching, paymentOps, Direct, OverPath
<1>5. OnChain.ops[i].to = tx.to
  BY <1>4 DEF OnChain
<1> QED
  BY <1>2, <1>3, <1>4, <1>5 DEF inWindow

LEMMA AcceptedHolds ==
    ASSUME CallInv, NEW p \in Provider, NEW memoRead \in BOOLEAN, Accepted(p, memoRead)
    PROVE  /\ tx.state = "landed" /\ tx.to = p /\ call.issuedAt <= tx.at
           /\ tx.at <= expiresAt \/ tx.at = now
<1>1. CASE Resolves(p, memoRead)
  <2>1. p = call.provider
    <3>1. CASE ByMemo(p, memoRead)
      <4>1. \E row \in pendingRows : row.route = p
        BY <3>1 DEF ByMemo, findPendingByQuoteMemo
      <4> QED
        BY <4>1 DEF pendingRows
    <3> QED
      BY <1>1, <3>1 DEF Resolves
  <2>2. verifyStellarPayment(OnChain, storedQuote).verified
    BY <1>1 DEF Accepted
  <2>3. storedQuote.paymentAddress = call.provider /\ storedQuote.issuedAt = call.issuedAt
    BY DEF storedQuote, Quote, generateQuote
  <2> QED
    BY <2>1, <2>2, <2>3, VerifiedHolds DEF expiresAt
<1>2. CASE ~Resolves(p, memoRead)
  <2>1. verifyStellarPayment(OnChain, Quote(p, 0, now)).verified
    BY <1>2 DEF Accepted
  <2>2. tx.state = "landed" /\ tx.to = p /\ now <= tx.at
    <3>1. Quote(p, 0, now).paymentAddress = p /\ Quote(p, 0, now).issuedAt = now
      BY DEF Quote, generateQuote
    <3> QED
      BY <2>1, <3>1, VerifiedHolds
  <2>3. now \in Nat /\ tx.at \in Nat /\ call.issuedAt <= tx.at /\ tx.at <= now
    BY <2>2 DEF CallInv, TxType, OnLedger
  <2> QED
    BY <2>2, <2>3
<1> QED
  BY <1>1, <1>2

(* What a retry may come to: a refusal, an answer to an accepted payment,  *)
(* or nothing that is heard.                                               *)
LEMMA RetryComesTo ==
    ASSUME RetryPaid
    PROVE  \E p \in Provider \union {NoProvider}, how \in {"done", "streamed", "failed", "hung"} :
              /\ Answered(p, how)
              /\ how \in {"done", "streamed"} =>
                    p \in Provider /\ \E memoRead \in BOOLEAN : Accepted(p, memoRead)
<1> DEFINE Comes(p, how) ==
             /\ Answered(p, how)
             /\ how \in {"done", "streamed"} =>
                   p \in Provider /\ \E memoRead \in BOOLEAN : Accepted(p, memoRead)
           Result == \E p \in Provider \union {NoProvider},
                        how \in {"done", "streamed", "failed", "hung"} : Comes(p, how)
<1>1. ASSUME NEW p \in Provider \union {NoProvider}, NEW how \in {"failed", "hung"}, Answered(p, how)
      PROVE  Result
  BY <1>1
<1> HIDE DEF Result
<1>2. ASSUME NEW what, Refused(what) PROVE Result
  BY <1>1, <1>2 DEF Refused
<1>3. ASSUME NEW p \in Provider \union {NoProvider}, Unheard(p) PROVE Result
  BY <1>1, <1>3 DEF Unheard
<1>4. ASSUME NEW p, NEW memoRead, Mismatched(p, memoRead) PROVE Result
  BY <1>1, <1>4 DEF Mismatched
<1>5. ASSUME NEW p \in Provider, NEW memoRead \in BOOLEAN, Accepted(p, memoRead), Admit(p)
      PROVE  Result
  <2>1. ASSUME NEW how \in {"done", "streamed"}, Answered(p, how) PROVE Result
    BY <1>5, <2>1 DEF Result
  <2> QED
    BY <1>2, <1>3, <1>5, <2>1 DEF Admit
<1>6. ASSUME NEW p \in Provider, NEW memoRead \in BOOLEAN, handleChatCompletion(p, memoRead)
      PROVE  Result
  BY <1>2, <1>4, <1>5, <1>6 DEF handleChatCompletion
<1>7. Result
  BY <1>2, <1>3, <1>6 DEF RetryPaid
<1> QED
  BY <1>7 DEF Result

LEMMA RetryCall == ASSUME CallInv, RetryPaid PROVE CallInv'
<1>1. call.pc = "retry" /\ UNCHANGED <<now, tx>>
  BY DEF RetryPaid, At
<1> DEFINE inTime == now <= expiresAt
<1>2. inTime \in BOOLEAN
  OBVIOUS
<1>3. PICK p \in Provider \union {NoProvider}, how \in {"done", "streamed", "failed", "hung"} :
         /\ Answered(p, how)
         /\ how \in {"done", "streamed"} =>
               p \in Provider /\ \E memoRead \in BOOLEAN : Accepted(p, memoRead)
  BY RetryComesTo
<1>4. call' = [call EXCEPT !.pc = how, !.server = p, !.inTime = inTime]
  BY <1>3 DEF Answered
<1> HIDE DEF inTime
<1>5. /\ call' \in CallType /\ call'.pc = how /\ call'.issuedAt = call.issuedAt
      /\ call'.provider = call.provider /\ call'.server = p
  BY <1>2, <1>4 DEF CallInv, CallType
<1>6. expiresAt' = expiresAt
  BY <1>5 DEF expiresAt, storedQuote, Quote, generateQuote
<1>7. how \in {"done", "streamed"} =>
         /\ tx.state = "landed" /\ tx.to = p /\ call.issuedAt <= tx.at
         /\ tx.at <= expiresAt \/ tx.at = now
  BY <1>3, AcceptedHolds
<1>8. ServedByPayee'
  BY <1>1, <1>5, <1>6, <1>7 DEF ServedByPayee, Served
<1> QED
  BY <1>1, <1>5, <1>8 DEF CallInv, Unpaid, Ended, OnLedger, At

LEMMA NextCall == CallInv /\ [Next]_vars => CallInv'
<1> SUFFICES ASSUME CallInv, [Next]_vars PROVE CallInv'
  OBVIOUS
<1>1. CASE UNCHANGED clientVars
  BY <1>1 DEF clientVars, CallInv, Unpaid, Ended, OnLedger, At, ServedByPayee, Served,
     expiresAt, storedQuote, Quote, generateQuote
<1>2. CASE Step \/ Land \/ Tick \/ RetryPaid
  BY <1>2, StepCall, LandCall, TickCall, RetryCall
<1> QED
  BY <1>1, <1>2 DEF Next, Neighbour, vars

(* Whoever answers a paid call is the provider its transaction paid, for   *)
(* any providers, prices, and times (ServedByPayee).                       *)
THEOREM ServedByPayeeAlways == Spec => []ServedByPayee
<1>1. CallInv => ServedByPayee
  BY DEF CallInv
<1> QED
  BY <1>1, InitCall, NextCall, PTL DEF Spec

-------------------------------------------------------------------------------
(* What is paid is served.                                                 *)

(* A quote asks for what its own verification requires, if it asks for     *)
(* anything.                                                               *)
LEMMA QuoteCoversItself ==
    ASSUME MIN_PAYMENT > 0, NEW p \in Provider, NEW n \in Nat, NEW t
    PROVE  Covers(Quote(p, n, t).amount, Quote(p, n, t))
<1> DEFINE route == Priced[p]
           price == IF route.perToken THEN route.price * estimatedMaxTokens(n) ELSE route.price
           quote == Quote(p, n, t)
<1>1. route.price \in Nat /\ estimatedMaxTokens(n) \in Nat
  BY PaidCallAssumption, PricingAssumption DEF estimatedMaxTokens
<1>2. \A a, b \in Nat : a * b \in Nat
  OBVIOUS
<1>3. price \in Nat
  BY <1>1, <1>2
<1> HIDE DEF price
<1>4. quote.amount = atLeastMinimum(price)
  BY DEF Quote, generateQuote, quoteAmount, price
<1> HIDE DEF quote
<1>5. quote.amount \in Nat /\ quote.amount > 0 /\ atLeastMinimum(quote.amount) = quote.amount
  BY <1>3, <1>4, MinimumHolds, PricingAssumption
<1>6. requiredAmount(quote) = quote.amount
  BY <1>5 DEF requiredAmount
<1>7. Covers(quote.amount, quote)
  BY <1>5, <1>6 DEF Covers
<1> QED
  BY <1>7 DEF quote

LEMMA OwnPaymentAccepted ==
    ASSUME CallInv, MIN_PAYMENT > 0, At("retry"), now <= expiresAt
    PROVE  Accepted(call.provider, TRUE)
<1> DEFINE p == call.provider
           row == [id |-> storedQuote.id, route |-> p]
<1>1. /\ tx.state = "landed" /\ tx.to = p /\ p \in Provider
      /\ now \in Nat /\ call.issuedAt \in Nat /\ tx.at \in Nat
      /\ call.issuedAt <= tx.at /\ tx.at <= now
  BY DEF CallInv, At, OnLedger, CallType, TxType
<1>2. /\ storedQuote.id = [first24 |-> <<p, call.issuedAt>>] /\ storedQuote.paymentAddress = p
      /\ storedQuote.issuedAt = call.issuedAt /\ expiresAt = call.issuedAt + QuoteLife
  BY DEF storedQuote, Quote, generateQuote, expiresAt
<1>3. expiresAt \in Nat /\ storedQuote.expiresAt = expiresAt
  BY <1>1, <1>2, PaidCallAssumption DEF expiresAt
<1>4. Resolves(p, TRUE)
  <2>1. row \in pendingRows /\ row.route = p /\ row.id = storedQuote.id
    BY DEF pendingRows
  <2>2. quoteMemo(storedQuote.id) = <<p, call.issuedAt>>
    BY <1>2 DEF quoteMemo
  <2>3. quoteMemo(storedQuote.id) # NoMemo
    BY <1>1, <2>2, PaidCallAssumption
  <2>4. fetchTransactionMemo(OnChain, TRUE) = quoteMemo(storedQuote.id)
    BY DEF fetchTransactionMemo, OnChain
  <2> HIDE DEF row, p
  <2>5. row.id \in {r.id : r \in pendingRows}
    BY <2>1
  <2>6. row \in findPendingByQuoteMemo(quoteMemo(storedQuote.id), p, pendingRows)
    BY <2>1, <2>3, <2>5 DEF findPendingByQuoteMemo, quoteIdPrefixFromMemo
  <2> QED
    BY <2>4, <2>6 DEF Resolves, ByMemo
<1>5. ~isQuoteExpired(storedQuote, now)
  BY <1>1, <1>3 DEF isQuoteExpired
<1>6. verified(OnChain, storedQuote)
  <2> DEFINE op == [type |-> "payment", to |-> tx.to, asset |-> storedQuote.asset,
                    amount |-> storedQuote.amount]
  <2>1. /\ OnChain.successful /\ OnChain.at = tx.at
    BY <1>1 DEF OnChain
  <2>2. OnChain.ops = <<op>>
    BY DEF OnChain
  <2>3. /\ op.type = "payment" /\ op.to = tx.to /\ op.asset = storedQuote.asset
        /\ op.amount = storedQuote.amount
    OBVIOUS
  <2> HIDE DEF op
  <2>4. 1 \in DOMAIN OnChain.ops /\ OnChain.ops[1] = op
    BY <2>2
  <2>5. Covers(op.amount, storedQuote)
    BY <1>1, <2>3, QuoteCoversItself, PaidCallAssumption DEF storedQuote
  <2>6. 1 \in matchingOps(OnChain, storedQuote)
    BY <1>1, <1>2, <2>3, <2>4, <2>5 DEF matchingOps, Reaching, paymentOps, Direct
  <2>7. inWindow(OnChain, storedQuote)
    BY <1>1, <1>2, <1>3, <2>1 DEF inWindow
  <2> QED
    BY <2>1, <2>6, <2>7 DEF verified
<1> QED
  BY <1>4, <1>5, <1>6 DEF Accepted, verifyStellarPayment

TroubleInv == At("failed") /\ call.inTime => trouble # {}

LEMMA NextTrouble ==
    ASSUME CallInv, TroubleInv, MIN_PAYMENT > 0, [Next]_vars
    PROVE  TroubleInv'
<1>1. CASE UNCHANGED clientVars
  BY <1>1 DEF clientVars, TroubleInv, At
<1>2. CASE Step
  <2>1. CASE GiveUp
    BY <2>1 DEF GiveUp, Struck, TroubleInv
  <2>2. CASE Hang
    <3>1. call'.pc = "hung"
      BY <2>2 DEF Hang, Goto, CallInv, CallType
    <3> QED
      BY <3>1 DEF TroubleInv, At
  <2>3. CASE ~GiveUp /\ ~Hang
    <3>1. call \in CallType /\ ~Ended /\ ~call.inTime
      BY <1>2, <2>3 DEF CallInv, Ended, At, Step, Start, AskQuote, handle402Payment,
         buildPaymentTransaction, pay_quote, SignWithKey, signTransaction, submitTransaction,
         waitForConfirmation, PollAnswer
    <3>2. call'.inTime = call.inTime
      BY <1>2, <2>3, <3>1 DEF CallType, Step, Start, AskQuote, Quoted, handle402Payment,
         buildPaymentTransaction, pay_quote, SignWithKey, signTransaction, submitTransaction,
         waitForConfirmation, PollAnswer, Goto, Fail
    <3> QED
      BY <3>1, <3>2 DEF TroubleInv
  <2> QED
    BY <2>1, <2>2, <2>3
<1>3. CASE Land \/ Tick
  BY <1>3 DEF Land, Tick, TroubleInv, At
<1>4. CASE RetryPaid
  <2>1. At("retry") /\ call \in CallType /\ call.pc = "retry"
    BY <1>4 DEF RetryPaid, CallInv, At
  <2>2. ASSUME NEW what, Refused(what) PROVE TroubleInv'
    BY <2>2 DEF Refused, Struck, TroubleInv
  <2>3. ASSUME NEW p, NEW how \in {"done", "streamed", "hung"}, Answered(p, how)
        PROVE  TroubleInv'
    <3>1. call'.pc = how
      BY <2>1, <2>3 DEF Answered, CallType
    <3> QED
      BY <3>1 DEF TroubleInv, At
  <2>4. ASSUME NEW p, Unheard(p) PROVE TroubleInv'
    BY <2>3, <2>4 DEF Unheard, Struck, TroubleInv
  <2>5. ASSUME NEW p, Admit(p) PROVE TroubleInv'
    BY <2>2, <2>3, <2>4, <2>5 DEF Admit
  <2>6. ASSUME NEW p \in Provider, NEW memoRead \in BOOLEAN, ~Accepted(p, memoRead),
               Mismatched(p, memoRead)
        PROVE  TroubleInv'
    <3>1. CASE p # call.provider
      BY <2>6, <3>1 DEF Mismatched, TroubleInv
    <3>2. CASE ~memoRead
      BY <2>6, <3>2 DEF Mismatched, TroubleInv
    <3>3. CASE p = call.provider /\ memoRead = TRUE
      <4>1. ~(now <= expiresAt)
        BY <2>1, <2>6, <3>3, OwnPaymentAccepted
      <4>2. ~call'.inTime
        BY <2>1, <2>6, <4>1 DEF Mismatched, Answered, CallType
      <4> QED
        BY <4>2 DEF TroubleInv
    <3> QED
      BY <3>1, <3>2, <3>3
  <2>7. ASSUME NEW p \in Provider, NEW memoRead \in BOOLEAN, handleChatCompletion(p, memoRead)
        PROVE  TroubleInv'
    BY <2>2, <2>5, <2>6, <2>7 DEF handleChatCompletion
  <2> QED
    BY <1>4, <2>2, <2>4, <2>7 DEF RetryPaid
<1> QED
  BY <1>1, <1>2, <1>3, <1>4 DEF Next, Neighbour, vars

(* A call that paid and asked again before its quote ran out does not fail *)
(* without one of the named troubles: a throttled or rerouted retry, no    *)
(* quote id from a changed address, a debt, Horizon, the upstream, the     *)
(* gateway's own database or Redis, or the network; for any prices of at   *)
(* least one stroop (PaidIsServed).                                        *)
THEOREM PaidIsServedAlways ==
    ASSUME MIN_PAYMENT > 0
    PROVE  Spec => []PaidIsServed
<1>1. Init => TroubleInv
  BY DEF Init, TroubleInv, At
<1>2. CallInv /\ TroubleInv /\ [Next]_vars => TroubleInv'
  BY NextTrouble
<1>3. TroubleInv => PaidIsServed
  BY DEF TroubleInv, PaidIsServed
<1> QED
  BY <1>1, <1>2, <1>3, InitCall, NextCall, PTL DEF Spec

-------------------------------------------------------------------------------
(* The rate limit.                                                         *)

(* Nothing was counted in the future, and what may still count is in the   *)
(* bucket.                                                                 *)
RateInv ==
    /\ now \in Nat
    /\ IsFiniteSet(bucket)
    /\ \A e \in admitted : /\ e.score \in Nat /\ e.score <= now
                           /\ e.score + Window > now => e \in bucket
    /\ RateKept

(* A request that is let in makes at most MaxRequests of its stretch, and  *)
(* changes no stretch that ended before.                                   *)
LEMMA EvalKeeps == ASSUME RateInv, now' = now, evalRateLimit(now) PROVE RateInv'
<1>1. Window \in Nat /\ MaxRequests \in Nat
  BY RateAssumption
<1>2. IsFiniteSet(Recent(now)) /\ Cardinality(Recent(now)) \in Nat
  BY FS_Subset, FS_CardinalityType DEF RateInv, Recent
<1>3. CASE ~HasRoom(now)
  <2>1. bucket' = Recent(now) /\ admitted' = admitted
    BY <1>3 DEF evalRateLimit
  <2> QED
    BY <1>2, <2>1 DEF RateInv, RateKept, Counted, Recent
<1>4. CASE HasRoom(now)
  <2> DEFINE new == Entry(now)
             In == Recent(now) \union {new}
  <2>1. new.score = now
    BY DEF Entry
  <2>2. bucket' = In /\ admitted' = admitted \union {new}
    BY <1>4 DEF evalRateLimit
  <2> HIDE DEF new
  <2>3. IsFiniteSet(In) /\ Cardinality(In) <= MaxRequests
    <3>1. /\ IsFiniteSet(In)
          /\ Cardinality(In) = IF new \in Recent(now) THEN Cardinality(Recent(now))
                                                      ELSE Cardinality(Recent(now)) + 1
      BY <1>2, FS_AddElement
    <3> QED
      BY <1>1, <1>2, <1>4, <3>1 DEF HasRoom
  <2>4. \A e \in admitted' : /\ e.score \in Nat /\ e.score <= now
                             /\ e.score + Window > now => e \in bucket'
    BY <2>1, <2>2 DEF RateInv, Recent
  <2>5. ASSUME NEW e \in admitted' PROVE Cardinality(Counted(e.score)') <= MaxRequests
    <3>1. CASE e.score = now
      <4>1. Counted(e.score)' \in SUBSET In
        BY <2>2, <2>4, <3>1 DEF Counted
      <4>2. /\ Cardinality(Counted(e.score)') <= Cardinality(In)
            /\ Cardinality(Counted(e.score)') \in Nat /\ Cardinality(In) \in Nat
        BY <2>3, <4>1, FS_Subset, FS_CardinalityType
      <4> QED
        BY <1>1, <2>3, <4>2
    <3>2. CASE e.score # now
      <4>1. e \in admitted /\ ~(now <= e.score)
        BY <2>1, <2>2, <2>4, <3>2 DEF RateInv
      <4>2. Counted(e.score)' = Counted(e.score)
        BY <2>1, <2>2, <4>1 DEF Counted
      <4> QED
        BY <4>1, <4>2 DEF RateInv, RateKept
    <3> QED
      BY <3>1, <3>2
  <2> QED
    BY <2>2, <2>3, <2>4, <2>5 DEF RateInv, RateKept
<1> QED
  BY <1>3, <1>4

(* Nobody else touches the bucket, and the clock only goes on.             *)
LEMMA RatesMove ==
    ASSUME RateInv, [Next]_vars
    PROVE  \/ now' = now /\ evalRateLimit(now)
           \/ now' \in Nat /\ now <= now' /\ UNCHANGED rates
<1>0. now \in Nat
  BY DEF RateInv
<1>1. ASSUME NEW pass, checkLimit(now, pass), now' = now
      PROVE  (now' = now /\ evalRateLimit(now)) \/ UNCHANGED rates
  BY <1>1 DEF checkLimit
<1>2. CASE Start \/ handle402Payment \/ buildPaymentTransaction \/ pay_quote
  BY <1>0, <1>2 DEF Start, handle402Payment, buildPaymentTransaction, pay_quote,
                    SignWithKey, signTransaction
<1>3. CASE submitTransaction \/ waitForConfirmation \/ PollAnswer \/ Land \/ Hang \/ GiveUp
  BY <1>0, <1>1, <1>3 DEF submitTransaction, waitForConfirmation, PollAnswer, Land, Hang, GiveUp
<1>4. CASE Tick
  BY <1>0, <1>4 DEF Tick
<1>5. CASE AskQuote
  BY <1>0, <1>1, <1>5 DEF AskQuote
<1>6. CASE Neighbour
  BY <1>0, <1>1, <1>6 DEF Neighbour, clientVars
<1>7. CASE RetryPaid
  <2>1. now' = now /\ \E pass \in BOOLEAN : checkLimit(now, pass)
    BY <1>7 DEF RetryPaid
  <2> QED
    BY <1>0, <1>1, <2>1
<1>8. CASE UNCHANGED <<clientVars, rates>>
  BY <1>0, <1>8 DEF clientVars
<1> QED
  BY <1>2, <1>3, <1>4, <1>5, <1>6, <1>7, <1>8 DEF Next, Step, vars

LEMMA NextRate == RateInv /\ [Next]_vars => RateInv'
<1> SUFFICES ASSUME RateInv, [Next]_vars PROVE RateInv'
  OBVIOUS
<1>1. ASSUME now' \in Nat, now <= now', UNCHANGED rates PROVE RateInv'
  BY <1>1, RateAssumption DEF RateInv, rates, RateKept, Counted
<1> QED
  BY <1>1, EvalKeeps, RatesMove

(* The guard lets at most its maximum of counted requests into any stretch *)
(* of its window's length.                                                 *)
THEOREM RateKeptAlways == Spec => []RateKept
<1>1. Init => RateInv
  BY FS_EmptySet DEF Init, RatesInit, RateInv, RateKept
<1>2. RateInv => RateKept
  BY DEF RateInv
<1> QED
  BY <1>1, <1>2, NextRate, PTL DEF Spec

-------------------------------------------------------------------------------
(* The notice.                                                             *)

NoticeType ==
    [pc : {"none", "look up", "send", "done"}, attempt : Nat,
     channels : SUBSET {"in_app", "webhook"}]

(* The receiver has acted once for the one id it may have seen.            *)
NoticeInv ==
    /\ notice \in NoticeType
    /\ \/ seen = {} /\ handled = 0
       \/ seen = {1} /\ handled = 1
    /\ "webhook" \in notice.channels => seen = {1}

LEMMA NextNotice == NoticeInv /\ [Next]_vars => NoticeInv'
<1> SUFFICES ASSUME NoticeInv, [Next]_vars PROVE NoticeInv'
  OBVIOUS
<1>0. notice \in NoticeType
  BY DEF NoticeInv
<1>1. ASSUME Arrives PROVE seen' = {1} /\ handled' = 1
  BY <1>1 DEF NoticeInv, Arrives, deriveEventId
<1>2. Again \in NoticeType /\ Again.channels = notice.channels
  <2>1. ASSUME NEW n \in Nat
        PROVE  /\ [notice EXCEPT !.attempt = n] \in NoticeType
               /\ [notice EXCEPT !.attempt = n].channels = notice.channels
    BY <1>0 DEF NoticeType
  <2>2. /\ [notice EXCEPT !.pc = "done"] \in NoticeType
        /\ [notice EXCEPT !.pc = "done"].channels = notice.channels
    BY <1>0 DEF NoticeType
  <2>3. Again = [notice EXCEPT !.pc = "done"] \/ \E n \in Nat : Again = [notice EXCEPT !.attempt = n]
    <3>1. notice.attempt \in Nat
      BY <1>0 DEF NoticeType
    <3> QED
      BY <3>1 DEF Again
  <2> QED
    BY <2>1, <2>2, <2>3
<1>3. CASE notify
  <2>1. notice' = [notice EXCEPT !.pc = "look up", !.channels = {"in_app"}]
    BY <1>3 DEF notify
  <2>2. notice' \in NoticeType /\ notice'.channels = {"in_app"}
    BY <1>0, <2>1 DEF NoticeType
  <2> QED
    BY <1>3, <2>2 DEF NoticeInv, notify
<1>4. CASE findWebhook
  <2>1. notice' \in {[notice EXCEPT !.pc = "done"],
                     [notice EXCEPT !.pc = "send", !.attempt = 1]}
    BY <1>4 DEF findWebhook
  <2>2. notice' \in NoticeType /\ notice'.channels = notice.channels
    <3>1. CASE notice' = [notice EXCEPT !.pc = "done"]
      BY <1>0, <3>1 DEF NoticeType
    <3>2. CASE notice' = [notice EXCEPT !.pc = "send", !.attempt = 1]
      BY <1>0, <3>2 DEF NoticeType
    <3> QED
      BY <2>1, <3>1, <3>2
  <2> QED
    BY <1>4, <2>2 DEF NoticeInv, findWebhook
<1>5. CASE sendWithSignature
  <2>1. CASE Arrives
    <3>1. \/ notice' = [notice EXCEPT !.pc = "done", !.channels = @ \union {"webhook"}]
          \/ notice' = Again
      BY <1>5, <2>1 DEF sendWithSignature
    <3>2. [notice EXCEPT !.pc = "done", !.channels = @ \union {"webhook"}] \in NoticeType
      BY <1>0 DEF NoticeType
    <3>3. notice' \in NoticeType
      BY <1>2, <3>1, <3>2
    <3> QED
      BY <1>1, <2>1, <3>3 DEF NoticeInv
  <2>2. CASE UNCHANGED <<seen, handled>> /\ notice' = Again
    BY <1>2, <2>2 DEF NoticeInv
  <2> QED
    BY <1>5, <2>1, <2>2 DEF sendWithSignature
<1>6. CASE UNCHANGED notices
  BY <1>6 DEF NoticeInv, notices
<1>7. RetryPaid => notify \/ UNCHANGED notices
  <2>1. ASSUME NEW p, NEW memoRead, handleChatCompletion(p, memoRead)
        PROVE  notify \/ UNCHANGED notices
    BY <2>1 DEF handleChatCompletion, Admit
  <2> QED
    BY <2>1 DEF RetryPaid
<1> QED
  BY <1>3, <1>4, <1>5, <1>6, <1>7 DEF Next, SendNotice, vars

(* However many attempts of a notice arrive, the provider acts on it once. *)
THEOREM HandledOnceAlways == Spec => []HandledOnce
<1>1. Init => NoticeInv
  BY DEF Init, NoticesInit, NoticeInv, NoticeType
<1>2. NoticeInv => HandledOnce
  BY DEF NoticeInv, HandledOnce
<1> QED
  BY <1>1, <1>2, NextNotice, PTL DEF Spec

-------------------------------------------------------------------------------

LineType == [kind : {"content", "done", "error", "receipt", "garbage"}, n : Nat,
             newline : BOOLEAN]

(* The first k lines of w are what the upstream sent as content: all of    *)
(* it, once, and in order.                                                 *)
Carries(s, w, k) ==
    /\ \A i \in 1 .. k : /\ w[i].kind = "content" /\ w[i].newline
                         /\ w[i].n \in DOMAIN s /\ s[w[i].n] = "content"
    /\ \A i, j \in 1 .. k : i < j => w[i].n < w[j].n
    /\ \A m \in DOMAIN s : s[m] = "content" => \E i \in 1 .. k : w[i].n = m

(* And the line after these is the receipt.                                *)
Receipted(s, w, r) ==
    /\ r \in DOMAIN w
    /\ w[r].kind = "receipt" /\ w[r].newline
    /\ Carries(s, w, r - 1)

(* A stream that has not ended yet, or has ended by itself.                *)
Whole == stream.pc \in {"none", "open"} \/ stream.close = "whole"

StreamType ==
    [pc : {"none", "open", "receipt", "sentinel", "ended", "abandoned"},
     close : {"none", "whole", "unterminated", "broken", "cut"}, waits : BOOLEAN]

(* Only content is on the wire until the receipt, and only the sentinel,   *)
(* if there was one, is written after it; where onDone failed, the wire    *)
(* stays as it was.                                                        *)
StreamInv ==
    /\ stream \in StreamType
    /\ Whole => /\ sent \in Seq({"content", "done"}) /\ wire \in Seq(LineType)
                /\ upstreamDone = \E k \in DOMAIN sent : sent[k] = "done"
    /\ stream.pc = "none" => sent = << >> /\ wire = << >>
    /\ Whole /\ stream.pc \in {"open", "receipt"} => Carries(sent, wire, Len(wire))
    /\ Whole /\ stream.pc = "sentinel" => Receipted(sent, wire, Len(wire))
    /\ Whole /\ stream.pc = "abandoned" =>
          Carries(sent, wire, Len(wire)) \/ Receipted(sent, wire, Len(wire))
    /\ Whole /\ stream.pc = "ended" =>
          IF upstreamDone
          THEN Receipted(sent, wire, Len(wire) - 1) /\ wire[Len(wire)].kind = "done"
          ELSE Receipted(sent, wire, Len(wire))

(* A line after lines that end with a newline is a line of its own.        *)
LEMMA WrittenAppends ==
    ASSUME wire \in Seq(LineType), NEW line,
           wire # << >> => wire[Len(wire)].newline
    PROVE  Written(line) = Append(wire, line)
BY DEF Written, Last

(* Lines that are written later change nothing of those before.            *)
LEMMA CarriesOn ==
    ASSUME NEW s, NEW w, NEW x, NEW k, Carries(s, w, k),
           \A i \in 1 .. k : x[i] = w[i]
    PROVE  Carries(s, x, k)
BY DEF Carries

(* Writing a line after k lines of content, which stay as they are.        *)
LEMMA AppendLine ==
    ASSUME NEW w \in Seq(LineType), NEW line \in LineType, NEW x, x = Append(w, line)
    PROVE  /\ x \in Seq(LineType) /\ Len(x) = Len(w) + 1 /\ x[Len(w) + 1] = line
           /\ DOMAIN w = 1 .. Len(w) /\ DOMAIN x = 1 .. Len(w) + 1
           /\ \A i \in 1 .. Len(w) : x[i] = w[i]
OBVIOUS

(* One more line of content, sent and written.                             *)
LEMMA CarriesContent ==
    ASSUME NEW s \in Seq({"content", "done"}), NEW w \in Seq(LineType),
           Carries(s, w, Len(w)),
           NEW t, t = Append(s, "content"),
           NEW x, x = Append(w, Line("content", Len(t)))
    PROVE  Carries(t, x, Len(x))
<1> DEFINE line == Line("content", Len(t))
           k == Len(w)
           m == Len(s) + 1
<1>1. /\ Len(s) \in Nat /\ k \in Nat /\ Len(t) = m /\ t[m] = "content"
      /\ DOMAIN s = 1 .. Len(s) /\ DOMAIN t = 1 .. m
      /\ \A i \in 1 .. Len(s) : t[i] = s[i]
  OBVIOUS
<1>2. /\ line.kind = "content" /\ line.newline = TRUE /\ line.n = m /\ line \in LineType
  BY <1>1 DEF Line, LineType
<1>3. Len(x) = k + 1 /\ x[k + 1] = line /\ \A i \in 1 .. k : x[i] = w[i]
  BY <1>2, AppendLine
<1> HIDE DEF line
<1>4. ASSUME NEW i \in 1 .. k + 1
      PROVE  /\ x[i].kind = "content" /\ x[i].newline
             /\ x[i].n \in DOMAIN t /\ t[x[i].n] = "content"
             /\ i # k + 1 => x[i].n \in 1 .. Len(s) /\ x[i].n = w[i].n
             /\ i = k + 1 => x[i].n = m
  <2>1. CASE i = k + 1
    BY <1>1, <1>2, <1>3, <2>1
  <2>2. CASE i # k + 1
    <3>1. i \in 1 .. k
      BY <1>1, <2>2
    <3>2. /\ w[i].kind = "content" /\ w[i].newline
          /\ w[i].n \in DOMAIN s /\ s[w[i].n] = "content"
      BY <3>1 DEF Carries
    <3> QED
      BY <1>1, <1>3, <2>2, <3>1, <3>2
  <2> QED
    BY <2>1, <2>2
<1>5. ASSUME NEW i \in 1 .. k + 1, NEW j \in 1 .. k + 1, i < j
      PROVE  x[i].n < x[j].n
  <2>1. i \in 1 .. k /\ x[i].n \in 1 .. Len(s) /\ x[i].n = w[i].n
    BY <1>1, <1>4, <1>5
  <2>2. CASE j = k + 1
    BY <1>1, <1>4, <2>1, <2>2
  <2>3. CASE j # k + 1
    <3>1. j \in 1 .. k /\ x[j].n = w[j].n
      BY <1>1, <1>4, <2>3
    <3>2. w[i].n < w[j].n
      BY <1>5, <2>1, <3>1 DEF Carries
    <3> QED
      BY <2>1, <3>1, <3>2
  <2> QED
    BY <2>2, <2>3
<1>6. ASSUME NEW e \in DOMAIN t, t[e] = "content"
      PROVE  \E i \in 1 .. k + 1 : x[i].n = e
  <2>1. CASE e = m
    BY <1>1, <1>4, <2>1
  <2>2. CASE e # m
    <3>1. e \in DOMAIN s /\ s[e] = "content"
      BY <1>1, <1>6, <2>2
    <3>2. PICK i \in 1 .. k : w[i].n = e
      BY <3>1 DEF Carries
    <3>3. i \in 1 .. k + 1 /\ i # k + 1
      BY <1>1, <3>2
    <3> QED
      BY <1>4, <3>2, <3>3
  <2> QED
    BY <2>1, <2>2
<1>7. \A i \in 1 .. k + 1 : /\ x[i].kind = "content" /\ x[i].newline
                             /\ x[i].n \in DOMAIN t /\ t[x[i].n] = "content"
  BY <1>4
<1>8. Carries(t, x, k + 1)
  BY ONLY <1>5, <1>6, <1>7 DEF Carries
<1> QED
  BY ONLY <1>3, <1>8

(* The upstream's sentinel is no content.                                  *)
LEMMA CarriesSentinel ==
    ASSUME NEW s \in Seq({"content", "done"}), NEW w, NEW k, Carries(s, w, k),
           NEW t, t = Append(s, "done")
    PROVE  Carries(t, w, k)
<1>1. /\ Len(s) \in Nat /\ t[Len(s) + 1] = "done"
      /\ DOMAIN s = 1 .. Len(s) /\ DOMAIN t = 1 .. Len(s) + 1
      /\ \A i \in 1 .. Len(s) : t[i] = s[i]
  OBVIOUS
<1>2. ASSUME NEW e \in DOMAIN t, t[e] = "content" PROVE e \in DOMAIN s /\ s[e] = "content"
  BY <1>1, <1>2
<1>3. \A e \in DOMAIN s : e \in DOMAIN t /\ t[e] = s[e]
  BY <1>1
<1> QED
  BY <1>2, <1>3 DEF Carries

(* The receipt after the content.                                          *)
LEMMA CarriesReceipt ==
    ASSUME NEW s, NEW w \in Seq(LineType), Carries(s, w, Len(w)),
           NEW x, x = Append(w, Line("receipt", 0))
    PROVE  x \in Seq(LineType) /\ Receipted(s, x, Len(x))
<1> DEFINE line == Line("receipt", 0)
<1>1. line \in LineType /\ line.kind = "receipt" /\ line.newline = TRUE
  BY DEF Line, LineType
<1> HIDE DEF line
<1>2. /\ x \in Seq(LineType) /\ Len(x) = Len(w) + 1 /\ x[Len(w) + 1] = line
      /\ DOMAIN x = 1 .. Len(w) + 1
      /\ \A i \in 1 .. Len(w) : x[i] = w[i]
  BY <1>1, AppendLine DEF line
<1>3. Len(w) \in Nat /\ Len(x) - 1 = Len(w) /\ Len(x) \in DOMAIN x
  BY <1>2
<1>4. Carries(s, x, Len(x) - 1)
  <2>1. Carries(s, x, Len(w))
    BY <1>2, CarriesOn
  <2> QED
    BY <1>3, <2>1
<1> QED
  BY <1>1, <1>2, <1>3, <1>4 DEF Receipted

(* The sentinel after the receipt.                                         *)
LEMMA ReceiptedOn ==
    ASSUME NEW s, NEW w \in Seq(LineType), Receipted(s, w, Len(w)),
           NEW x, x = Append(w, Line("done", 0))
    PROVE  /\ x \in Seq(LineType) /\ Receipted(s, x, Len(x) - 1)
           /\ x[Len(x)].kind = "done"
<1> DEFINE line == Line("done", 0)
           r == Len(w)
<1>1. line \in LineType /\ line.kind = "done"
  BY DEF Line, LineType
<1> HIDE DEF line
<1>2. /\ x \in Seq(LineType) /\ Len(x) = r + 1 /\ x[r + 1] = line
      /\ DOMAIN x = 1 .. r + 1 /\ DOMAIN w = 1 .. r
      /\ \A i \in 1 .. r : x[i] = w[i]
  BY <1>1, AppendLine DEF line
<1>3. /\ r \in Nat /\ r \in 1 .. r /\ Len(x) - 1 = r /\ r \in DOMAIN x
      /\ \A i \in 1 .. r - 1 : i \in 1 .. r
  BY <1>2 DEF Receipted
<1>4. Carries(s, x, r - 1)
  <2>1. Carries(s, w, r - 1)
    BY DEF Receipted
  <2> QED
    BY <1>2, <1>3, <2>1, CarriesOn
<1>5. x[r] = w[r] /\ w[r].kind = "receipt" /\ w[r].newline
  BY <1>2, <1>3 DEF Receipted
<1> QED
  BY <1>1, <1>2, <1>3, <1>4, <1>5 DEF Receipted

(* What is written next to a whole stream is a line of its own: the lines  *)
(* before it end with a newline.                                           *)
LEMMA WholeWrites ==
    ASSUME StreamInv, Whole, stream.pc \in {"open", "receipt", "sentinel"}, NEW line
    PROVE  Written(line) = Append(wire, line)
<1>1. wire \in Seq(LineType)
  BY DEF StreamInv
<1>2. wire # << >> => wire[Len(wire)].newline
  <2>1. wire # << >> => Len(wire) \in 1 .. Len(wire)
    BY <1>1
  <2>2. CASE stream.pc \in {"open", "receipt"}
    <3>1. Carries(sent, wire, Len(wire))
      BY <2>2 DEF StreamInv
    <3> QED
      BY <2>1, <3>1 DEF Carries
  <2>3. CASE stream.pc = "sentinel"
    BY <2>3 DEF StreamInv, Receipted
  <2> QED
    BY <2>2, <2>3
<1> QED
  BY <1>1, <1>2, WrittenAppends

(* A stream opens with nothing on the wire.                                *)
LEMMA OpenStream == ASSUME StreamInv, forwardStreamRequest PROVE StreamInv'
<1>1. /\ stream.pc = "none" /\ sent = << >> /\ wire = << >>
      /\ UNCHANGED <<sent, wire, upstreamDone>>
      /\ stream' = [stream EXCEPT !.pc = "open"]
  BY DEF forwardStreamRequest, StreamInv
<1>2. stream' \in StreamType /\ stream'.pc = "open"
  BY <1>1 DEF StreamInv, StreamType
<1>3. /\ sent \in Seq({"content", "done"}) /\ wire \in Seq(LineType)
      /\ upstreamDone = \E k \in DOMAIN sent : sent[k] = "done"
  BY <1>1 DEF StreamInv, Whole
<1>4. Carries(sent, wire, Len(wire))
  BY <1>1 DEF Carries
<1> QED
  BY <1>1, <1>2, <1>3, <1>4 DEF StreamInv

(* A line of the upstream is passed on, or withheld.                       *)
LEMMA LineStream == ASSUME StreamInv, NEW kind \in {"content", "done"}, ForwardLine(kind)
                    PROVE  StreamInv'
<1>0. stream \in StreamType
  BY DEF StreamInv
<1>1. /\ stream.pc = "open" /\ Whole /\ sent' = Append(sent, kind)
      /\ stream' = stream \/ stream' = [stream EXCEPT !.waits = TRUE]
  BY DEF ForwardLine, Writable, MayWait, Whole
<1>6. stream' \in StreamType /\ stream'.pc = "open"
  BY <1>0, <1>1 DEF StreamType
<1>2. /\ sent \in Seq({"content", "done"}) /\ wire \in Seq(LineType)
      /\ upstreamDone = \E k \in DOMAIN sent : sent[k] = "done"
      /\ Carries(sent, wire, Len(wire))
  BY <1>1 DEF StreamInv
<1>3. /\ sent' \in Seq({"content", "done"})
      /\ Len(sent') \in Nat /\ sent'[Len(sent')] = kind /\ Len(sent') \in DOMAIN sent'
      /\ \A k \in DOMAIN sent : k \in DOMAIN sent' /\ sent'[k] = sent[k]
      /\ \A k \in DOMAIN sent' : k # Len(sent') => k \in DOMAIN sent
  BY <1>1, <1>2
<1>4. CASE kind = "content"
  <2>1. wire' = Append(wire, Line("content", Len(sent'))) /\ UNCHANGED upstreamDone
    BY <1>1, <1>4, WholeWrites DEF ForwardLine
  <2>2. wire' \in Seq(LineType)
    <3>1. Line("content", Len(sent')) \in LineType
      BY <1>3 DEF Line, LineType
    <3> QED
      BY <1>2, <2>1, <3>1
  <2>3. Carries(sent', wire', Len(wire'))
    BY <1>1, <1>2, <1>4, <2>1, CarriesContent
  <2>4. upstreamDone' = \E k \in DOMAIN sent' : sent'[k] = "done"
    BY <1>2, <1>3, <1>4, <2>1, Zenon
  <2> QED
    BY <1>3, <1>6, <2>2, <2>3, <2>4 DEF StreamInv
<1>5. CASE kind = "done"
  <2>1. UNCHANGED wire /\ upstreamDone' = TRUE
    BY <1>5 DEF ForwardLine
  <2>2. Carries(sent', wire', Len(wire'))
    BY <1>1, <1>2, <1>5, <2>1, CarriesSentinel
  <2>3. upstreamDone' = \E k \in DOMAIN sent' : sent'[k] = "done"
    BY <1>3, <1>5, <2>1
  <2> QED
    BY <1>2, <1>3, <1>6, <2>1, <2>2, <2>3 DEF StreamInv
<1> QED
  BY <1>4, <1>5

(* The stream closes; what follows is promised only if it is whole.        *)
LEMMA CloseStream ==
    ASSUME StreamInv,
           \/ UpstreamBreaks \/ StreamTimesOut
           \/ \E tail \in {"none", "content", "done"} : UpstreamEnds(tail)
    PROVE  StreamInv'
<1>1. stream \in StreamType
  BY DEF StreamInv
<1>2. ASSUME NEW how \in {"whole", "unterminated", "cut"}, NEW tail, Close(how, tail)
      PROVE  /\ stream' \in StreamType /\ stream'.pc = "receipt" /\ stream'.close = how
             /\ UNCHANGED <<sent, upstreamDone>>
  <2>1. UNCHANGED <<sent, upstreamDone>>
    BY <1>2 DEF Close
  <2>2. \E waits \in BOOLEAN : stream' = [pc |-> "receipt", close |-> how, waits |-> waits]
    <3>1. {FALSE, tail = "content"} \subseteq BOOLEAN
      OBVIOUS
    <3> QED
      BY <1>2, <3>1 DEF Close
  <2> QED
    BY <2>1, <2>2 DEF StreamType
<1>3. ASSUME stream' \in StreamType, stream'.pc = "receipt",
             stream'.close \in {"unterminated", "broken", "cut"}
      PROVE  StreamInv'
  BY <1>3 DEF StreamInv, Whole
<1>4. ASSUME UpstreamBreaks PROVE StreamInv'
  <2>1. stream' = [stream EXCEPT !.pc = "receipt", !.close = "broken"]
    BY <1>4 DEF UpstreamBreaks
  <2>2. stream' \in StreamType /\ stream'.pc = "receipt" /\ stream'.close = "broken"
    BY <1>1, <2>1 DEF StreamType
  <2> QED
    BY <1>3, <2>2
<1>5. ASSUME StreamTimesOut PROVE StreamInv'
  BY <1>2, <1>3, <1>5 DEF StreamTimesOut
<1>6. ASSUME NEW tail \in {"content", "done"}, UpstreamEnds(tail) PROVE StreamInv'
  <2>1. Close("unterminated", tail)
    BY <1>6 DEF UpstreamEnds
  <2> QED
    BY <1>2, <1>3, <2>1
<1>7. ASSUME UpstreamEnds("none") PROVE StreamInv'
  <2>1. stream.pc = "open" /\ Close("whole", "none") /\ UNCHANGED wire
    BY <1>7 DEF UpstreamEnds, Writable, Close
  <2>2. /\ sent \in Seq({"content", "done"}) /\ wire \in Seq(LineType)
        /\ upstreamDone = \E k \in DOMAIN sent : sent[k] = "done"
        /\ Carries(sent, wire, Len(wire))
    BY <2>1 DEF StreamInv, Whole
  <2>3. /\ stream' \in StreamType /\ stream'.pc = "receipt" /\ stream'.close = "whole"
        /\ UNCHANGED <<sent, upstreamDone>>
    BY <1>2, <2>1
  <2> QED
    BY <2>1, <2>2, <2>3 DEF StreamInv
<1> QED
  BY <1>4, <1>5, <1>6, <1>7

(* The receipt is written.                                                 *)
LEMMA ReceiptStream == ASSUME StreamInv, WriteReceipt PROVE StreamInv'
<1>1. /\ stream.pc = "receipt" /\ UNCHANGED <<sent, upstreamDone>>
      /\ wire' = Written(Line("receipt", 0))
      /\ stream' = [stream EXCEPT !.pc = "sentinel"]
  BY DEF WriteReceipt, Writable
<1>2. /\ stream' \in StreamType /\ stream'.pc = "sentinel" /\ stream'.close = stream.close
  BY <1>1 DEF StreamInv, StreamType
<1>3. CASE stream.close = "whole"
  <2>1. /\ sent \in Seq({"content", "done"}) /\ wire \in Seq(LineType)
        /\ upstreamDone = \E k \in DOMAIN sent : sent[k] = "done"
        /\ Carries(sent, wire, Len(wire))
    BY <1>1, <1>3 DEF StreamInv, Whole
  <2>2. wire' = Append(wire, Line("receipt", 0))
    BY <1>1, <1>3, WholeWrites DEF Whole
  <2>3. wire' \in Seq(LineType) /\ Receipted(sent, wire', Len(wire'))
    BY <2>1, <2>2, CarriesReceipt
  <2> QED
    BY <1>1, <1>2, <2>1, <2>3 DEF StreamInv
<1>4. CASE stream.close # "whole"
  BY <1>2, <1>4 DEF StreamInv, Whole
<1> QED
  BY <1>3, <1>4

(* onDone fails before the receipt or after it.                            *)
LEMMA RejectStream == ASSUME StreamInv, OnDoneRejects PROVE StreamInv'
<1>1. /\ stream.pc \in {"receipt", "sentinel"} /\ UNCHANGED <<sent, wire, upstreamDone>>
      /\ stream' = [stream EXCEPT !.pc = "abandoned"]
  BY DEF OnDoneRejects, Writable
<1>2. /\ stream' \in StreamType /\ stream'.pc = "abandoned" /\ stream'.close = stream.close
  BY <1>1 DEF StreamInv, StreamType
<1>3. CASE stream.close = "whole"
  <2>1. /\ sent \in Seq({"content", "done"}) /\ wire \in Seq(LineType)
        /\ upstreamDone = \E k \in DOMAIN sent : sent[k] = "done"
        /\ Carries(sent, wire, Len(wire)) \/ Receipted(sent, wire, Len(wire))
    BY <1>1, <1>3 DEF StreamInv, Whole
  <2> QED
    BY <1>1, <1>2, <2>1 DEF StreamInv
<1>4. CASE stream.close # "whole"
  BY <1>2, <1>4 DEF StreamInv, Whole
<1> QED
  BY <1>3, <1>4

(* The client reads on, or is gone.                                        *)
LEMMA DrainStream == ASSUME StreamInv, DrainOrClose PROVE StreamInv'
<1>1. /\ stream' = [stream EXCEPT !.waits = FALSE] /\ UNCHANGED <<sent, wire, upstreamDone>>
  BY DEF DrainOrClose
<1>2. /\ stream' \in StreamType /\ stream'.pc = stream.pc /\ stream'.close = stream.close
  BY <1>1 DEF StreamInv, StreamType
<1> QED
  BY <1>1, <1>2 DEF StreamInv, Whole

(* The sentinel follows if it was withheld.                                *)
LEMMA EndingStream == ASSUME StreamInv, EndStream PROVE StreamInv'
<1>1. /\ stream.pc = "sentinel" /\ UNCHANGED <<sent, upstreamDone>>
      /\ wire' = IF upstreamDone THEN Written(Line("done", 0)) ELSE wire
  BY DEF EndStream, Writable
<1>2. /\ stream' \in StreamType /\ stream'.pc = "ended" /\ stream'.close = stream.close
  <2>1. \E waits \in BOOLEAN : stream' = [stream EXCEPT !.pc = "ended", !.waits = waits]
    BY DEF EndStream
  <2> QED
    BY <2>1 DEF StreamInv, StreamType
<1>3. CASE stream.close = "whole"
  <2>1. /\ sent \in Seq({"content", "done"}) /\ wire \in Seq(LineType)
        /\ upstreamDone = \E k \in DOMAIN sent : sent[k] = "done"
        /\ Receipted(sent, wire, Len(wire))
    BY <1>1, <1>3 DEF StreamInv, Whole
  <2>2. ASSUME upstreamDone
        PROVE  /\ wire' \in Seq(LineType) /\ Receipted(sent, wire', Len(wire') - 1)
               /\ wire'[Len(wire')].kind = "done"
    <3>1. wire' = Append(wire, Line("done", 0))
      BY <1>1, <1>3, <2>2, WholeWrites DEF Whole
    <3> QED
      BY <2>1, <3>1, ReceiptedOn
  <2>3. ASSUME ~upstreamDone PROVE UNCHANGED wire
    BY <1>1, <2>3
  <2> QED
    BY <1>1, <1>2, <2>1, <2>2, <2>3 DEF StreamInv
<1>4. CASE stream.close # "whole"
  BY <1>2, <1>4 DEF StreamInv, Whole
<1> QED
  BY <1>3, <1>4

(* Every step keeps what is on the wire in this order.                     *)
LEMMA NextStream == StreamInv /\ [Next]_vars => StreamInv'
<1> SUFFICES ASSUME StreamInv, [Next]_vars PROVE StreamInv'
  OBVIOUS
<1>1. CASE UNCHANGED streaming
  BY <1>1 DEF streaming, StreamInv, Whole
<1>2. CASE RetryPaid
  <2>1. ASSUME NEW p, NEW memoRead, handleChatCompletion(p, memoRead)
        PROVE  forwardStreamRequest \/ UNCHANGED streaming
    BY <2>1 DEF handleChatCompletion, Admit
  <2>2. forwardStreamRequest \/ UNCHANGED streaming
    BY <1>2, <2>1 DEF RetryPaid
  <2> QED
    BY <1>1, <2>2, OpenStream
<1>3. CASE Receive
  <2>1. CASE Upstream
    BY <2>1, LineStream, CloseStream DEF Upstream
  <2>2. CASE Finish
    BY <2>2, ReceiptStream, RejectStream, EndingStream DEF Finish
  <2>3. CASE DrainOrClose
    BY <2>3, DrainStream
  <2> QED
    BY <1>3, <2>1, <2>2, <2>3 DEF Receive
<1> QED
  BY <1>1, <1>2, <1>3 DEF Next, vars

(* r is the last line, but for a sentinel.                                 *)
EndsAt(w, r) ==
    \/ r = Len(w)
    \/ r = Len(w) - 1 /\ w[Len(w)].kind = "done"

(* With the receipt at r as the last line but a sentinel, both readers     *)
(* take the lines before it as content and the line at r as the receipt.   *)
LEMMA ReadersAgree ==
    ASSUME NEW s, NEW w \in Seq(LineType), NEW r, Receipted(s, w, r), EndsAt(w, r),
           NEW read \in {sseGenerator(w), sse_generator(w)}
    PROVE  read.content = 1 .. r - 1 /\ read.receipt = {r}
<1>1. r \in DOMAIN w /\ r \in Nat /\ Len(w) \in Nat /\ DOMAIN w = 1 .. Len(w)
  BY DEF Receipted
<1>2. \A i \in 1 .. r - 1 : w[i].kind = "content" /\ w[i].newline
  BY DEF Receipted, Carries
<1>3. w[r].kind = "receipt" /\ w[r].newline
  BY DEF Receipted
<1>4. \A i \in DOMAIN w : i \in 1 .. r - 1 \/ i = r \/ (i > r /\ w[i].kind = "done")
  BY <1>1 DEF EndsAt
<1>5. BeforeDone(w) = 1 .. r
  <2>1. ASSUME NEW i \in 1 .. r PROVE i \in BeforeDone(w)
    <3>1. \A j \in 1 .. i : j \in 1 .. r - 1 \/ j = r
      BY <1>1
    <3>2. i \in DOMAIN w /\ \A j \in 1 .. i : w[j].kind # "done"
      BY <1>1, <1>2, <1>3, <3>1
    <3> QED
      BY <3>2 DEF BeforeDone
  <2>2. ASSUME NEW i \in BeforeDone(w) PROVE i \in 1 .. r
    <3>1. i \in DOMAIN w /\ i \in 1 .. i /\ w[i].kind # "done"
      BY <1>1 DEF BeforeDone
    <3> QED
      BY <1>1, <1>4, <3>1
  <2> QED
    BY <2>1, <2>2
<1>6. Of(w, "content") = 1 .. r - 1
  <2>1. \A i \in DOMAIN w : w[i].kind = "content" => i \in 1 .. r - 1
    BY <1>3, <1>4
  <2> QED
    BY <1>1, <1>2, <2>1 DEF Of
<1>7. Of(w, "receipt") = {r}
  <2>1. \A i \in DOMAIN w : w[i].kind = "receipt" => i = r
    BY <1>2, <1>4
  <2> QED
    BY <1>1, <1>3, <2>1 DEF Of
<1>8. (1 .. r - 1) \intersect (1 .. r) = 1 .. r - 1 /\ {r} \intersect (1 .. r) = {r}
  BY <1>1
<1>9. /\ Of(w, "content") \intersect BeforeDone(w) = 1 .. r - 1
      /\ Of(w, "receipt") \intersect BeforeDone(w) = {r}
  BY <1>5, <1>6, <1>7, <1>8
<1>10. CASE read = sseGenerator(w)
  BY <1>7, <1>9, <1>10 DEF sseGenerator
<1>11. CASE read = sse_generator(w)
  BY <1>9, <1>11 DEF sse_generator
<1> QED
  BY <1>10, <1>11

(* Without a receipt they take every line as content.                      *)
LEMMA ReadersAgreeBare ==
    ASSUME NEW s, NEW w \in Seq(LineType), Carries(s, w, Len(w)),
           NEW read \in {sseGenerator(w), sse_generator(w)}
    PROVE  read.content = 1 .. Len(w) /\ read.receipt = {}
<1>1. Len(w) \in Nat /\ DOMAIN w = 1 .. Len(w)
  OBVIOUS
<1>2. \A i \in DOMAIN w : w[i].kind = "content" /\ w[i].newline
  BY <1>1 DEF Carries
<1>3. BeforeDone(w) = DOMAIN w
  <2>1. ASSUME NEW i \in DOMAIN w PROVE \A j \in 1 .. i : w[j].kind # "done"
    <3>1. \A j \in 1 .. i : j \in DOMAIN w
      BY <1>1
    <3> QED
      BY <1>2, <3>1
  <2> QED
    BY <2>1 DEF BeforeDone
<1>4. Of(w, "content") = DOMAIN w /\ Of(w, "receipt") = {}
  BY <1>2 DEF Of
<1>5. CASE read = sseGenerator(w)
  BY <1>1, <1>3, <1>4, <1>5 DEF sseGenerator
<1>6. CASE read = sse_generator(w)
  BY <1>1, <1>3, <1>4, <1>6 DEF sse_generator
<1> QED
  BY <1>5, <1>6

(* What lines that carry the content say of it.                            *)
LEMMA CarriesAll ==
    ASSUME NEW s, NEW w, NEW k, Carries(s, w, k)
    PROVE  /\ {w[i].n : i \in 1 .. k} = {m \in DOMAIN s : s[m] = "content"}
           /\ \A i, j \in 1 .. k : i < j => w[i].n < w[j].n
<1>1. \A i \in 1 .. k : w[i].n \in DOMAIN s /\ s[w[i].n] = "content"
  BY DEF Carries
<1>2. \A m \in DOMAIN s : s[m] = "content" => \E i \in 1 .. k : w[i].n = m
  BY DEF Carries
<1>3. {w[i].n : i \in 1 .. k} = {m \in DOMAIN s : s[m] = "content"}
  BY ONLY <1>1, <1>2
<1> QED
  BY <1>3 DEF Carries

(* The only sentinel is the one after the receipt.                         *)
LEMMA SentinelLast ==
    ASSUME NEW s, NEW w \in Seq(LineType), NEW r, Receipted(s, w, r), EndsAt(w, r)
    PROVE  \A i : i \in DOMAIN w /\ w[i].kind = "done" <=> i = Len(w) /\ r # Len(w)
<1>1. /\ r \in DOMAIN w /\ DOMAIN w = 1 .. Len(w) /\ Len(w) \in Nat
      /\ r = Len(w) \/ (r = Len(w) - 1 /\ w[Len(w)].kind = "done")
  BY DEF Receipted, EndsAt
<1>2. \A i \in DOMAIN w : i \in 1 .. r - 1 \/ i = r \/ (i > r /\ i = Len(w))
  BY <1>1
<1>3. \A i \in 1 .. r - 1 : w[i].kind # "done"
  BY DEF Receipted, Carries
<1>4. w[r].kind # "done"
  BY DEF Receipted
<1>5. \A i \in DOMAIN w : w[i].kind = "done" => i = Len(w) /\ r # Len(w)
  BY <1>1, <1>2, <1>3, <1>4
<1>6. r # Len(w) => w[Len(w)].kind = "done" /\ Len(w) \in DOMAIN w
  BY <1>1
<1> QED
  BY ONLY <1>5, <1>6

(* Of a stream that the upstream ends by itself both SDKs give every line  *)
(* of content once and in order, and one receipt, and the sentinel comes   *)
(* last; where onDone failed they give the content, with the receipt or    *)
(* without it, and there is no sentinel (forwardStreamRequest with         *)
(* sseGenerator and _sse_generator).                                       *)
THEOREM StreamCompleteAlways == Spec => []StreamComplete
<1>1. Init => StreamInv
  <2> SUFFICES ASSUME Init PROVE StreamInv
    OBVIOUS
  <2>1. /\ sent = << >> /\ wire = << >> /\ upstreamDone = FALSE
        /\ stream = [pc |-> "none", close |-> "none", waits |-> FALSE]
    BY DEF Init, StreamInit
  <2>2. sent \in Seq({"content", "done"}) /\ wire \in Seq(LineType) /\ DOMAIN sent = {}
    BY <2>1
  <2>3. upstreamDone = \E k \in DOMAIN sent : sent[k] = "done"
    BY <2>1, <2>2
  <2>4. stream \in StreamType /\ stream.pc = "none"
    BY <2>1 DEF StreamType
  <2> QED
    BY <2>1, <2>2, <2>3, <2>4 DEF StreamInv
<1>2. StreamInv => StreamComplete
  <2> SUFFICES ASSUME StreamInv, stream.close = "whole", stream.pc \in {"ended", "abandoned"}
               PROVE  /\ \A read \in {sseGenerator(wire), sse_generator(wire)} :
                            /\ {wire[i].n : i \in read.content}
                                  = {k \in DOMAIN sent : sent[k] = "content"}
                            /\ \A i, j \in read.content : i < j => wire[i].n < wire[j].n
                            /\ \/ \E i \in DOMAIN wire : read.receipt = {i}
                               \/ stream.pc = "abandoned" /\ read.receipt = {}
                      /\ {i \in DOMAIN wire : wire[i].kind = "done"}
                            = {i \in {Len(wire)} : stream.pc = "ended"
                                                   /\ \E k \in DOMAIN sent : sent[k] = "done"}
    BY DEF StreamComplete
  <2> DEFINE passed == stream.pc = "ended" /\ upstreamDone
             r == IF passed THEN Len(wire) - 1 ELSE Len(wire)
  <2>1. wire \in Seq(LineType) /\ upstreamDone = \E k \in DOMAIN sent : sent[k] = "done"
    BY DEF StreamInv, Whole
  <2>2. /\ Receipted(sent, wire, r) \/ (stream.pc = "abandoned" /\ Carries(sent, wire, Len(wire)))
        /\ passed => wire[Len(wire)].kind = "done"
    BY DEF StreamInv, Whole
  <2>3. EndsAt(wire, r)
    BY <2>2 DEF EndsAt
  <2>4. r # Len(wire) <=> passed
    BY <2>1
  <2>5. passed <=> stream.pc = "ended" /\ \E k \in DOMAIN sent : sent[k] = "done"
    BY <2>1
  <2> HIDE DEF r, passed
  <2>6. CASE Receipted(sent, wire, r)
    <3>1. ASSUME NEW read \in {sseGenerator(wire), sse_generator(wire)}
          PROVE  read.content = 1 .. r - 1 /\ read.receipt = {r}
      BY ONLY <2>1, <2>3, <2>6, <3>1, ReadersAgree
    <3>2. Carries(sent, wire, r - 1) /\ r \in DOMAIN wire
      BY <2>6 DEF Receipted
    <3>3. /\ {wire[i].n : i \in 1 .. r - 1} = {k \in DOMAIN sent : sent[k] = "content"}
          /\ \A i, j \in 1 .. r - 1 : i < j => wire[i].n < wire[j].n
      BY ONLY <3>2, CarriesAll
    <3>4. \A i : i \in DOMAIN wire /\ wire[i].kind = "done" <=> i = Len(wire) /\ r # Len(wire)
      BY ONLY <2>1, <2>3, <2>6, SentinelLast
    <3> QED
      BY ONLY <2>4, <2>5, <3>1, <3>2, <3>3, <3>4
  <2>7. CASE stream.pc = "abandoned" /\ Carries(sent, wire, Len(wire))
    <3>1. ASSUME NEW read \in {sseGenerator(wire), sse_generator(wire)}
          PROVE  read.content = 1 .. Len(wire) /\ read.receipt = {}
      BY ONLY <2>1, <2>7, <3>1, ReadersAgreeBare
    <3>2. /\ {wire[i].n : i \in 1 .. Len(wire)} = {k \in DOMAIN sent : sent[k] = "content"}
          /\ \A i, j \in 1 .. Len(wire) : i < j => wire[i].n < wire[j].n
      BY ONLY <2>7, CarriesAll
    <3>3. \A i \in DOMAIN wire : wire[i].kind # "done"
      BY <2>1, <2>7 DEF Carries
    <3> QED
      BY ONLY <2>7, <3>1, <3>2, <3>3
  <2> QED
    BY <2>2, <2>6, <2>7
<1> QED
  BY <1>1, <1>2, NextStream, PTL DEF Spec

===============================================================================
