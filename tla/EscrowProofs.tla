----------------------------- MODULE EscrowProofs -----------------------------
(***************************************************************************)
(* The properties of the escrow contract and of the requests settled       *)
(* through it, for any set of accounts, quotes, amounts and routes.        *)
(***************************************************************************)
EXTENDS EscrowSettlement, TotalsTheorems

(* The escrow's address is an account, and no user's.                      *)
LEMMA Accounts ==
    /\ Contract \in Account /\ Contract \notin User /\ User \subseteq Account
    /\ Amount \subseteq Int
BY EscrowAssumption DEF User

(* A transfer moves n tokens, or none when it is to oneself.               *)
LEMMA TransferMoves ==
    ASSUME wallet \in [Account -> Nat],
           NEW from \in Account, NEW to \in Account, NEW n \in Nat,
           Transfer(from, to, n)
    PROVE  /\ wallet' \in [Account -> Nat]
           /\ from = to => wallet' = wallet
           /\ from # to => /\ wallet'[from] = wallet[from] - n
                           /\ wallet'[to] = wallet[to] + n
           /\ \A a \in Account : a \notin {from, to} => wallet'[a] = wallet[a]
<1> DEFINE paid == [wallet EXCEPT ![from] = @ - n]
<1>1. /\ paid \in [Account -> Nat]
      /\ paid[from] = wallet[from] - n
      /\ \A a \in Account : a # from => paid[a] = wallet[a]
  BY DEF Transfer
<1>2. /\ wallet' \in [Account -> Nat]
      /\ wallet'[to] = paid[to] + n
      /\ \A a \in Account : a # to => wallet'[a] = paid[a]
  BY DEF Transfer
<1> HIDE DEF paid
<1>3. ASSUME from = to PROVE wallet' = wallet
  <2>1. \A a \in Account : wallet'[a] = wallet[a]
    BY <1>1, <1>2, <1>3
  <2> QED
    BY <1>2, <2>1
<1> QED
  BY <1>1, <1>2, <1>3

(* The constructor leaves entries of the right type.                       *)
LEMMA InitTypeOK == Init => TypeOK
BY EscrowAssumption DEF Init, TypeOK, Config, User

(* Charges and refunds of any amount keep the types.                       *)
LEMMA ChargeTypeOK ==
    ASSUME TypeOK, NEW signer, NEW n \in Int, NEW payer \in User, NEW q \in Quote,
           Charge(signer, payer, n, q)
    PROVE  TypeOK'
<1> USE Accounts DEF TypeOK, Config, Accepts, AdminAccepts
<1>1. [amount |-> n, quote_id |-> q] \in UsageEvent
  BY DEF Charge, UsageEvent
<1>2. usage' \in [User -> Seq(UsageEvent)]
  BY <1>1 DEF Charge, LogUsage
<1>3. charged' \subseteq User \X Quote
  BY DEF Charge
<1>4. balance' \in [User -> Nat] /\ revenue' \in Nat
  BY DEF Charge
<1> QED
  BY <1>2, <1>3, <1>4 DEF Charge

LEMMA RefundTypeOK ==
    ASSUME TypeOK, NEW signer, NEW n \in Int, NEW payer \in User, NEW q \in Quote,
           Refund(signer, payer, n, q)
    PROVE  TypeOK'
<1> USE Accounts DEF TypeOK, Config, Accepts, AdminAccepts
<1>1. wallet' \in [Account -> Nat]
  BY TransferMoves DEF Refund
<1>2. balance' \in [User -> Nat]
  BY DEF Refund
<1>3. refunded' \subseteq User \X Quote
  BY DEF Refund
<1> QED
  BY <1>1, <1>2, <1>3 DEF Refund

(* Every operation keeps the types.                                        *)
LEMMA NextTypeOK == TypeOK /\ [Next]_vars => TypeOK'
<1> SUFFICES ASSUME TypeOK, [Next]_vars PROVE TypeOK'
  OBVIOUS
<1> USE Accounts DEF TypeOK, Config, Accepts, AdminAccepts
<1>1. ASSUME NEW signer \in User, NEW n \in Amount, Deposit(signer, n)
      PROVE  TypeOK'
  <2>1. wallet' \in [Account -> Nat]
    BY <1>1, TransferMoves DEF Deposit
  <2>2. balance' \in [User -> Nat]
    BY <1>1 DEF Deposit
  <2> QED
    BY <1>1, <2>1, <2>2 DEF Deposit
<1>2. ASSUME NEW signer \in User, NEW n \in Amount, Withdraw(signer, n)
      PROVE  TypeOK'
  <2>1. wallet' \in [Account -> Nat]
    BY <1>2, TransferMoves DEF Withdraw
  <2>2. balance' \in [User -> Nat]
    BY <1>2 DEF Withdraw
  <2> QED
    BY <1>2, <2>1, <2>2 DEF Withdraw
<1>3. ASSUME NEW signer \in User, NEW n \in Amount, NEW payer \in User, NEW q \in Quote,
             Charge(signer, payer, n, q) \/ Refund(signer, payer, n, q)
      PROVE  TypeOK'
  BY <1>3, ChargeTypeOK, RefundTypeOK
<1>4. ASSUME NEW signer \in User, NEW n \in Amount,
             NEW destination \in Account, WithdrawRevenue(signer, destination, n)
      PROVE  TypeOK'
  <2>1. wallet' \in [Account -> Nat]
    BY <1>4, TransferMoves DEF WithdrawRevenue
  <2> QED
    BY <1>4, <2>1 DEF WithdrawRevenue
<1>5. ASSUME NEW signer \in User, NEW new_admin \in Account,
             SetAdmin(signer, new_admin)
      PROVE  TypeOK'
  BY <1>5 DEF SetAdmin
<1>6. ASSUME NEW signer \in User, NEW paused \in BOOLEAN,
             SetPaused(signer, paused)
      PROVE  TypeOK'
  BY <1>6 DEF SetPaused
<1>7. CASE UNCHANGED vars
  BY <1>7 DEF vars
<1> QED
  BY <1>1, <1>2, <1>3, <1>4, <1>5, <1>6, <1>7 DEF Next

(* The contract's entries and the token ledger always have their types; in *)
(* particular no balance, revenue or wallet goes below zero.               *)
THEOREM TypeCorrect == Spec => []TypeOK
BY InitTypeOK, NextTypeOK, PTL DEF Spec

-------------------------------------------------------------------------------

(* Solvent alone is not preserved as stated: the sum of balances must be a *)
(* number for a step to change it by the amount moved.                     *)
SolventInv == IsFiniteSet(Units(balance)) /\ Solvent

(* A deposit adds its amount to the sum of balances.                       *)
LEMMA BalanceCredited ==
    ASSUME NEW payer \in User, NEW n \in Nat,
           balance \in [User -> Nat], balance' \in [User -> Nat],
           IsFiniteSet(Units(balance)),
           balance'[payer] = balance[payer] + n,
           \A u \in User : u # payer => balance'[u] = balance[u]
    PROVE  IsFiniteSet(Units(balance')) /\ Total(balance') = Total(balance) + n
BY TotalDeposit

(* A withdrawal, a charge and a refund take theirs from it.                *)
LEMMA BalanceDebited ==
    ASSUME NEW payer \in User, NEW n \in Nat,
           balance \in [User -> Nat], balance' \in [User -> Nat],
           IsFiniteSet(Units(balance)),
           n <= balance[payer],
           balance'[payer] = balance[payer] - n,
           \A u \in User : u # payer => balance'[u] = balance[u]
    PROVE  IsFiniteSet(Units(balance')) /\ Total(balance') = Total(balance) - n
BY TotalWithdraw

(* Every operation takes from the tokens held no more than it takes from   *)
(* what is owed.                                                           *)
LEMMA NextSolvent == TypeOK /\ SolventInv /\ [Next]_vars => SolventInv'
<1> SUFFICES ASSUME TypeOK, SolventInv, [Next]_vars PROVE SolventInv'
  OBVIOUS
<1> USE Accounts DEF TypeOK, Accepts, AdminAccepts
<1>1. Total(balance) \in Nat
  BY TotalNat DEF SolventInv
<1>2. ASSUME NEW signer \in User, NEW n \in Amount, Deposit(signer, n)
      PROVE  SolventInv'
  <2>1. /\ n \in Nat
        /\ balance' \in [User -> Nat]
        /\ balance'[signer] = balance[signer] + n
        /\ \A u \in User : u # signer => balance'[u] = balance[u]
    BY <1>2 DEF Deposit
  <2>2. IsFiniteSet(Units(balance')) /\ Total(balance') = Total(balance) + n
    BY <2>1, BalanceCredited DEF SolventInv
  <2>3. wallet'[Contract] = wallet[Contract] + n
    BY <1>2, <2>1, TransferMoves DEF Deposit
  <2> QED
    BY <1>1, <1>2, <2>1, <2>2, <2>3 DEF Deposit, SolventInv, Solvent
<1>3. ASSUME NEW payer \in User, NEW n \in Amount, n > 0, n <= balance[payer],
             balance' = [balance EXCEPT ![payer] = @ - n]
      PROVE  IsFiniteSet(Units(balance')) /\ Total(balance') = Total(balance) - n
  <2>1. /\ n \in Nat /\ n <= balance[payer]
        /\ balance' \in [User -> Nat]
        /\ balance'[payer] = balance[payer] - n
        /\ \A u \in User : u # payer => balance'[u] = balance[u]
    BY <1>3
  <2> QED
    BY <2>1, BalanceDebited DEF SolventInv
<1>4. ASSUME NEW to \in Account, NEW n \in Amount, n > 0, Transfer(Contract, to, n)
      PROVE  wallet'[Contract] \in Nat /\ wallet'[Contract] >= wallet[Contract] - n
  BY <1>4, TransferMoves
<1>5. ASSUME NEW signer \in User, NEW n \in Amount, Withdraw(signer, n)
      PROVE  SolventInv'
  <2>1. IsFiniteSet(Units(balance')) /\ Total(balance') = Total(balance) - n
    BY <1>3, <1>5 DEF Withdraw
  <2>2. wallet'[Contract] = wallet[Contract] - n
    BY <1>5, TransferMoves DEF Withdraw
  <2> QED
    BY <1>1, <1>5, <2>1, <2>2 DEF Withdraw, SolventInv, Solvent
<1>6. ASSUME NEW signer \in User, NEW n \in Amount,
             NEW payer \in User, NEW q \in Quote, Charge(signer, payer, n, q)
      PROVE  SolventInv'
  <2>1. IsFiniteSet(Units(balance')) /\ Total(balance') = Total(balance) - n
    BY <1>3, <1>6 DEF Charge
  <2> QED
    BY <1>1, <1>6, <2>1 DEF Charge, SolventInv, Solvent
<1>7. ASSUME NEW signer \in User, NEW n \in Amount,
             NEW payer \in User, NEW q \in Quote, Refund(signer, payer, n, q)
      PROVE  SolventInv'
  <2>1. IsFiniteSet(Units(balance')) /\ Total(balance') = Total(balance) - n
    BY <1>3, <1>7 DEF Refund
  <2>2. wallet'[Contract] = wallet[Contract] - n
    BY <1>7, TransferMoves DEF Refund
  <2> QED
    BY <1>1, <1>7, <2>1, <2>2 DEF Refund, SolventInv, Solvent
<1>8. ASSUME NEW signer \in User, NEW n \in Amount,
             NEW destination \in Account, WithdrawRevenue(signer, destination, n)
      PROVE  SolventInv'
  <2>1. wallet'[Contract] \in Nat /\ wallet'[Contract] >= wallet[Contract] - n
    BY <1>4, <1>8 DEF WithdrawRevenue
  <2> QED
    BY <1>1, <1>8, <2>1 DEF WithdrawRevenue, SolventInv, Solvent
<1>9. ASSUME UNCHANGED <<balance, revenue, wallet>> PROVE SolventInv'
  BY <1>9 DEF SolventInv, Solvent
<1> QED
  BY <1>2, <1>5, <1>6, <1>7, <1>8, <1>9 DEF Next, SetAdmin, SetPaused, vars

(* The escrow can always pay every user's balance and the revenue.         *)
THEOREM SolventAlways == Spec => []Solvent
<1>1. Init => SolventInv
  <2> SUFFICES ASSUME Init PROVE SolventInv
    OBVIOUS
  <2>1. IsFiniteSet(Units(balance)) /\ Total(balance) = 0
    BY TotalZero DEF Init
  <2> QED
    BY <2>1, EscrowAssumption DEF Init, SolventInv, Solvent
<1>2. SolventInv => Solvent
  BY DEF SolventInv
<1> QED
  BY <1>1, <1>2, NextSolvent, TypeCorrect, PTL DEF Spec

-------------------------------------------------------------------------------
(* The usage history.                                                      *)

Amounts(h) == [i \in DOMAIN h |-> h[i].amount]

(* One more event adds its amount to what a history sums to.               *)
LEMMA EventAdds ==
    ASSUME NEW h \in Seq(UsageEvent), NEW e \in UsageEvent, IsFiniteSet(Units(Amounts(h)))
    PROVE  /\ IsFiniteSet(Units(Amounts(Append(h, e))))
           /\ Total(Amounts(Append(h, e))) = Total(Amounts(h)) + e.amount
<1> DEFINE k == Len(h)
           f == Amounts(h)
           g == Amounts(Append(h, e))
<1>1. /\ k \in Nat /\ DOMAIN h = 1 .. k /\ DOMAIN Append(h, e) = 1 .. k + 1
      /\ \A i \in 1 .. k : h[i] \in UsageEvent /\ Append(h, e)[i] = h[i]
      /\ Append(h, e)[k + 1] = e
  OBVIOUS
<1>2. e.amount \in Nat /\ \A i \in 1 .. k : h[i].amount \in Nat
  BY <1>1 DEF UsageEvent
<1>3. f \in [1 .. k -> Nat] /\ \A i \in 1 .. k : f[i] = h[i].amount
  BY <1>1, <1>2 DEF Amounts
<1>4. g = [i \in 1 .. k + 1 |-> Append(h, e)[i].amount]
  BY <1>1 DEF Amounts
<1>5. \A i \in 1 .. k + 1 : Append(h, e)[i].amount \in Nat
  <2> SUFFICES ASSUME NEW i \in 1 .. k + 1 PROVE Append(h, e)[i] \in UsageEvent
    BY DEF UsageEvent
  <2>1. i \in 1 .. k \/ i = k + 1
    BY <1>1
  <2> QED
    BY <1>1, <2>1
<1>6. g \in [1 .. k + 1 -> Nat]
  BY <1>4, <1>5
<1>7. g[k + 1] = e.amount
  BY <1>1, <1>4
<1>8. \A i \in 1 .. k : g[i] = f[i]
  BY <1>1, <1>3, <1>4
<1> HIDE DEF f, g
<1>9. IsFiniteSet(Units(f))
  BY DEF f
<1>10. IsFiniteSet(Units(g)) /\ Total(g) = Total(f) + e.amount
  BY <1>1, <1>2, <1>3, <1>6, <1>7, <1>8, <1>9, TotalAppend
<1> QED
  BY <1>10 DEF f, g

(* The history of a user is a finite ledger of amounts.                    *)
HistoryInv == \A u \in User : IsFiniteSet(Units(ChargesTo(u)))

LEMMA SpentNat == ASSUME HistoryInv, NEW u \in User PROVE Spent(u) \in Nat
BY TotalNat DEF HistoryInv, Spent

(* A charge adds one event, of its amount, to the history of its user.     *)
LEMMA ChargeSpends ==
    ASSUME TypeOK, HistoryInv, NEW signer \in User, NEW n \in Amount,
           NEW payer \in User, NEW q \in Quote, Charge(signer, payer, n, q)
    PROVE  /\ HistoryInv'
           /\ Spent(payer)' = Spent(payer) + n
           /\ \A u \in User : u # payer => usage'[u] = usage[u] /\ Spent(u)' = Spent(u)
           /\ usage'[payer] = Append(usage[payer], [amount |-> n, quote_id |-> q])
<1> DEFINE e == [amount |-> n, quote_id |-> q]
<1>1. e \in UsageEvent /\ e.amount = n
  BY Accounts DEF Charge, AdminAccepts, Accepts, UsageEvent
<1>2. usage \in [User -> Seq(UsageEvent)] /\ usage' = [usage EXCEPT ![payer] = Append(@, e)]
  BY DEF TypeOK, Charge, LogUsage
<1>3. /\ usage'[payer] = Append(usage[payer], e)
      /\ \A u \in User : u # payer => usage'[u] = usage[u]
  BY <1>2
<1>4. /\ ChargesTo(payer) = Amounts(usage[payer])
      /\ ChargesTo(payer)' = Amounts(Append(usage[payer], e))
  BY <1>3 DEF ChargesTo, Amounts
<1>5. /\ IsFiniteSet(Units(ChargesTo(payer)'))
      /\ Spent(payer)' = Spent(payer) + n
  <2> HIDE DEF e
  <2>1. usage[payer] \in Seq(UsageEvent)
    BY <1>2
  <2>2. IsFiniteSet(Units(Amounts(usage[payer])))
    BY <1>4 DEF HistoryInv
  <2> QED
    BY <1>1, <1>4, <2>1, <2>2, EventAdds DEF Spent
<1>6. ASSUME NEW u \in User, u # payer PROVE ChargesTo(u)' = ChargesTo(u)
  BY <1>3, <1>6 DEF ChargesTo
<1>7. HistoryInv'
  BY <1>5, <1>6 DEF HistoryInv
<1>8. \A u \in User : u # payer => Spent(u)' = Spent(u)
  BY <1>6 DEF Spent
<1> QED
  BY <1>3, <1>5, <1>7, <1>8

(* Nothing but a charge touches the history.                               *)
LEMMA OnlyChargesLog ==
    ASSUME TypeOK, [Next]_vars
    PROVE  \/ /\ UNCHANGED <<usage, charged>>
              /\ \/ UNCHANGED <<revenue, cashed>>
                 \/ \E n \in Int : revenue' = revenue - n /\ cashed' = cashed + n
           \/ \E signer \in User, n \in Amount, payer \in User, q \in Quote :
                 Charge(signer, payer, n, q)
<1>1. ASSUME NEW signer \in User, NEW n \in Amount, NEW destination \in Account,
             WithdrawRevenue(signer, destination, n)
      PROVE  /\ UNCHANGED <<usage, charged>> /\ n \in Int
             /\ revenue' = revenue - n /\ cashed' = cashed + n
  BY <1>1, Accounts DEF WithdrawRevenue
<1>2. ASSUME NEW signer \in User, NEW n \in Amount, Deposit(signer, n) \/ Withdraw(signer, n)
      PROVE  UNCHANGED <<usage, charged, revenue, cashed>>
  BY <1>2 DEF Deposit, Withdraw
<1>3. ASSUME NEW signer \in User, NEW n \in Amount, NEW payer \in User, NEW q \in Quote,
             Refund(signer, payer, n, q)
      PROVE  UNCHANGED <<usage, charged, revenue, cashed>>
  BY <1>3 DEF Refund
<1>4. ASSUME NEW signer \in User,
             \/ \E new_admin \in Account : SetAdmin(signer, new_admin)
             \/ \E paused \in BOOLEAN : SetPaused(signer, paused)
      PROVE  UNCHANGED <<usage, charged, revenue, cashed>>
  BY <1>4 DEF SetAdmin, SetPaused
<1>5. CASE UNCHANGED vars
  BY <1>5 DEF vars
<1> QED
  BY <1>1, <1>2, <1>3, <1>4, <1>5 DEF Next

LEMMA HistoryUnchanged ==
    ASSUME UNCHANGED usage
    PROVE  /\ HistoryInv' <=> HistoryInv
           /\ SpentBy' = SpentBy
           /\ \A u \in User : Spent(u)' = Spent(u)
BY DEF HistoryInv, SpentBy, Spent, ChargesTo

-------------------------------------------------------------------------------
(* Revenue.                                                                *)

RevenueInv == HistoryInv /\ IsFiniteSet(Units(SpentBy)) /\ RevenueIsUsage

LEMMA NextRevenue == TypeOK /\ RevenueInv /\ [Next]_vars => RevenueInv'
<1> SUFFICES ASSUME TypeOK, RevenueInv, [Next]_vars PROVE RevenueInv'
  OBVIOUS
<1>0. revenue \in Int /\ cashed \in Int /\ HistoryInv /\ IsFiniteSet(Units(SpentBy))
  BY DEF TypeOK, RevenueInv
<1>1. CASE /\ UNCHANGED <<usage, charged>>
           /\ \/ UNCHANGED <<revenue, cashed>>
              \/ \E n \in Int : revenue' = revenue - n /\ cashed' = cashed + n
  <2>1. revenue' + cashed' = revenue + cashed
    BY <1>0, <1>1
  <2> QED
    BY <1>1, <2>1, HistoryUnchanged DEF RevenueInv, RevenueIsUsage, Earned
<1>2. ASSUME NEW signer \in User, NEW n \in Amount, NEW payer \in User, NEW q \in Quote,
             Charge(signer, payer, n, q)
      PROVE  RevenueInv'
  <2>1. n \in Nat /\ revenue' = revenue + n /\ cashed' = cashed
    BY <1>2, Accounts DEF Charge, AdminAccepts, Accepts
  <2>2. /\ HistoryInv' /\ Spent(payer)' = Spent(payer) + n
        /\ \A u \in User : u # payer => Spent(u)' = Spent(u)
    BY <1>0, <1>2, ChargeSpends
  <2>3. \A u \in User : Spent(u) \in Nat
    BY <1>0, SpentNat
  <2>4. \A u \in User : Spent(u)' \in Nat
    BY <2>1, <2>2, <2>3
  <2>5. /\ SpentBy \in [User -> Nat] /\ SpentBy' \in [User -> Nat]
        /\ SpentBy'[payer] = SpentBy[payer] + n
        /\ \A u \in User : u # payer => SpentBy'[u] = SpentBy[u]
    BY <2>2, <2>3, <2>4 DEF SpentBy
  <2>6. IsFiniteSet(Units(SpentBy')) /\ Total(SpentBy') = Total(SpentBy) + n
    BY <1>0, <2>1, <2>5, TotalDeposit
  <2>7. Total(SpentBy) \in Nat
    BY <1>0, TotalNat
  <2> QED
    BY <1>0, <2>1, <2>2, <2>6, <2>7 DEF RevenueInv, RevenueIsUsage, Earned
<1> QED
  BY <1>1, <1>2, OnlyChargesLog

LEMMA InitRevenue == Init => RevenueInv
<1> SUFFICES ASSUME Init PROVE RevenueInv
  OBVIOUS
<1>1. ASSUME NEW u \in User PROVE IsFiniteSet(Units(ChargesTo(u))) /\ Spent(u) = 0
  <2>1. ChargesTo(u) \in [{} -> Nat]
    BY DEF Init, ChargesTo
  <2> QED
    BY <2>1, TotalZero DEF Spent
<1>2. IsFiniteSet(Units(SpentBy)) /\ Total(SpentBy) = 0
  <2>1. SpentBy \in [User -> Nat] /\ \A u \in User : SpentBy[u] = 0
    BY <1>1 DEF SpentBy
  <2> QED
    BY <2>1, TotalZero
<1> QED
  BY <1>1, <1>2 DEF Init, RevenueInv, RevenueIsUsage, HistoryInv, Earned

(* The revenue counter and all that was ever withdrawn from it are what    *)
(* the usage events of all users sum to.                                   *)
THEOREM RevenueIsUsageAlways == Spec => []RevenueIsUsage
<1>1. RevenueInv => RevenueIsUsage
  BY DEF RevenueInv
<1> QED
  BY <1>1, InitRevenue, NextRevenue, TypeCorrect, PTL DEF Spec

(* Every user's history is a finite ledger.                                *)
LEMMA HistoryAlways == Spec => []HistoryInv
<1>1. RevenueInv => HistoryInv
  BY DEF RevenueInv
<1> QED
  BY <1>1, InitRevenue, NextRevenue, TypeCorrect, PTL DEF Spec

-------------------------------------------------------------------------------
(* The idempotency keys.                                                   *)

QuotesOf(h) == {h[i].quote_id : i \in DOMAIN h}

Distinct(h) == \A i, j \in DOMAIN h : h[i].quote_id = h[j].quote_id => i = j

(* One more event of a quote not in the history keeps the quotes distinct. *)
LEMMA EventJoins ==
    ASSUME NEW h \in Seq(UsageEvent), NEW e \in UsageEvent,
           Distinct(h), e.quote_id \notin QuotesOf(h)
    PROVE  /\ QuotesOf(Append(h, e)) = QuotesOf(h) \union {e.quote_id}
           /\ Distinct(Append(h, e))
<1> DEFINE k == Len(h)
           g == Append(h, e)
<1>1. k \in Nat /\ DOMAIN h = 1 .. k /\ DOMAIN g = 1 .. k + 1
  OBVIOUS
<1>2. g[k + 1] = e /\ \A i \in 1 .. k : g[i] = h[i]
  OBVIOUS
<1> HIDE DEF k, g
<1>3. \A i \in 1 .. k + 1 : i \in 1 .. k \/ i = k + 1
  BY <1>1
<1>4. \A i \in 1 .. k : h[i].quote_id # e.quote_id
  BY <1>1 DEF QuotesOf
<1>5. Distinct(g)
  <2> SUFFICES ASSUME NEW i \in 1 .. k + 1, NEW j \in 1 .. k + 1,
                      g[i].quote_id = g[j].quote_id
               PROVE  i = j
    BY <1>1 DEF Distinct
  <2>1. CASE i \in 1 .. k /\ j \in 1 .. k
    BY <1>1, <1>2, <2>1 DEF Distinct
  <2>2. CASE i = k + 1 \/ j = k + 1
    BY <1>2, <1>3, <1>4, <2>2
  <2> QED
    BY <1>3, <2>1, <2>2
<1>6. QuotesOf(g) = QuotesOf(h) \union {e.quote_id}
  <2>1. ASSUME NEW q \in QuotesOf(g) PROVE q \in QuotesOf(h) \union {e.quote_id}
    <3>1. PICK i \in 1 .. k + 1 : q = g[i].quote_id
      BY <1>1 DEF QuotesOf
    <3> QED
      BY <1>1, <1>2, <1>3, <3>1 DEF QuotesOf
  <2>2. ASSUME NEW q \in QuotesOf(h) \union {e.quote_id} PROVE q \in QuotesOf(g)
    <3>1. k + 1 \in 1 .. k + 1 /\ \A i \in 1 .. k : i \in 1 .. k + 1
      BY <1>1
    <3>2. CASE q = e.quote_id
      BY <1>1, <1>2, <3>1, <3>2 DEF QuotesOf
    <3>3. CASE q \in QuotesOf(h)
      <4>1. PICK i \in 1 .. k : q = h[i].quote_id
        BY <1>1, <3>3 DEF QuotesOf
      <4> QED
        BY <1>1, <1>2, <3>1, <4>1 DEF QuotesOf
    <3> QED
      BY <3>2, <3>3
  <2> QED
    BY <2>1, <2>2
<1> QED
  BY <1>5, <1>6 DEF g

(* UsageIsCharged, of the quotes of a history.                             *)
Agree(h, u) == QuotesOf(h) = {q \in Quote : <<u, q>> \in charged} /\ Distinct(h)

LEMMA UsageAgrees == UsageIsCharged <=> \A u \in User : Agree(usage[u], u)
BY DEF UsageIsCharged, Agree, QuotesOf, Distinct

LEMMA NextUsage == TypeOK /\ UsageIsCharged /\ [Next]_vars => UsageIsCharged'
<1> SUFFICES ASSUME TypeOK, UsageIsCharged, [Next]_vars PROVE UsageIsCharged'
  OBVIOUS
<1>1. CASE UNCHANGED <<usage, charged>>
  BY <1>1 DEF UsageIsCharged
<1>2. ASSUME NEW signer \in User, NEW n \in Amount, NEW payer \in User, NEW q \in Quote,
             Charge(signer, payer, n, q)
      PROVE  UsageIsCharged'
  <2> DEFINE e == [amount |-> n, quote_id |-> q]
  <2>1. e \in UsageEvent /\ e.quote_id = q
    BY <1>2, Accounts DEF Charge, AdminAccepts, Accepts, UsageEvent
  <2>2. /\ usage \in [User -> Seq(UsageEvent)]
        /\ usage' = [usage EXCEPT ![payer] = Append(@, e)]
        /\ <<payer, q>> \notin charged /\ charged' = charged \union {<<payer, q>>}
    BY <1>2 DEF TypeOK, Charge, LogUsage
  <2> HIDE DEF e
  <2>3. \A u \in User : Agree(usage[u], u)
    BY UsageAgrees
  <2>4. ASSUME NEW u \in User, u # payer PROVE Agree(usage[u], u)'
    <3>1. usage'[u] = usage[u]
      BY <2>2, <2>4
    <3>2. {r \in Quote : <<u, r>> \in charged'} = {r \in Quote : <<u, r>> \in charged}
      BY <2>2, <2>4
    <3> QED
      BY <2>3, <3>1, <3>2 DEF Agree, QuotesOf, Distinct
  <2>5. Agree(usage[payer], payer)'
    <3>1. usage'[payer] = Append(usage[payer], e) /\ usage[payer] \in Seq(UsageEvent)
      BY <2>2
    <3>2. q \notin QuotesOf(usage[payer])
      BY <2>2, <2>3 DEF Agree
    <3>3. /\ QuotesOf(Append(usage[payer], e)) = QuotesOf(usage[payer]) \union {q}
          /\ Distinct(Append(usage[payer], e))
      BY <2>1, <2>3, <3>1, <3>2, EventJoins DEF Agree
    <3>4. {r \in Quote : <<payer, r>> \in charged'}
             = {r \in Quote : <<payer, r>> \in charged} \union {q}
      BY <2>2
    <3>5. /\ QuotesOf(usage'[payer]) = {r \in Quote : <<payer, r>> \in charged'}
          /\ Distinct(usage'[payer])
      BY <2>3, <3>1, <3>3, <3>4 DEF Agree
    <3> QED
      BY <3>5 DEF Agree, QuotesOf, Distinct
  <2>6. UsageIsCharged' <=> \A u \in User : Agree(usage[u], u)'
    BY DEF UsageIsCharged, Agree, QuotesOf, Distinct
  <2> QED
    BY <2>4, <2>5, <2>6
<1> QED
  BY <1>1, <1>2, OnlyChargesLog

(* A user's usage events are one for each of the user's charged quotes.    *)
THEOREM UsageIsChargedAlways == Spec => []UsageIsCharged
<1>1. Init => UsageIsCharged
  BY DEF Init, UsageIsCharged
<1> QED
  BY <1>1, NextUsage, TypeCorrect, PTL DEF Spec

-------------------------------------------------------------------------------
(* What users lose.                                                        *)

(* What a user has, prepaid or not.                                        *)
Wealth(u) == wallet[u] + balance[u]

(* Nothing but a charge makes anyone's wealth less.                        *)
LEMMA WealthKept ==
    ASSUME TypeOK, [Next]_vars, NEW u \in User
    PROVE  \/ UNCHANGED usage /\ Wealth(u)' >= Wealth(u)
           \/ \E signer \in User, n \in Amount, payer \in User, q \in Quote :
                 Charge(signer, payer, n, q)
<1> USE Accounts DEF Accepts, AdminAccepts
<1>0. /\ wallet \in [Account -> Nat] /\ balance \in [User -> Nat]
      /\ u \in Account /\ u # Contract
  BY DEF TypeOK
<1>1. ASSUME NEW signer \in User, NEW n \in Amount, Deposit(signer, n)
      PROVE  Wealth(u)' = Wealth(u)
  <2>1. /\ n \in Nat /\ balance'[signer] = balance[signer] + n
        /\ \A v \in User : v # signer => balance'[v] = balance[v]
    BY <1>0, <1>1 DEF Deposit
  <2>2. /\ wallet'[signer] = wallet[signer] - n
        /\ \A v \in User : v # signer => wallet'[v] = wallet[v]
    BY <1>0, <1>1, <2>1, TransferMoves DEF Deposit
  <2> QED
    BY <1>0, <2>1, <2>2 DEF Wealth
<1>2. ASSUME NEW payer \in User, NEW n \in Amount, n > 0, Transfer(Contract, payer, n),
             balance' = [balance EXCEPT ![payer] = @ - n]
      PROVE  Wealth(u)' = Wealth(u)
  <2>1. /\ n \in Nat /\ balance'[payer] = balance[payer] - n
        /\ \A v \in User : v # payer => balance'[v] = balance[v]
    BY <1>0, <1>2
  <2>2. /\ wallet'[payer] = wallet[payer] + n
        /\ \A v \in User : v # payer => wallet'[v] = wallet[v]
    BY <1>0, <1>2, <2>1, TransferMoves
  <2> QED
    BY <1>0, <2>1, <2>2 DEF Wealth
<1>3. ASSUME NEW signer \in User, NEW n \in Amount, NEW destination \in Account,
             WithdrawRevenue(signer, destination, n)
      PROVE  Wealth(u)' >= Wealth(u)
  <2>1. n \in Nat /\ Transfer(Contract, destination, n) /\ balance' = balance
    BY <1>3 DEF WithdrawRevenue
  <2>2. wallet'[u] = wallet[u] \/ wallet'[u] = wallet[u] + n
    BY <1>0, <2>1, TransferMoves
  <2> QED
    BY <1>0, <2>1, <2>2 DEF Wealth
<1>4. ASSUME UNCHANGED <<wallet, balance>> PROVE Wealth(u)' = Wealth(u)
  BY <1>4 DEF Wealth
<1>5. Wealth(u) \in Int
  BY <1>0 DEF Wealth
<1>6. ASSUME NEW signer \in User, NEW n \in Amount, Withdraw(signer, n)
      PROVE  Wealth(u)' = Wealth(u)
  BY <1>2, <1>6 DEF Withdraw
<1>7. ASSUME NEW signer \in User, NEW n \in Amount, NEW payer \in User, NEW q \in Quote,
             Refund(signer, payer, n, q)
      PROVE  Wealth(u)' = Wealth(u)
  BY <1>2, <1>7 DEF Refund
<1>8. [Next]_vars => \/ UNCHANGED usage
                     \/ \E signer \in User, n \in Amount, payer \in User, q \in Quote :
                           Charge(signer, payer, n, q)
  BY OnlyChargesLog
<1>9. Wealth(u)' >= Wealth(u) \/ \E signer \in User, n \in Amount, payer \in User, q \in Quote :
                           Charge(signer, payer, n, q)
  BY <1>1, <1>3, <1>4, <1>5, <1>6, <1>7 DEF Next, SetAdmin, SetPaused, vars
<1> QED
  BY <1>8, <1>9

LEMMA NextUsersPay ==
    TypeOK /\ HistoryInv /\ UsersPayOnlyUsage /\ [Next]_vars => UsersPayOnlyUsage'
<1> SUFFICES ASSUME TypeOK, HistoryInv, UsersPayOnlyUsage, [Next]_vars, NEW u \in User
             PROVE  Wealth(u)' + Spent(u)' >= InitialWallet[u]
  BY DEF UsersPayOnlyUsage, Wealth
<1>1. /\ Wealth(u) \in Int /\ Spent(u) \in Int /\ InitialWallet[u] \in Int
      /\ Wealth(u) + Spent(u) >= InitialWallet[u]
  <2>1. wallet[u] \in Nat /\ balance[u] \in Nat /\ InitialWallet[u] \in Nat
    BY Accounts, EscrowAssumption DEF TypeOK
  <2>2. Spent(u) \in Nat
    BY SpentNat
  <2> QED
    BY <2>1, <2>2 DEF UsersPayOnlyUsage, Wealth
<1>2. ASSUME UNCHANGED usage, Wealth(u)' >= Wealth(u)
      PROVE  Wealth(u)' + Spent(u)' >= InitialWallet[u]
  <2>1. Spent(u)' = Spent(u)
    BY <1>2, HistoryUnchanged
  <2>2. Wealth(u)' \in Int
    <3>1. TypeOK'
      BY NextTypeOK
    <3> QED
      BY <3>1, Accounts DEF TypeOK, Wealth
  <2> QED
    BY <1>1, <1>2, <2>1, <2>2
<1>3. ASSUME NEW signer \in User, NEW n \in Amount, NEW payer \in User, NEW q \in Quote,
             Charge(signer, payer, n, q)
      PROVE  Wealth(u)' + Spent(u)' >= InitialWallet[u]
  <2>1. /\ n \in Int /\ wallet' = wallet
        /\ balance \in [User -> Nat] /\ balance' = [balance EXCEPT ![payer] = @ - n]
    BY <1>3, Accounts DEF Charge, TypeOK
  <2>2. CASE u = payer
    <3>1. Spent(u)' = Spent(u) + n
      BY <1>3, <2>2, ChargeSpends
    <3>2. Wealth(u)' = Wealth(u) - n
      BY <2>1, <2>2, Accounts DEF TypeOK, Wealth
    <3> QED
      BY <1>1, <2>1, <3>1, <3>2
  <2>3. CASE u # payer
    <3>1. Spent(u)' = Spent(u)
      BY <1>3, <2>3, ChargeSpends
    <3>2. Wealth(u)' = Wealth(u)
      BY <2>1, <2>3 DEF Wealth
    <3> QED
      BY <1>1, <3>1, <3>2
  <2> QED
    BY <2>2, <2>3
<1> QED
  BY <1>2, <1>3, WealthKept

(* What a user had when the contract was deployed and has no more, in the  *)
(* wallet or prepaid, is in the user's usage events.                       *)
THEOREM UsersPayOnlyUsageAlways == Spec => []UsersPayOnlyUsage
<1>1. Init => UsersPayOnlyUsage
  <2> SUFFICES ASSUME Init, NEW u \in User
               PROVE  wallet[u] + balance[u] + Spent(u) >= InitialWallet[u]
    BY DEF UsersPayOnlyUsage
  <2>1. HistoryInv
    BY InitRevenue DEF RevenueInv
  <2>2. Spent(u) \in Nat
    BY <2>1, SpentNat
  <2>3. wallet[u] = InitialWallet[u] /\ balance[u] = 0 /\ InitialWallet[u] \in Nat
    BY Accounts, EscrowAssumption DEF Init
  <2> QED
    BY <2>2, <2>3
<1> QED
  BY <1>1, NextUsersPay, HistoryAlways, TypeCorrect, PTL DEF Spec

-------------------------------------------------------------------------------
(* The escrow keeps the promise of PrepaidCredit.                          *)

LEMMA InitPromised == Init => Abstract!Init
BY Accounts DEF Init, Abstract!Init, claims, User

(* The claims of the users and of the contract.                            *)
LEMMA ClaimsOf ==
    /\ claims = [a \in Account |-> IF a = Contract THEN revenue ELSE balance[a]]
    /\ claims[Contract] = revenue
    /\ \A u \in User : claims[u] = balance[u]
BY Accounts DEF claims, User

(* A user's claim that changes alone.                                      *)
LEMMA ClaimMoves ==
    ASSUME TypeOK, NEW payer \in User, NEW m \in Int, UNCHANGED revenue,
           balance' = [balance EXCEPT ![payer] = m]
    PROVE  claims' = [claims EXCEPT ![payer] = m]
<1>1. \A a \in Account : a # Contract => a \in User
  BY DEF User
<1> QED
  BY <1>1, Accounts DEF TypeOK, claims

(* Each step is one of the promise's, or none.                             *)
LEMMA NextPromised == TypeOK /\ [Next]_vars => [Abstract!Next]_(Abstract!vars)
<1> SUFFICES ASSUME TypeOK, [Next]_vars PROVE [Abstract!Next]_(Abstract!vars)
  OBVIOUS
<1> USE Accounts DEF Accepts, AdminAccepts
<1>0. balance \in [User -> Nat] /\ revenue \in Nat
  BY DEF TypeOK
<1>1. ASSUME NEW signer \in User, NEW n \in Amount, Deposit(signer, n)
      PROVE  n > 0 /\ Abstract!Fund(signer, n)
  <2> DEFINE m == balance[signer] + n
  <2>1. /\ m \in Int /\ revenue' = revenue
        /\ balance' = [balance EXCEPT ![signer] = m]
    BY <1>0, <1>1 DEF Deposit
  <2>2. claims' = [claims EXCEPT ![signer] = m]
    <3> HIDE DEF m
    <3> QED
      BY <2>1, ClaimMoves
  <2> QED
    BY <1>1, <2>2, ClaimsOf DEF Deposit, Abstract!Fund
<1>2. ASSUME NEW payer \in User, NEW n \in Amount, Accepts(n), n <= balance[payer],
             balance' = [balance EXCEPT ![payer] = @ - n],
             UNCHANGED <<config, revenue, charged>>
      PROVE  n > 0 /\ Abstract!Redeem(payer, n)
  <2> DEFINE m == balance[payer] - n
  <2>1. /\ m \in Int /\ revenue' = revenue
        /\ balance' = [balance EXCEPT ![payer] = m]
    BY <1>0, <1>2
  <2>2. claims' = [claims EXCEPT ![payer] = m]
    <3> HIDE DEF m
    <3> QED
      BY <2>1, ClaimMoves
  <2> QED
    BY <1>2, <2>2, ClaimsOf DEF Abstract!Redeem
<1>3. ASSUME NEW signer \in User, NEW n \in Amount, NEW payer \in User, NEW q \in Quote,
             Charge(signer, payer, n, q)
      PROVE  n > 0 /\ Abstract!Settle(payer, q, n)
  <2>1. claims' = [claims EXCEPT ![payer] = balance[payer] - n, ![Contract] = revenue + n]
    <3>1. \A a \in Account : a # Contract => a \in User
      BY DEF User
    <3> QED
      BY <1>0, <1>3, <3>1 DEF Charge, claims
  <2> QED
    BY <1>3, <2>1, ClaimsOf DEF Charge, Abstract!Settle
<1>4. ASSUME NEW signer \in User, NEW n \in Amount, NEW destination \in Account,
             WithdrawRevenue(signer, destination, n)
      PROVE  n > 0 /\ Abstract!Redeem(Contract, n)
  <2>1. claims' = [claims EXCEPT ![Contract] = revenue - n]
    BY <1>4 DEF WithdrawRevenue, claims
  <2> QED
    BY <1>4, <2>1, ClaimsOf DEF WithdrawRevenue, Abstract!Redeem
<1>5. ASSUME NEW signer \in User, NEW paused \in BOOLEAN, SetPaused(signer, paused)
      PROVE  Abstract!Freeze(paused)
  BY <1>5 DEF SetPaused, claims, Abstract!Freeze, TypeOK, Config
<1>6. ASSUME NEW signer \in User, NEW new_admin \in Account, SetAdmin(signer, new_admin)
      PROVE  UNCHANGED Abstract!vars
  BY <1>6 DEF SetAdmin, claims, Abstract!vars, TypeOK, Config
<1>7. CASE UNCHANGED vars
  BY <1>7 DEF vars, claims, Abstract!vars
<1>8. ASSUME NEW signer \in User, NEW n \in Amount, Withdraw(signer, n)
      PROVE  n > 0 /\ Abstract!Redeem(signer, n)
  BY <1>2, <1>8 DEF Withdraw
<1>9. ASSUME NEW signer \in User, NEW n \in Amount, NEW payer \in User, NEW q \in Quote,
             Refund(signer, payer, n, q)
      PROVE  n > 0 /\ Abstract!Redeem(payer, n)
  BY <1>2, <1>9 DEF Refund
<1> QED
  BY <1>1, <1>3, <1>4, <1>5, <1>6, <1>7, <1>8, <1>9 DEF Next, Abstract!Next

(* The escrow implements the promise: balances are what it owes the users, *)
(* a quote is settled at most once, and nothing moves while it is paused.  *)
THEOREM ImplementsAlways == Spec => ImplementsPrepaidCredit
<1> QED
  BY InitPromised, NextPromised, TypeCorrect, PTL
     DEF Spec, ImplementsPrepaidCredit, Abstract!Spec

-------------------------------------------------------------------------------
(* Requests settled through the escrow.                                    *)

(* Deposits and costs are amounts.                                         *)
LEMMA PricesAreAmounts ==
    ASSUME NEW route \in Route, NEW n \in Nat
    PROVE  quoteAmount(route, n) \in Nat /\ calculatePrice(route, n) \in Nat
<1>1. route.price \in Nat /\ MIN_PAYMENT \in Nat /\ estimatedMaxTokens(n) \in Nat
  BY PricingAssumption DEF Route, estimatedMaxTokens
<1>2. \A a, b \in Nat : a * b \in Nat
  OBVIOUS
<1>3. route.price * estimatedMaxTokens(n) \in Nat /\ calculatePrice(route, n) \in Nat
  BY <1>1, <1>2 DEF calculatePrice
<1> QED
  BY <1>1, <1>3 DEF quoteAmount, atLeastMinimum

Parties == Key \in User /\ Payer \subseteq User /\ Routes \subseteq Route

LEMMA PartiesHold ==
    /\ Parties /\ MaxTokens \subseteq Nat /\ Tokens \subseteq Nat
    /\ \A q : Idle \in Draw /\ NoJob \in Job
BY SettlementAssumption, EscrowAssumption
   DEF Parties, Idle, Draw, NoJob, Job, Stage, NoRoute, Route, TxStatus

LEMMA InitSettlementTypeOK == SettlementInit => SettlementTypeOK
BY InitTypeOK, PartiesHold DEF SettlementInit, SettlementTypeOK

(* A draw on its way: what it relies on from stage to stage.               *)
Confirmed == {"forward", "cost", "debt", "settle"}

DrawOK(q) ==
    /\ draw[q].stage \in Confirmed => row[q] = "confirmed"
    /\ draw[q].stage \in {"cost", "debt", "settle"} => draw[q].answered
    /\ At(q, "debt") => draw[q].paid < draw[q].cost
    /\ draw[q].stage \in {"reply", "served"} => job[q].leg # "none"

(* A settlement belongs to an answered draw that is on its way out, and    *)
(* knows of a transaction only what it may know.                           *)
JobOK(q) ==
    /\ job[q].leg = "none" => job[q] = NoJob
    /\ job[q].leg # "none" => /\ draw[q].stage \in {"reply", "served", "failed", "dead"}
                              /\ draw[q].answered /\ row[q] = "confirmed"
    /\ job[q].leg \in {"refund", "record", "recordBoth"} => job[q].charge \in {"ok", "failed"}
    /\ job[q].leg = "done" => job[q].refusal # "none" \/ job[q].charge # "none"
    /\ job[q].refund # "none" => job[q].charge \in {"ok", "failed"}

(* The contract's keys of a quote are its own settlement's.                *)
KeysOK(q) ==
    /\ \A u \in User : <<u, q>> \in charged => u = user(q) /\ job[q].charge = "ok"
    /\ \A u \in User : <<u, q>> \in refunded => job[q].charge \in {"ok", "failed"}

(* The balance a draw was admitted on is there until something drains it.  *)
CreditOK(q) ==
    draw[q].stage \in {"create", "confirm"} \union Confirmed \/ job[q].leg # "none" =>
       q \in drained \/ draw[q].paid <= balance[user(q)]

RefusalOK(q) ==
    /\ job[q].refusal # "duplicate"
    /\ job[q].refusal = "short" => q \in drained \/ Excess(q) < 0

QuoteInv(q) == DrawOK(q) /\ JobOK(q) /\ KeysOK(q) /\ CreditOK(q) /\ RefusalOK(q)

(* A charge on the chain stays there, and what it was for stays as it was. *)
ChargeStays(q) ==
    job[q].charge = "ok" =>
       job'[q].charge = "ok" /\ draw'[q].user = draw[q].user /\ draw'[q].cost = draw[q].cost

(* A quote whose draw and settlement a step leaves alone.                  *)
LEMMA OtherQuote ==
    ASSUME NEW q \in Quote, QuoteInv(q), SettlementTypeOK, SettlementTypeOK',
           draw'[q] = draw[q], job'[q] = job[q], row'[q] = row[q],
           drained \subseteq drained',
           q \in Relying => q \in drained' \/ balance'[user(q)] >= balance[user(q)],
           \A u \in User : <<u, q>> \in charged' => <<u, q>> \in charged,
           \A u \in User : <<u, q>> \in refunded' => <<u, q>> \in refunded
    PROVE  QuoteInv(q)' /\ ChargeStays(q)
<1>1. DrawOK(q)' /\ JobOK(q)' /\ ChargeStays(q)
  BY DEF QuoteInv, DrawOK, JobOK, At, ChargeStays
<1>2. KeysOK(q)'
  BY DEF QuoteInv, KeysOK, user
<1>3. RefusalOK(q)'
  BY DEF QuoteInv, RefusalOK, Excess
<1>4. CreditOK(q)'
  <2>1. /\ user(q)' = user(q) /\ user(q) \in User /\ draw[q].paid \in Nat
        /\ balance[user(q)] \in Nat /\ balance'[user(q)] \in Nat
    BY DEF SettlementTypeOK, TypeOK, Draw, user
  <2>2. draw[q].stage \in {"create", "confirm"} \union Confirmed \/ job[q].leg # "none"
            => q \in Relying
    BY DEF QuoteInv, JobOK, Relying, Confirmed
  <2> QED
    BY <2>1, <2>2 DEF QuoteInv, CreditOK
<1> QED
  BY <1>1, <1>2, <1>3, <1>4 DEF QuoteInv

(* A step of one draw's handler: the draw goes on to another stage.        *)
LEMMA GotoMoves ==
    ASSUME SettlementTypeOK, NEW q \in Quote, NEW stage \in Stage, Goto(q, stage)
    PROVE  /\ draw' \in [Quote -> Draw]
           /\ draw'[q].stage = stage /\ draw'[q].user = draw[q].user
           /\ draw'[q].paid = draw[q].paid /\ draw'[q].cost = draw[q].cost
           /\ draw'[q].answered = draw[q].answered
           /\ \A p \in Quote : p # q => draw'[p] = draw[p]
<1>1. draw[q] \in Draw /\ draw \in [Quote -> Draw]
  BY DEF SettlementTypeOK
<1>2. [draw[q] EXCEPT !.stage = stage] \in Draw
  BY <1>1 DEF Draw
<1>3. draw' = [draw EXCEPT ![q] = [draw[q] EXCEPT !.stage = stage]]
  BY <1>1 DEF Goto
<1>4. draw'[q] = [draw[q] EXCEPT !.stage = stage] /\ \A p \in Quote : p # q => draw'[p] = draw[p]
  BY <1>1, <1>3
<1>5. draw' \in [Quote -> Draw]
  BY <1>1, <1>2, <1>3
<1> QED
  BY <1>1, <1>4, <1>5 DEF Draw

(* What the contract answers.                                              *)
LEMMA AnswerMeans ==
    ASSUME NEW q \in Quote, NEW n, NEW keys
    PROVE  /\ Answer(q, n, keys) \in {"none", "paused", "duplicate", "short"}
           /\ Answer(q, n, keys) = "duplicate" => <<user(q), q>> \in keys
           /\ Answer(q, n, keys) = "short" => n > balance[user(q)]
<1>1. CASE config.paused \/ <<user(q), q>> \in keys \/ n > balance[user(q)]
  BY <1>1 DEF Answer
<1>2. CASE ~(config.paused \/ <<user(q), q>> \in keys \/ n > balance[user(q)])
  BY <1>2 DEF Answer
<1> QED
  BY <1>1, <1>2

(* A step of the handler that leaves contract and settlements alone.       *)
LEMMA HandlerMoves ==
    ASSUME SettlementTypeOK, NEW q \in Quote, QuoteInv(q), NEW stage \in Stage,
           Goto(q, stage), Quiet, row' \in [Quote -> {"absent", "pending", "confirmed"}],
           debt' \in [Quote -> Nat],
           stage \in Confirmed => row'[q] = "confirmed",
           stage \in {"cost", "debt", "settle"} => draw[q].answered,
           stage = "debt" => draw[q].paid < draw[q].cost,
           stage \in {"reply", "served"} => job[q].leg # "none",
           job[q].leg # "none" => /\ stage \in {"reply", "served", "failed", "dead"}
                                  /\ row'[q] = row[q],
           stage \in {"create", "confirm"} \union Confirmed =>
              \/ draw[q].stage \in {"create", "confirm"} \union Confirmed
              \/ draw[q].paid <= balance[user(q)]
    PROVE  SettlementTypeOK' /\ QuoteInv(q)' /\ ChargeStays(q)
<1>1. /\ draw' \in [Quote -> Draw]
      /\ draw'[q].stage = stage /\ draw'[q].user = draw[q].user
      /\ draw'[q].paid = draw[q].paid /\ draw'[q].cost = draw[q].cost
      /\ draw'[q].answered = draw[q].answered
  BY GotoMoves
<1>2. UNCHANGED <<contract, job, hashes, drained>>
  BY DEF Quiet
<1>3. SettlementTypeOK'
  BY <1>1, <1>2 DEF SettlementTypeOK, TypeOK, contract
<1>4. DrawOK(q)'
  BY <1>1, <1>2 DEF DrawOK, At
<1>5. JobOK(q)'
  BY <1>1, <1>2 DEF QuoteInv, JobOK
<1>6. KeysOK(q)'
  BY <1>1, <1>2 DEF QuoteInv, KeysOK, user, contract
<1>7. CreditOK(q)'
  BY <1>1, <1>2 DEF QuoteInv, CreditOK, user, contract
<1>8. RefusalOK(q)'
  BY <1>1, <1>2 DEF QuoteInv, RefusalOK, Excess
<1>9. ChargeStays(q)
  BY <1>1, <1>2 DEF ChargeStays
<1> QED
  BY <1>3, <1>4, <1>5, <1>6, <1>7, <1>8, <1>9 DEF QuoteInv

(* What a step at q leaves alone of the other quotes.                      *)
Beside(q) ==
    \A p \in Quote : p # q =>
       /\ draw'[p] = draw[p] /\ job'[p] = job[p] /\ row'[p] = row[p]
       /\ p \in Relying => p \in drained' \/ balance'[user(p)] >= balance[user(p)]
       /\ \A u \in User : /\ <<u, p>> \in charged' => <<u, p>> \in charged
                          /\ <<u, p>> \in refunded' => <<u, p>> \in refunded

(* The handler's steps.                                                    *)
LEMMA HandlerStep ==
    ASSUME SettlementTypeOK, NEW q \in Quote, QuoteInv(q),
           \/ verifyEscrowPayment(q) \/ RefuseDraw(q) \/ createPendingPayment(q)
           \/ confirmPayment(q) \/ recordActualCost(q) \/ recordUnderpaymentDebt(q)
           \/ Reply(q) \/ Throw(q)
    PROVE  SettlementTypeOK' /\ QuoteInv(q)' /\ ChargeStays(q)
<1>0. /\ row \in [Quote -> {"absent", "pending", "confirmed"}] /\ debt \in [Quote -> Nat]
      /\ draw[q].paid \in Nat /\ draw[q].cost \in Nat /\ user(q) \in User
      /\ balance[user(q)] \in Nat
  BY DEF SettlementTypeOK, TypeOK, Draw, user
<1>1. /\ DrawOK(q) /\ JobOK(q)
      /\ job[q].leg # "none" => draw[q].stage \in {"reply", "served", "failed", "dead"}
  BY DEF QuoteInv, JobOK
<1>2. CASE verifyEscrowPayment(q)
  <2>1. PICK available \in getEscrowBalance(user(q)) :
           Goto(q, IF available # Unavailable /\ available >= draw[q].paid
                   THEN "create" ELSE "refuse")
    BY <1>2 DEF verifyEscrowPayment
  <2>2. draw[q].stage = "read" /\ UNCHANGED <<row, debt>> /\ Quiet
    BY <1>2 DEF verifyEscrowPayment, At
  <2>3. CASE available # Unavailable /\ available >= draw[q].paid
    <3>1. Goto(q, "create") /\ "create" \in Stage /\ draw[q].paid <= balance[user(q)]
      BY <1>0, <2>1, <2>3 DEF getEscrowBalance, Stage
    <3> QED
      BY <1>0, <1>1, <2>2, <3>1, HandlerMoves DEF Confirmed
  <2>4. CASE ~(available # Unavailable /\ available >= draw[q].paid)
    <3>1. Goto(q, "refuse") /\ "refuse" \in Stage
      BY <2>1, <2>4 DEF Stage
    <3> QED
      BY <1>0, <1>1, <2>2, <3>1, HandlerMoves DEF Confirmed
  <2> QED
    BY <2>3, <2>4
<1>3. ASSUME NEW status \in {"pending", "confirmed"}, row' = [row EXCEPT ![q] = status]
      PROVE  row' \in [Quote -> {"absent", "pending", "confirmed"}] /\ row'[q] = status
  BY <1>0, <1>3
<1>4. CASE RefuseDraw(q)
  <2>1. PICK end \in {"refused", "failed"} : Goto(q, end)
    BY <1>4 DEF RefuseDraw
  <2>2. /\ draw[q].stage = "refuse" /\ row' = [row EXCEPT ![q] = "pending"]
        /\ UNCHANGED debt /\ Quiet
    BY <1>4 DEF RefuseDraw, At
  <2>3. end \in Stage /\ end \notin {"create", "confirm"} \union Confirmed
        /\ end \notin {"reply", "served"}
    BY DEF Stage, Confirmed
  <2> QED
    BY <1>0, <1>1, <1>3, <2>1, <2>2, <2>3, HandlerMoves DEF Confirmed
<1>5. CASE createPendingPayment(q)
  <2>1. /\ draw[q].stage = "create" /\ row' = [row EXCEPT ![q] = "pending"]
        /\ Goto(q, "confirm") /\ UNCHANGED debt /\ Quiet /\ "confirm" \in Stage
    BY <1>5 DEF createPendingPayment, At, Stage
  <2> QED
    BY <1>0, <1>1, <1>3, <2>1, HandlerMoves DEF Confirmed
<1>6. CASE confirmPayment(q)
  <2>1. /\ draw[q].stage = "confirm" /\ row' = [row EXCEPT ![q] = "confirmed"]
        /\ Goto(q, "forward") /\ UNCHANGED debt /\ Quiet /\ "forward" \in Stage
    BY <1>6 DEF confirmPayment, At, Stage
  <2> QED
    BY <1>0, <1>1, <1>3, <2>1, HandlerMoves DEF Confirmed
<1>7. CASE recordActualCost(q)
  <2>1. /\ draw[q].stage = "cost" /\ UNCHANGED <<row, debt>> /\ Quiet
        /\ draw[q].answered /\ row[q] = "confirmed" /\ job[q].leg = "none"
    BY <1>1, <1>7 DEF recordActualCost, At, DrawOK, Confirmed
  <2>2. CASE isUnderpaid(draw[q].paid, draw[q].cost)
    <3>1. Goto(q, "debt") /\ "debt" \in Stage /\ draw[q].paid < draw[q].cost
      BY <1>0, <1>7, <2>2 DEF recordActualCost, Stage, isUnderpaid, surplus
    <3> QED
      BY <1>0, <2>1, <3>1, HandlerMoves DEF Confirmed
  <2>3. CASE ~isUnderpaid(draw[q].paid, draw[q].cost)
    <3>1. Goto(q, "settle") /\ "settle" \in Stage
      BY <1>7, <2>3 DEF recordActualCost, Stage
    <3> QED
      BY <1>0, <2>1, <3>1, HandlerMoves DEF Confirmed
  <2> QED
    BY <2>2, <2>3
<1>8. CASE recordUnderpaymentDebt(q)
  <2>1. /\ draw[q].stage = "debt" /\ UNCHANGED row /\ Quiet /\ Goto(q, "settle")
        /\ "settle" \in Stage
        /\ draw[q].answered /\ row[q] = "confirmed" /\ job[q].leg = "none"
    BY <1>1, <1>8 DEF recordUnderpaymentDebt, At, DrawOK, Confirmed, Stage
  <2>2. -Excess(q) \in Nat
    BY <1>0, <1>1, <2>1 DEF DrawOK, At, Excess, surplus
  <2>3. debt' \in [Quote -> Nat]
    BY <1>0, <1>8, <2>2 DEF recordUnderpaymentDebt
  <2> QED
    BY <1>0, <2>1, <2>3, HandlerMoves DEF Confirmed
<1>9. CASE Reply(q)
  <2>1. /\ draw[q].stage = "reply" /\ UNCHANGED <<row, debt>> /\ Quiet /\ Goto(q, "served")
        /\ "served" \in Stage /\ job[q].leg # "none"
    BY <1>1, <1>9 DEF Reply, At, DrawOK, Stage
  <2> QED
    BY <1>0, <2>1, HandlerMoves DEF Confirmed
<1>10. CASE Throw(q)
  <2>1. /\ UNCHANGED <<row, debt>> /\ Quiet /\ Goto(q, "failed") /\ "failed" \in Stage
    BY <1>10 DEF Throw, Stage
  <2> QED
    BY <1>0, <2>1, HandlerMoves DEF Confirmed
<1> QED
  BY <1>2, <1>4, <1>5, <1>6, <1>7, <1>8, <1>9, <1>10

(* A step that leaves the draw's user and cost alone, or comes before the  *)
(* settlement, and the contract, the history and the settlement too.       *)
LEMMA DrawMoves ==
    ASSUME SettlementTypeOK, NEW q \in Quote, QuoteInv(q), job[q].leg = "none",
           NEW d \in Draw, draw' = [draw EXCEPT ![q] = d], UNCHANGED <<row, debt>>, Quiet,
           d.stage \notin {"reply", "served", "debt"},
           d.stage \in {"cost", "settle"} => d.answered,
           d.stage \in Confirmed => row[q] = "confirmed",
           d.stage \in {"create", "confirm"} \union Confirmed =>
              /\ draw[q].stage \in {"create", "confirm"} \union Confirmed
              /\ d.user = draw[q].user /\ d.paid = draw[q].paid
    PROVE  SettlementTypeOK' /\ QuoteInv(q)' /\ ChargeStays(q)
<1>1. draw' \in [Quote -> Draw] /\ draw'[q] = d
  BY DEF SettlementTypeOK
<1>2. UNCHANGED <<contract, job, hashes, drained, row>>
  BY DEF Quiet
<1>3. job[q] = NoJob /\ job'[q] = NoJob
  BY <1>2 DEF QuoteInv, JobOK
<1>4. SettlementTypeOK'
  BY <1>1, <1>2 DEF SettlementTypeOK, TypeOK, contract
<1>5. DrawOK(q)' /\ JobOK(q)' /\ ChargeStays(q) /\ RefusalOK(q)'
  BY <1>1, <1>2, <1>3 DEF DrawOK, JobOK, ChargeStays, RefusalOK, At, NoJob
<1>6. KeysOK(q)'
  BY <1>2, <1>3 DEF QuoteInv, KeysOK, NoJob, contract
<1>7. CreditOK(q)'
  BY <1>1, <1>2, <1>3 DEF QuoteInv, CreditOK, user, contract, NoJob
<1> QED
  BY <1>4, <1>5, <1>6, <1>7 DEF QuoteInv

LEMMA RequestStep ==
    ASSUME SettlementTypeOK, NEW q \in Quote, QuoteInv(q), RequestDraw(q)
    PROVE  SettlementTypeOK' /\ QuoteInv(q)' /\ ChargeStays(q)
<1>1. PICK u \in Payer, route \in Routes, max_tokens \in MaxTokens :
         draw' = [draw EXCEPT ![q] =
                    [Idle EXCEPT !.stage = "read", !.user = u, !.route = route,
                                 !.paid = quoteAmount(route, max_tokens)]]
  BY DEF RequestDraw
<1>2. quoteAmount(route, max_tokens) \in Nat /\ u \in User /\ route \in Route
  BY PricesAreAmounts, PartiesHold DEF Parties
<1> DEFINE d == [Idle EXCEPT !.stage = "read", !.user = u, !.route = route,
                             !.paid = quoteAmount(route, max_tokens)]
<1>3. d \in Draw /\ d.stage = "read"
  BY <1>2 DEF Idle, Draw, Stage
<1>4. draw' = [draw EXCEPT ![q] = d]
  BY <1>1
<1>5. job[q].leg = "none" /\ UNCHANGED <<row, debt>> /\ Quiet
  BY DEF RequestDraw, QuoteInv, JobOK, At
<1> HIDE DEF d
<1> QED
  BY <1>3, <1>4, <1>5, DrawMoves DEF Confirmed

LEMMA AnsweredStep ==
    ASSUME SettlementTypeOK, NEW q \in Quote, QuoteInv(q), Answered(q)
    PROVE  SettlementTypeOK' /\ QuoteInv(q)' /\ ChargeStays(q)
<1>1. /\ draw[q] \in Draw /\ draw[q].stage = "forward" /\ row[q] = "confirmed"
      /\ job[q].leg = "none" /\ UNCHANGED <<row, debt>> /\ Quiet
  BY DEF SettlementTypeOK, Answered, QuoteInv, DrawOK, JobOK, At, Confirmed
<1>2. PICK tokens \in Tokens :
         LET metered == draw[q].route.perToken /\ tokens # 0
         IN  draw' = [draw EXCEPT
                ![q].stage = IF metered THEN "cost" ELSE "settle",
                ![q].cost = IF metered THEN calculatePrice(draw[q].route, tokens)
                                       ELSE draw[q].paid,
                ![q].answered = TRUE]
  BY DEF Answered
<1> DEFINE stage == IF draw[q].route.perToken /\ tokens # 0 THEN "cost" ELSE "settle"
           cost == IF draw[q].route.perToken /\ tokens # 0
                   THEN calculatePrice(draw[q].route, tokens) ELSE draw[q].paid
           d == [draw[q] EXCEPT !.stage = stage, !.cost = cost, !.answered = TRUE]
<1>3. stage \in {"cost", "settle"} /\ stage \in Stage
  BY DEF Stage
<1>4. cost \in Nat
  <2>1. draw[q].route \in Route /\ draw[q].paid \in Nat
    <3>1. draw[q].route \in Route \union {NoRoute} /\ draw[q].paid \in Nat
      BY <1>1 DEF Draw
    <3>2. NoRoute \in Route
      BY DEF NoRoute, Route
    <3> QED
      BY <3>1, <3>2
  <2>2. calculatePrice(draw[q].route, tokens) \in Nat
    BY <2>1, PricesAreAmounts, PartiesHold
  <2> QED
    BY <2>1, <2>2
<1>5. draw' = [draw EXCEPT ![q] = d]
  BY <1>2 DEF SettlementTypeOK
<1> HIDE DEF stage, cost
<1>6. /\ d \in Draw /\ d.stage = stage /\ d.answered
      /\ d.user = draw[q].user /\ d.paid = draw[q].paid
  BY <1>1, <1>3, <1>4 DEF Draw
<1> HIDE DEF d
<1> QED
  BY <1>1, <1>3, <1>5, <1>6, DrawMoves DEF Confirmed

(* A step of the settlement that leaves everything else alone.             *)
LEMMA JobMoves ==
    ASSUME SettlementTypeOK, NEW q \in Quote, QuoteInv(q),
           NEW j \in Job, job' = [job EXCEPT ![q] = j],
           UNCHANGED <<contract, draw, row, debt, drained>>,
           hashes' \in [Quote -> SUBSET {"charge", "refund"}],
           job[q].leg # "none", j.leg # "none",
           j.charge = job[q].charge \/ (job[q].charge \in {"none", "sent"} /\ j.charge # "ok"),
           j.leg \in {"refund", "record", "recordBoth"} => j.charge \in {"ok", "failed"},
           j.leg = "done" => j.refusal # "none" \/ j.charge # "none",
           j.refund # "none" => j.charge \in {"ok", "failed"},
           j.refusal \in {"duplicate", "short"} =>
              \/ j.refusal = job[q].refusal
              \/ j.refusal = "short" /\ (q \in drained \/ Excess(q) < 0)
    PROVE  SettlementTypeOK' /\ QuoteInv(q)' /\ ChargeStays(q)
<1>1. job' \in [Quote -> Job] /\ job'[q] = j
  BY DEF SettlementTypeOK
<1>2. SettlementTypeOK'
  BY <1>1 DEF SettlementTypeOK, TypeOK, contract
<1>3. DrawOK(q)' /\ JobOK(q)'
  BY <1>1 DEF QuoteInv, DrawOK, JobOK, At
<1>4. KeysOK(q)'
  BY <1>1 DEF QuoteInv, KeysOK, user, contract
<1>5. CreditOK(q)'
  BY <1>1 DEF QuoteInv, CreditOK, user, contract
<1>6. RefusalOK(q)'
  BY <1>1 DEF QuoteInv, RefusalOK, Excess
<1>7. ChargeStays(q)
  BY <1>1 DEF ChargeStays
<1> QED
  BY <1>2, <1>3, <1>4, <1>5, <1>6, <1>7 DEF QuoteInv

(* What a draw asks of the contract after its answer.                      *)
LEMMA JobTyped ==
    ASSUME SettlementTypeOK, NEW q \in Quote
    PROVE  /\ job[q] \in Job /\ draw[q] \in Draw /\ user(q) \in User
           /\ draw[q].paid \in Nat /\ draw[q].cost \in Nat
           /\ Excess(q) = draw[q].paid - draw[q].cost
           /\ balance[user(q)] \in Nat
           /\ hashes \in [Quote -> SUBSET {"charge", "refund"}]
BY DEF SettlementTypeOK, TypeOK, Draw, user, Excess, surplus

(* The settlement's steps.                                                 *)
LEMMA SubmitChargeStep ==
    ASSUME SettlementTypeOK, NEW q \in Quote, QuoteInv(q), SubmitCharge(q)
    PROVE  SettlementTypeOK' /\ QuoteInv(q)' /\ ChargeStays(q)
<1> DEFINE answer == Answer(q, draw[q].cost, charged)
<1>1. /\ job[q].leg = "charge" /\ job[q].charge = "none"
      /\ job[q] \in Job /\ job \in [Quote -> Job]
      /\ UNCHANGED <<contract, draw, row, debt, drained, hashes>>
  BY JobTyped DEF SubmitCharge, OnLeg, JobOnly, gateway, SettlementTypeOK
<1>2. /\ answer \in {"none", "paused", "short"}
      /\ answer = "short" => q \in drained \/ Excess(q) < 0
  <2>1. <<user(q), q>> \notin charged
    BY <1>1, JobTyped DEF QuoteInv, KeysOK
  <2>2. q \in drained \/ draw[q].paid <= balance[user(q)]
    BY <1>1 DEF QuoteInv, CreditOK
  <2>3. answer \in {"none", "paused", "short"} /\ (answer = "short" => draw[q].cost > balance[user(q)])
    BY <2>1, AnswerMeans
  <2> QED
    BY <2>2, <2>3, JobTyped
<1>3. \/ job' = [job EXCEPT ![q] = IF answer = "none" THEN [@ EXCEPT !.charge = "sent"]
                                   ELSE [@ EXCEPT !.leg = "done", !.refusal = answer]]
      \/ job' = [job EXCEPT ![q].leg = "done", ![q].refusal = "rpc"]
  BY DEF SubmitCharge
<1> HIDE DEF answer
<1>4. job[q].refund = "none"
  BY <1>1 DEF QuoteInv, JobOK
<1>5. CASE job' = [job EXCEPT ![q] = [job[q] EXCEPT !.charge = "sent"]]
  <2> DEFINE j == [job[q] EXCEPT !.charge = "sent"]
  <2>1. /\ j \in Job /\ j.leg = "charge" /\ j.charge = "sent" /\ j.refund = "none"
        /\ j.refusal = job[q].refusal
    BY <1>1, <1>4 DEF Job, TxStatus
  <2>2. job' = [job EXCEPT ![q] = j]
    BY <1>5
  <2> HIDE DEF j
  <2> QED
    BY <1>1, <2>1, <2>2, JobTyped, JobMoves
<1>6. ASSUME NEW why \in {"paused", "short", "rpc"}, why = "short" => q \in drained \/ Excess(q) < 0,
             job' = [job EXCEPT ![q] = [job[q] EXCEPT !.leg = "done", !.refusal = why]]
      PROVE  SettlementTypeOK' /\ QuoteInv(q)' /\ ChargeStays(q)
  <2> DEFINE j == [job[q] EXCEPT !.leg = "done", !.refusal = why]
  <2>1. /\ j \in Job /\ j.leg = "done" /\ j.charge = "none" /\ j.refund = "none"
        /\ j.refusal = why
    BY <1>1, <1>4 DEF Job, TxStatus
  <2>2. job' = [job EXCEPT ![q] = j]
    BY <1>6
  <2> HIDE DEF j
  <2> QED
    BY <1>1, <1>6, <2>1, <2>2, JobTyped, JobMoves
<1>7. \/ job' = [job EXCEPT ![q] = [job[q] EXCEPT !.charge = "sent"]]
      \/ \E why \in {"paused", "short", "rpc"} :
            /\ why = "short" => q \in drained \/ Excess(q) < 0
            /\ job' = [job EXCEPT ![q] = [job[q] EXCEPT !.leg = "done", !.refusal = why]]
  BY <1>1, <1>2, <1>3
<1> QED
  BY <1>5, <1>6, <1>7

(* After it the settlement only moves on.                                  *)
LEMMA LegMoves ==
    ASSUME SettlementTypeOK, NEW q \in Quote, QuoteInv(q),
           UNCHANGED <<contract, draw, row, debt, drained>>,
           hashes' \in [Quote -> SUBSET {"charge", "refund"}],
           NEW leg \in {"refund", "record", "recordBoth", "done"},
           job' = [job EXCEPT ![q].leg = leg],
           job[q].leg # "none", job[q].charge # "none",
           leg = "done" \/ job[q].charge \in {"ok", "failed"}
    PROVE  SettlementTypeOK' /\ QuoteInv(q)' /\ ChargeStays(q)
<1> DEFINE j == [job[q] EXCEPT !.leg = leg]
<1>1. job[q] \in Job /\ job \in [Quote -> Job]
  BY DEF SettlementTypeOK
<1>2. /\ j \in Job /\ j.leg = leg /\ j.charge = job[q].charge /\ j.refund = job[q].refund
      /\ j.refusal = job[q].refusal
  BY <1>1 DEF Job
<1>3. job' = [job EXCEPT ![q] = j]
  BY <1>1
<1>4. j.refund # "none" => j.charge \in {"ok", "failed"}
  BY <1>2 DEF QuoteInv, JobOK
<1> HIDE DEF j
<1> QED
  BY <1>2, <1>3, <1>4, JobMoves

LEMMA SettleStep ==
    ASSUME SettlementTypeOK, NEW q \in Quote, QuoteInv(q), Settle(q)
    PROVE  SettlementTypeOK' /\ QuoteInv(q)' /\ ChargeStays(q)
<1>0. /\ hashes \in [Quote -> SUBSET {"charge", "refund"}] /\ job \in [Quote -> Job]
      /\ job[q] \in Job
      /\ job[q].leg \in {"refund", "record", "recordBoth"} => job[q].charge \in {"ok", "failed"}
  BY DEF SettlementTypeOK, QuoteInv, JobOK
<1>1. JobOnly => UNCHANGED <<contract, draw, row, debt, drained, hashes>>
  BY DEF JobOnly, gateway
<1>2. CASE HearCharge(q)
  <2>1. \E leg \in {"refund", "record"} : job' = [job EXCEPT ![q].leg = leg]
    BY <1>2 DEF HearCharge
  <2> QED
    BY <1>0, <1>1, <1>2, <2>1, LegMoves DEF HearCharge, OnLeg, signAndSendContractTx
<1>3. CASE ChargeTimesOut(q)
  BY <1>0, <1>1, <1>3, LegMoves DEF ChargeTimesOut, OnLeg
<1>4. CASE SubmitRefund(q)
  <2>1. job[q].leg = "refund" /\ JobOnly /\ job[q].charge \in {"ok", "failed"}
    BY <1>0, <1>4 DEF SubmitRefund, OnLeg
  <2>2. CASE job' = [job EXCEPT ![q].leg = "record"]
    BY <1>0, <1>1, <2>1, <2>2, LegMoves
  <2>3. CASE job' = [job EXCEPT ![q].refund = "sent"]
    <3> DEFINE j == [job[q] EXCEPT !.refund = "sent"]
    <3>1. /\ j \in Job /\ j.leg = "refund" /\ j.charge = job[q].charge
          /\ j.refusal = job[q].refusal
      BY <1>0, <2>1 DEF Job, TxStatus
    <3>2. job' = [job EXCEPT ![q] = j]
      BY <1>0, <2>3
    <3> HIDE DEF j
    <3> QED
      BY <1>0, <1>1, <2>1, <3>1, <3>2, JobMoves
  <2> QED
    BY <1>4, <2>2, <2>3 DEF SubmitRefund
<1>5. CASE HearRefund(q)
  BY <1>0, <1>1, <1>5, LegMoves DEF HearRefund, OnLeg
<1>6. CASE RefundTimesOut(q)
  BY <1>0, <1>1, <1>6, LegMoves DEF RefundTimesOut, OnLeg
<1>7. CASE recordEscrowSettlement(q)
  <2>1. /\ job[q].leg \in {"record", "recordBoth"} /\ job' = [job EXCEPT ![q].leg = "done"]
        /\ UNCHANGED <<contract, draw, row, debt, drained>>
    BY <1>7 DEF recordEscrowSettlement, OnLeg
  <2>2. hashes' \in [Quote -> SUBSET {"charge", "refund"}]
    BY <1>0, <1>7 DEF recordEscrowSettlement
  <2> QED
    BY <1>0, <2>1, <2>2, LegMoves
<1> QED
  BY <1>2, <1>3, <1>4, <1>5, <1>6, <1>7, SubmitChargeStep DEF Settle

(* The settlement is started as the draw is answered.                      *)
LEMMA StartStep ==
    ASSUME SettlementTypeOK, NEW q \in Quote, QuoteInv(q), settleEscrowDraw(q)
    PROVE  SettlementTypeOK' /\ QuoteInv(q)' /\ ChargeStays(q)
<1>1. /\ draw[q].stage = "settle" /\ Goto(q, "reply") /\ "reply" \in Stage
      /\ job' = [job EXCEPT ![q].leg = "charge"]
      /\ UNCHANGED <<contract, row, debt, hashes, drained>>
  BY DEF settleEscrowDraw, At, Stage
<1>2. draw[q].answered /\ row[q] = "confirmed" /\ job[q] = NoJob
  BY <1>1 DEF QuoteInv, DrawOK, JobOK, Confirmed
<1>3. /\ draw' \in [Quote -> Draw] /\ draw'[q].stage = "reply"
      /\ draw'[q].user = draw[q].user /\ draw'[q].paid = draw[q].paid
      /\ draw'[q].cost = draw[q].cost /\ draw'[q].answered
  BY <1>1, <1>2, GotoMoves
<1>4. /\ job' \in [Quote -> Job] /\ job'[q].leg = "charge" /\ job'[q].charge = "none"
      /\ job'[q].refund = "none" /\ job'[q].refusal = "none"
  <2>1. [NoJob EXCEPT !.leg = "charge"] \in Job
    BY DEF NoJob, Job, TxStatus
  <2>2. job \in [Quote -> Job] /\ job' = [job EXCEPT ![q] = [NoJob EXCEPT !.leg = "charge"]]
    BY <1>1, <1>2 DEF SettlementTypeOK
  <2> QED
    BY <2>1, <2>2 DEF NoJob
<1>5. SettlementTypeOK'
  BY <1>1, <1>3, <1>4 DEF SettlementTypeOK, TypeOK, contract
<1>6. DrawOK(q)' /\ JobOK(q)' /\ RefusalOK(q)' /\ ChargeStays(q)
  BY <1>1, <1>2, <1>3, <1>4 DEF DrawOK, JobOK, RefusalOK, ChargeStays, At, Confirmed, NoJob
<1>7. KeysOK(q)'
  BY <1>1, <1>2, <1>4 DEF QuoteInv, KeysOK, NoJob, contract
<1>8. CreditOK(q)'
  BY <1>1, <1>3 DEF QuoteInv, CreditOK, user, contract, Confirmed
<1> QED
  BY <1>5, <1>6, <1>7, <1>8 DEF QuoteInv

(* A crash ends a draw that has not ended and a settlement that runs.      *)
LEMMA CrashStep ==
    ASSUME SettlementTypeOK, NEW q \in Quote, QuoteInv(q), Crash(q)
    PROVE  SettlementTypeOK' /\ QuoteInv(q)' /\ ChargeStays(q)
<1> DEFINE stage == IF draw[q].stage \in Ended THEN draw[q].stage ELSE "dead"
           leg == IF job[q].leg \in Running THEN "lost" ELSE job[q].leg
<1>0. /\ draw[q] \in Draw /\ job[q] \in Job
      /\ draw \in [Quote -> Draw] /\ job \in [Quote -> Job]
  BY DEF SettlementTypeOK
<1>1. /\ draw' = [draw EXCEPT ![q].stage = stage] /\ job' = [job EXCEPT ![q].leg = leg]
      /\ UNCHANGED <<contract, row, debt, hashes, drained>>
  BY <1>0 DEF Crash
<1>2. stage \in Stage /\ stage \in Ended
  BY DEF Stage, Ended
<1>3. /\ leg = "none" <=> job[q].leg = "none"
      /\ leg = job[q].leg \/ leg = "lost"
      /\ leg \in {"none", "charge", "refund", "record", "recordBoth", "done", "lost"}
  BY <1>0 DEF Running, Job
<1>4. job[q].leg # "none" => stage \in {"served", "failed", "dead"}
  BY DEF QuoteInv, JobOK, Ended
<1>5. stage = "served" => job[q].leg # "none"
  BY DEF QuoteInv, DrawOK
<1> HIDE DEF stage, leg
<1>6. /\ draw' \in [Quote -> Draw]
      /\ draw'[q].stage = stage /\ draw'[q].user = draw[q].user
      /\ draw'[q].paid = draw[q].paid /\ draw'[q].cost = draw[q].cost
      /\ draw'[q].answered = draw[q].answered
  BY <1>1, <1>2, GotoMoves DEF Goto
<1>7. /\ job' \in [Quote -> Job] /\ job'[q].leg = leg /\ job'[q].charge = job[q].charge
      /\ job'[q].refund = job[q].refund /\ job'[q].refusal = job[q].refusal
      /\ job'[q] = [job[q] EXCEPT !.leg = leg]
  <2>1. [job[q] EXCEPT !.leg = leg] \in Job
    BY <1>0, <1>3 DEF Job
  <2>2. job' = [job EXCEPT ![q] = [job[q] EXCEPT !.leg = leg]]
    BY <1>0, <1>1
  <2>3. job' \in [Quote -> Job] /\ job'[q] = [job[q] EXCEPT !.leg = leg]
    BY <1>0, <2>1, <2>2
  <2> QED
    BY <1>0, <2>3 DEF Job
<1>8. SettlementTypeOK'
  BY <1>1, <1>6, <1>7 DEF SettlementTypeOK, TypeOK, contract
<1>9. DrawOK(q)'
  BY <1>1, <1>2, <1>3, <1>5, <1>6, <1>7 DEF DrawOK, At, Confirmed, Ended
<1>10. JobOK(q)'
  <2>1. job[q].leg = "none" => job'[q] = NoJob
    BY <1>0, <1>3, <1>7 DEF QuoteInv, JobOK, NoJob, Job
  <2> QED
    BY <1>1, <1>3, <1>4, <1>6, <1>7, <2>1 DEF QuoteInv, JobOK
<1>11. KeysOK(q)' /\ RefusalOK(q)' /\ ChargeStays(q)
  BY <1>1, <1>6, <1>7 DEF QuoteInv, KeysOK, RefusalOK, ChargeStays, Excess, user, contract
<1>12. CreditOK(q)'
  BY <1>1, <1>2, <1>3, <1>6, <1>7 DEF QuoteInv, CreditOK, user, contract, Confirmed, Ended
<1> QED
  BY <1>8, <1>9, <1>10, <1>11, <1>12 DEF QuoteInv

(* A transaction that lands changes of the settlement only its status.     *)
LEMMA LandMoves ==
    ASSUME SettlementTypeOK, TypeOK', NEW q \in Quote, QuoteInv(q),
           NEW j \in Job, job' = [job EXCEPT ![q] = j],
           Drains, UNCHANGED gateway,
           j.leg = job[q].leg, j.refusal = job[q].refusal, job[q].leg # "none",
           job[q].charge # "ok" \/ j.charge = "ok",
           j.charge # "none",
           j.leg \in {"refund", "record", "recordBoth"} => j.charge \in {"ok", "failed"},
           j.refund # "none" => j.charge \in {"ok", "failed"},
           \A u \in User : <<u, q>> \in charged' => u = user(q) /\ j.charge = "ok",
           \A u \in User : <<u, q>> \in refunded' => j.charge \in {"ok", "failed"}
    PROVE  SettlementTypeOK' /\ QuoteInv(q)' /\ ChargeStays(q)
<1>1. job' \in [Quote -> Job] /\ job'[q] = j /\ UNCHANGED <<draw, row, debt, hashes>>
  BY DEF SettlementTypeOK, gateway
<1>2. drained \subseteq drained' /\ drained' \subseteq Quote
  BY DEF Drains, Relying, SettlementTypeOK
<1>3. SettlementTypeOK'
  BY <1>1, <1>2 DEF SettlementTypeOK
<1>4. DrawOK(q)' /\ JobOK(q)'
  BY <1>1 DEF QuoteInv, DrawOK, JobOK, At
<1>5. KeysOK(q)'
  BY <1>1 DEF KeysOK, user
<1>6. CreditOK(q)'
  <2>1. q \in Relying
    BY DEF QuoteInv, JobOK, Relying
  <2>2. q \in drained' \/ balance'[user(q)] >= balance[user(q)]
    <3>1. user(q) \in User /\ balance[user(q)] \in Nat /\ balance'[user(q)] \in Nat
      BY JobTyped DEF TypeOK
    <3> QED
      BY <2>1, <3>1 DEF Drains
  <2>3. q \in drained \/ draw[q].paid <= balance[user(q)]
    BY DEF QuoteInv, CreditOK
  <2>4. draw[q].paid \in Nat /\ balance[user(q)] \in Nat /\ balance'[user(q)] \in Nat
    BY JobTyped DEF TypeOK
  <2> QED
    BY <1>1, <1>2, <2>2, <2>3, <2>4 DEF CreditOK, user
<1>7. RefusalOK(q)'
  BY <1>1, <1>2 DEF QuoteInv, RefusalOK, Excess
<1>8. ChargeStays(q)
  BY <1>1 DEF ChargeStays
<1> QED
  BY <1>3, <1>4, <1>5, <1>6, <1>7, <1>8 DEF QuoteInv

LEMMA LandChargeStep ==
    ASSUME SettlementTypeOK, NEW q \in Quote, QuoteInv(q), LandCharge(q)
    PROVE  SettlementTypeOK' /\ QuoteInv(q)'
<1>1. /\ job[q].charge = "sent" /\ job[q] \in Job /\ job \in [Quote -> Job]
      /\ Drains /\ UNCHANGED gateway
  BY DEF LandCharge, SettlementTypeOK
<1>2. /\ job[q].leg # "none" /\ job[q].refund = "none"
      /\ job[q].leg \notin {"refund", "record", "recordBoth"}
      /\ \A u \in User : <<u, q>> \notin charged /\ <<u, q>> \notin refunded
  BY <1>1 DEF QuoteInv, JobOK, KeysOK, NoJob
<1>3. ASSUME NEW status \in {"ok", "failed"}, job' = [job EXCEPT ![q].charge = status], TypeOK',
             \A u \in User : <<u, q>> \in charged' => u = user(q) /\ status = "ok",
             UNCHANGED refunded
      PROVE  SettlementTypeOK' /\ QuoteInv(q)'
  <2> DEFINE j == [job[q] EXCEPT !.charge = status]
  <2>1. /\ j \in Job /\ j.leg = job[q].leg /\ j.charge = status /\ j.refund = job[q].refund
        /\ j.refusal = job[q].refusal
    BY <1>1 DEF Job, TxStatus
  <2>2. job' = [job EXCEPT ![q] = j]
    BY <1>1, <1>3
  <2> HIDE DEF j
  <2> QED
    BY <1>1, <1>2, <1>3, <2>1, <2>2, LandMoves
<1>4. CASE Charge(Key, user(q), draw[q].cost, q) /\ job' = [job EXCEPT ![q].charge = "ok"]
  <2>1. TypeOK'
    BY <1>4, JobTyped, ChargeTypeOK DEF SettlementTypeOK
  <2>2. charged' = charged \union {<<user(q), q>>} /\ refunded' = refunded
    BY <1>4 DEF Charge
  <2> QED
    BY <1>2, <1>3, <1>4, <2>1, <2>2
<1>5. CASE job' = [job EXCEPT ![q].charge = "failed"] /\ UNCHANGED contract
  <2>1. TypeOK' /\ UNCHANGED <<charged, refunded>>
    BY <1>5 DEF SettlementTypeOK, TypeOK, contract
  <2> QED
    BY <1>2, <1>3, <1>5, <2>1
<1> QED
  BY <1>4, <1>5 DEF LandCharge

LEMMA LandRefundStep ==
    ASSUME SettlementTypeOK, NEW q \in Quote, QuoteInv(q), LandRefund(q)
    PROVE  SettlementTypeOK' /\ QuoteInv(q)' /\ ChargeStays(q)
<1>1. /\ job[q].refund = "sent" /\ job[q] \in Job /\ job \in [Quote -> Job]
      /\ Drains /\ UNCHANGED gateway
  BY DEF LandRefund, SettlementTypeOK
<1>2. job[q].leg # "none" /\ job[q].charge \in {"ok", "failed"}
  BY <1>1 DEF QuoteInv, JobOK, NoJob
<1>3. \A u \in User : <<u, q>> \in charged => u = user(q) /\ job[q].charge = "ok"
  BY DEF QuoteInv, KeysOK
<1>4. ASSUME NEW status \in {"ok", "failed"}, job' = [job EXCEPT ![q].refund = status], TypeOK',
             UNCHANGED charged
      PROVE  SettlementTypeOK' /\ QuoteInv(q)' /\ ChargeStays(q)
  <2> DEFINE j == [job[q] EXCEPT !.refund = status]
  <2>1. /\ j \in Job /\ j.leg = job[q].leg /\ j.charge = job[q].charge
        /\ j.refusal = job[q].refusal
    BY <1>1 DEF Job, TxStatus
  <2>2. job' = [job EXCEPT ![q] = j]
    BY <1>1, <1>4
  <2> HIDE DEF j
  <2> QED
    BY <1>1, <1>2, <1>3, <1>4, <2>1, <2>2, LandMoves
<1>5. CASE Refund(Key, user(q), Excess(q), q) /\ job' = [job EXCEPT ![q].refund = "ok"]
  <2>1. TypeOK'
    BY <1>5, JobTyped, RefundTypeOK DEF SettlementTypeOK
  <2> QED
    BY <1>4, <1>5, <2>1 DEF Refund
<1>6. CASE job' = [job EXCEPT ![q].refund = "failed"] /\ UNCHANGED contract
  <2>1. TypeOK' /\ UNCHANGED charged
    BY <1>6 DEF SettlementTypeOK, TypeOK, contract
  <2> QED
    BY <1>4, <1>6, <2>1
<1> QED
  BY <1>5, <1>6 DEF LandRefund

(* A transaction the network forgets was on its way.                       *)
LEMMA ExpireStep ==
    ASSUME SettlementTypeOK, NEW q \in Quote, QuoteInv(q), Expire(q)
    PROVE  SettlementTypeOK' /\ QuoteInv(q)' /\ ChargeStays(q)
<1>1. /\ job[q] \in Job /\ job \in [Quote -> Job]
      /\ UNCHANGED <<contract, draw, row, debt, hashes, drained>>
  BY DEF Expire, JobOnly, gateway, SettlementTypeOK
<1>2. CASE job[q].charge = "sent" /\ job' = [job EXCEPT ![q].charge = "dropped"]
  <2> DEFINE j == [job[q] EXCEPT !.charge = "dropped"]
  <2>1. /\ j \in Job /\ j.leg = job[q].leg /\ j.charge = "dropped" /\ j.refund = job[q].refund
        /\ j.refusal = job[q].refusal
    BY <1>1 DEF Job, TxStatus
  <2>2. job' = [job EXCEPT ![q] = j]
    BY <1>1, <1>2
  <2>3. /\ job[q].leg # "none" /\ job[q].refund = "none"
        /\ job[q].leg \notin {"refund", "record", "recordBoth"}
    BY <1>2 DEF QuoteInv, JobOK, NoJob
  <2>4. RefusalOK(q)
    BY DEF QuoteInv
  <2> HIDE DEF j
  <2> QED
    BY <1>1, <1>2, <2>1, <2>2, <2>3, <2>4, JobTyped, JobMoves DEF RefusalOK
<1>3. CASE job[q].refund = "sent" /\ job' = [job EXCEPT ![q].refund = "dropped"]
  <2> DEFINE j == [job[q] EXCEPT !.refund = "dropped"]
  <2>1. /\ j \in Job /\ j.leg = job[q].leg /\ j.charge = job[q].charge /\ j.refund = "dropped"
        /\ j.refusal = job[q].refusal
    BY <1>1 DEF Job, TxStatus
  <2>2. job' = [job EXCEPT ![q] = j]
    BY <1>1, <1>3
  <2>3. job[q].leg # "none" /\ job[q].charge \in {"ok", "failed"} /\ RefusalOK(q)
    BY <1>3 DEF QuoteInv, JobOK, NoJob
  <2> HIDE DEF j
  <2> QED
    BY <1>1, <2>1, <2>2, <2>3, JobTyped, JobMoves DEF RefusalOK
<1> QED
  BY <1>2, <1>3 DEF Expire

(* Every step at a quote leaves the others alone.                          *)
QuoteStep(q) ==
    RequestDraw(q) \/ Handler(q) \/ Settle(q) \/ LandCharge(q) \/ LandRefund(q)
       \/ Expire(q) \/ Crash(q)

LEMMA QuoteStepBeside ==
    ASSUME SettlementTypeOK, NEW q \in Quote, QuoteStep(q)
    PROVE  Beside(q) /\ drained \subseteq drained'
<1>0. /\ draw \in [Quote -> Draw] /\ job \in [Quote -> Job]
      /\ row \in [Quote -> {"absent", "pending", "confirmed"}]
      /\ \A p \in Quote : balance[user(p)] \in Nat
  BY JobTyped DEF SettlementTypeOK
<1>1. ASSUME UNCHANGED <<contract, drained>>,
             \A p \in Quote : p # q =>
                draw'[p] = draw[p] /\ job'[p] = job[p] /\ row'[p] = row[p]
      PROVE  Beside(q) /\ drained \subseteq drained'
  BY <1>0, <1>1 DEF Beside, contract
<1>2. ASSUME UNCHANGED <<job, drained, contract>>,
             \/ RequestDraw(q) \/ verifyEscrowPayment(q) \/ RefuseDraw(q)
             \/ createPendingPayment(q) \/ confirmPayment(q) \/ Answered(q)
             \/ recordActualCost(q) \/ recordUnderpaymentDebt(q) \/ Reply(q) \/ Throw(q)
      PROVE  \A p \in Quote : p # q => draw'[p] = draw[p] /\ row'[p] = row[p]
  <2>1. ASSUME NEW stage, Goto(q, stage) PROVE \A p \in Quote : p # q => draw'[p] = draw[p]
    BY <1>0, <2>1 DEF Goto
  <2>2. CASE RequestDraw(q)
    BY <1>0, <2>2 DEF RequestDraw
  <2>3. CASE Answered(q)
    BY <1>0, <2>3 DEF Answered
  <2>4. CASE verifyEscrowPayment(q)
    BY <1>0, <2>1, <2>4 DEF verifyEscrowPayment
  <2>5. CASE RefuseDraw(q)
    BY <1>0, <2>1, <2>5 DEF RefuseDraw
  <2>6. CASE createPendingPayment(q) \/ confirmPayment(q)
    BY <1>0, <2>1, <2>6 DEF createPendingPayment, confirmPayment
  <2>7. CASE recordActualCost(q) \/ recordUnderpaymentDebt(q)
    BY <1>0, <2>1, <2>7 DEF recordActualCost, recordUnderpaymentDebt
  <2>8. CASE Reply(q) \/ Throw(q)
    BY <1>0, <2>1, <2>8 DEF Reply, Throw
  <2> QED
    BY <1>2, <2>2, <2>3, <2>4, <2>5, <2>6, <2>7, <2>8
<1>3. CASE RequestDraw(q) \/ Handler(q)
  <2>1. CASE settleEscrowDraw(q)
    BY <1>0, <1>1, <2>1 DEF settleEscrowDraw, Goto
  <2>2. CASE ~settleEscrowDraw(q)
    <3>1. Quiet
      BY <1>3, <2>2 DEF Handler, RequestDraw, verifyEscrowPayment, RefuseDraw,
            createPendingPayment, confirmPayment, Answered, recordActualCost,
            recordUnderpaymentDebt, Reply, Throw
    <3>2. UNCHANGED <<job, drained, contract>>
      BY <3>1 DEF Quiet
    <3> QED
      BY <1>1, <1>2, <1>3, <2>2, <3>2 DEF Handler
  <2> QED
    BY <2>1, <2>2
<1>4. CASE Settle(q) \/ Expire(q)
  <2>1. /\ UNCHANGED <<contract, drained, draw, row>>
        /\ \A p \in Quote : p # q => job'[p] = job[p]
    <3>1. CASE SubmitCharge(q)
      BY <1>0, <3>1 DEF SubmitCharge, JobOnly, gateway
    <3>2. CASE HearCharge(q) \/ ChargeTimesOut(q)
      BY <1>0, <3>2 DEF HearCharge, ChargeTimesOut, JobOnly, gateway
    <3>3. CASE SubmitRefund(q)
      BY <1>0, <3>3 DEF SubmitRefund, JobOnly, gateway
    <3>4. CASE HearRefund(q) \/ RefundTimesOut(q)
      BY <1>0, <3>4 DEF HearRefund, RefundTimesOut, JobOnly, gateway
    <3>5. CASE recordEscrowSettlement(q)
      BY <1>0, <3>5 DEF recordEscrowSettlement
    <3>6. CASE Expire(q)
      BY <1>0, <3>6 DEF Expire, JobOnly, gateway
    <3> QED
      BY <1>4, <3>1, <3>2, <3>3, <3>4, <3>5, <3>6 DEF Settle
  <2> QED
    BY <1>1, <2>1
<1>5. CASE Crash(q)
  BY <1>0, <1>1, <1>5 DEF Crash
<1>6. CASE LandCharge(q) \/ LandRefund(q)
  <2>1. /\ UNCHANGED <<draw, row>> /\ Drains
        /\ \A p \in Quote : p # q => job'[p] = job[p]
    BY <1>0, <1>6 DEF LandCharge, LandRefund, gateway
  <2>2. /\ charged' \subseteq charged \union {<<user(q), q>>}
        /\ refunded' \subseteq refunded \union {<<user(q), q>>}
    BY <1>6 DEF LandCharge, LandRefund, Charge, Refund, contract
  <2>3. ASSUME NEW p \in Quote PROVE balance'[user(p)] \in Int
    <3>1. TypeOK'
      <4>1. CASE LandCharge(q)
        <5>1. CASE UNCHANGED contract
          BY <5>1 DEF SettlementTypeOK, TypeOK, contract
        <5> QED
          BY <4>1, <5>1, JobTyped, ChargeTypeOK DEF LandCharge, SettlementTypeOK
      <4>2. CASE LandRefund(q)
        <5>1. CASE UNCHANGED contract
          BY <5>1 DEF SettlementTypeOK, TypeOK, contract
        <5> QED
          BY <4>2, <5>1, JobTyped, RefundTypeOK DEF LandRefund, SettlementTypeOK
      <4> QED
        BY <1>6, <4>1, <4>2
    <3> QED
      BY <3>1, JobTyped DEF TypeOK
  <2>4. ASSUME NEW p \in Quote, p \in Relying
        PROVE  p \in drained' \/ balance'[user(p)] >= balance[user(p)]
    BY <1>0, <2>1, <2>3, <2>4 DEF Drains
  <2> QED
    BY <2>1, <2>2, <2>4 DEF Beside, Drains
<1> QED
  BY <1>3, <1>4, <1>5, <1>6 DEF QuoteStep

(* The events of the history are of charges on the chain, of the cost of   *)
(* their draws.                                                            *)
EventOK(u, e) ==
    /\ job[e.quote_id].charge = "ok"
    /\ draw[e.quote_id].user = u /\ draw[e.quote_id].cost = e.amount

EventsOK == \A u \in User : \A i \in DOMAIN usage[u] : EventOK(u, usage[u][i])

SettlementInv == SettlementTypeOK /\ (\A q \in Quote : QuoteInv(q)) /\ EventsOK

(* Every event is of some quote.                                           *)
LEMMA EventTyped ==
    ASSUME TypeOK, NEW u \in User, NEW i \in DOMAIN usage[u]
    PROVE  usage[u][i] \in UsageEvent /\ usage[u][i].quote_id \in Quote
<1>1. usage[u] \in Seq(UsageEvent)
  BY DEF TypeOK
<1>2. usage[u][i] \in UsageEvent
  BY <1>1
<1> QED
  BY <1>2 DEF UsageEvent

LEMMA EventsStay ==
    ASSUME TypeOK, EventsOK, UNCHANGED usage, \A q \in Quote : ChargeStays(q)
    PROVE  EventsOK'
<1> SUFFICES ASSUME NEW u \in User, NEW i \in DOMAIN usage[u]
             PROVE  EventOK(u, usage[u][i])'
  BY DEF EventsOK
<1>1. EventOK(u, usage[u][i]) /\ ChargeStays(usage[u][i].quote_id)
  BY EventTyped DEF EventsOK
<1> QED
  BY <1>1 DEF EventOK, ChargeStays

(* A charge that lands adds the event of its own draw.                     *)
LEMMA LandChargeEvents ==
    ASSUME SettlementInv, NEW q \in Quote, LandCharge(q), Beside(q)
    PROVE  EventsOK'
<1>1. /\ job[q].charge = "sent" /\ UNCHANGED draw /\ job \in [Quote -> Job] /\ TypeOK
  BY DEF LandCharge, gateway, SettlementInv, SettlementTypeOK
<1>2. ASSUME NEW u \in User, NEW e, e.quote_id \in Quote, EventOK(u, e)
      PROVE  e.quote_id # q /\ job'[e.quote_id].charge = "ok"
  BY <1>1, <1>2 DEF EventOK, Beside
<1>3. ASSUME NEW u \in User, NEW i \in DOMAIN usage[u], usage'[u][i] = usage[u][i]
      PROVE  EventOK(u, usage[u][i])'
  <2> DEFINE e == usage[u][i]
  <2>1. EventOK(u, e) /\ e.quote_id \in Quote
    BY <1>1, EventTyped DEF SettlementInv, EventsOK
  <2>2. job'[e.quote_id].charge = "ok"
    BY <1>2, <2>1
  <2> QED
    BY <1>1, <1>3, <2>1, <2>2 DEF EventOK
<1>4. CASE UNCHANGED contract
  BY <1>3, <1>4 DEF EventsOK, contract
<1>5. CASE Charge(Key, user(q), draw[q].cost, q) /\ job' = [job EXCEPT ![q].charge = "ok"]
  <2> DEFINE new == [amount |-> draw[q].cost, quote_id |-> q]
             h == usage[user(q)]
  <2>1. user(q) \in User /\ usage \in [User -> Seq(UsageEvent)]
    BY <1>1, JobTyped DEF SettlementInv, TypeOK
  <2>2. usage' = [usage EXCEPT ![user(q)] = Append(@, new)]
    BY <1>5 DEF Charge, LogUsage
  <2>3. usage'[user(q)] = Append(h, new) /\ \A u \in User : u # user(q) => usage'[u] = usage[u]
    BY <2>1, <2>2
  <2>4. new.quote_id = q /\ new.amount = draw[q].cost
    OBVIOUS
  <2>5. job'[q].charge = "ok"
    <3>1. job[q] \in Job
      BY <1>1
    <3> QED
      BY <1>1, <1>5, <3>1 DEF Job
  <2> HIDE DEF new
  <2> SUFFICES ASSUME NEW u \in User, NEW i \in DOMAIN usage'[u]
               PROVE  EventOK(u, usage[u][i])'
    BY DEF EventsOK
  <2>6. CASE u # user(q)
    BY <1>3, <2>3, <2>6
  <2>7. CASE u = user(q)
    <3>1. /\ h \in Seq(UsageEvent) /\ DOMAIN h = 1 .. Len(h) /\ Len(h) \in Nat
          /\ DOMAIN Append(h, new) = 1 .. Len(h) + 1
          /\ \A k \in 1 .. Len(h) : Append(h, new)[k] = h[k]
          /\ Append(h, new)[Len(h) + 1] = new
      BY <2>1
    <3>2. CASE i \in 1 .. Len(h)
      BY <1>3, <2>3, <2>7, <3>1, <3>2
    <3>3. CASE i = Len(h) + 1
      <4>1. usage'[u][i] = new
        BY <2>3, <2>7, <3>1, <3>3
      <4> QED
        BY <1>1, <2>4, <2>5, <2>7, <4>1 DEF EventOK, user
    <3> QED
      BY <2>3, <2>7, <3>1, <3>2, <3>3
  <2> QED
    BY <2>6, <2>7
<1> QED
  BY <1>4, <1>5 DEF LandCharge

(* What a step at q keeps of q.                                            *)
LEMMA QuoteStepKeeps ==
    ASSUME SettlementTypeOK, NEW q \in Quote, QuoteInv(q), QuoteStep(q)
    PROVE  SettlementTypeOK' /\ QuoteInv(q)' /\ (ChargeStays(q) \/ LandCharge(q))
BY HandlerStep, RequestStep, AnsweredStep, StartStep, SettleStep, LandChargeStep,
   LandRefundStep, ExpireStep, CrashStep DEF QuoteStep, Handler

(* Users and the operator at the contract.                                 *)
LEMMA ElsewhereTypeOK ==
    ASSUME SettlementTypeOK, Elsewhere
    PROVE  /\ SettlementTypeOK' /\ UNCHANGED <<charged, refunded, usage>>
           /\ UNCHANGED <<draw, row, debt, hashes, job>> /\ Drains
<1>1. /\ UNCHANGED <<draw, row, debt, hashes, job>> /\ Drains
      /\ TypeOK
  BY DEF Elsewhere, gateway, SettlementTypeOK
<1>2. PICK signer \in User :
         \/ \E n \in Amount : Deposit(signer, n) \/ Withdraw(signer, n)
         \/ \E paused \in BOOLEAN : SetPaused(signer, paused)
  BY DEF Elsewhere
<1>3. Next
  BY <1>2 DEF Next
<1>4. UNCHANGED <<charged, refunded, usage>>
  BY <1>2 DEF Deposit, Withdraw, SetPaused
<1>5. TypeOK'
  BY <1>1, <1>3, NextTypeOK
<1>6. SettlementTypeOK'
  BY <1>1, <1>5 DEF SettlementTypeOK, Drains, Relying
<1> QED
  BY <1>1, <1>4, <1>6

LEMMA ElsewhereKeeps ==
    ASSUME SettlementTypeOK, Elsewhere, NEW q \in Quote, QuoteInv(q)
    PROVE  QuoteInv(q)' /\ ChargeStays(q)
<1>1. q \in Relying => q \in drained' \/ balance'[user(q)] >= balance[user(q)]
  <2>1. user(q) \in User /\ balance[user(q)] \in Nat /\ balance'[user(q)] \in Nat
    BY ElsewhereTypeOK, JobTyped DEF SettlementTypeOK, TypeOK
  <2> QED
    BY <2>1, ElsewhereTypeOK DEF Drains
<1>2. drained \subseteq drained'
  BY ElsewhereTypeOK DEF Drains
<1> QED
  BY <1>1, <1>2, ElsewhereTypeOK, OtherQuote

(* Only a charge that lands adds to the history.                           *)
LEMMA OnlyLandingLogs ==
    ASSUME NEW q \in Quote, QuoteStep(q), ~LandCharge(q)
    PROVE  UNCHANGED usage
<1>1. Handler(q) \/ RequestDraw(q) => UNCHANGED contract
  BY DEF Handler, RequestDraw, verifyEscrowPayment, RefuseDraw, createPendingPayment,
         confirmPayment, Answered, recordActualCost, recordUnderpaymentDebt,
         settleEscrowDraw, Reply, Throw, Quiet
<1>2. Settle(q) \/ Expire(q) \/ Crash(q) => UNCHANGED contract
  BY DEF Settle, SubmitCharge, HearCharge, ChargeTimesOut, SubmitRefund, HearRefund,
         RefundTimesOut, recordEscrowSettlement, Expire, Crash, JobOnly
<1>3. LandRefund(q) => UNCHANGED usage
  BY DEF LandRefund, Refund, contract
<1> QED
  BY <1>1, <1>2, <1>3 DEF QuoteStep, contract

LEMMA NextSettlement == SettlementInv /\ [SettlementNext]_allVars => SettlementInv'
<1> SUFFICES ASSUME SettlementInv, [SettlementNext]_allVars PROVE SettlementInv'
  OBVIOUS
<1>0. SettlementTypeOK /\ TypeOK /\ EventsOK /\ \A q \in Quote : QuoteInv(q)
  BY DEF SettlementInv, SettlementTypeOK
<1>1. ASSUME NEW q \in Quote, QuoteStep(q) PROVE SettlementInv'
  <2>1. Beside(q) /\ drained \subseteq drained'
    BY <1>0, <1>1, QuoteStepBeside
  <2>2. SettlementTypeOK' /\ QuoteInv(q)' /\ (ChargeStays(q) \/ LandCharge(q))
    BY <1>0, <1>1, QuoteStepKeeps
  <2>3. ASSUME NEW p \in Quote, p # q PROVE QuoteInv(p)' /\ ChargeStays(p)
    BY <1>0, <2>1, <2>2, <2>3, OtherQuote DEF Beside
  <2>4. CASE LandCharge(q)
    <3>1. EventsOK'
      BY <2>1, <2>4, LandChargeEvents
    <3> QED
      BY <2>2, <2>3, <3>1 DEF SettlementInv
  <2>5. CASE ~LandCharge(q)
    <3>1. UNCHANGED usage
      BY <1>1, <2>5, OnlyLandingLogs
    <3>2. EventsOK'
      BY <1>0, <2>2, <2>3, <2>5, <3>1, EventsStay
    <3> QED
      BY <2>2, <2>3, <3>2 DEF SettlementInv
  <2> QED
    BY <2>4, <2>5
<1>2. CASE Elsewhere
  <2>1. \A q \in Quote : QuoteInv(q)' /\ ChargeStays(q)
    BY <1>0, <1>2, ElsewhereKeeps
  <2>2. SettlementTypeOK' /\ UNCHANGED usage
    BY <1>0, <1>2, ElsewhereTypeOK
  <2>3. EventsOK'
    BY <1>0, <2>1, <2>2, EventsStay
  <2> QED
    BY <2>1, <2>2, <2>3 DEF SettlementInv
<1>3. CASE UNCHANGED allVars
  <2>1. SettlementTypeOK' /\ UNCHANGED usage
    BY <1>0, <1>3 DEF SettlementTypeOK, TypeOK, allVars, contract, gateway
  <2>2. \A q \in Quote : QuoteInv(q)' /\ ChargeStays(q)
    <3> SUFFICES ASSUME NEW q \in Quote PROVE QuoteInv(q)' /\ ChargeStays(q)
      OBVIOUS
    <3>1. balance[user(q)] \in Nat
      BY <1>0, JobTyped
    <3> QED
      BY <1>0, <1>3, <2>1, <3>1, OtherQuote DEF allVars, contract, gateway
  <2>3. EventsOK'
    BY <1>0, <2>1, <2>2, EventsStay
  <2> QED
    BY <2>1, <2>2, <2>3 DEF SettlementInv
<1> QED
  BY <1>1, <1>2, <1>3 DEF SettlementNext, QuoteStep

LEMMA InitSettlement == SettlementInit => SettlementInv
<1> SUFFICES ASSUME SettlementInit PROVE SettlementInv
  OBVIOUS
<1>1. SettlementTypeOK
  BY InitSettlementTypeOK
<1>2. ASSUME NEW q \in Quote PROVE QuoteInv(q)
  BY <1>2 DEF SettlementInit, Init, QuoteInv, DrawOK, JobOK, KeysOK, CreditOK, RefusalOK,
              Idle, NoJob, Confirmed, At
<1>3. EventsOK
  BY DEF SettlementInit, Init, EventsOK
<1> QED
  BY <1>1, <1>2, <1>3 DEF SettlementInv

LEMMA SettlementAlways == SettlementSpec => []SettlementInv
BY InitSettlement, NextSettlement, PTL DEF SettlementSpec

(* The draws, their rows, debts and settlements have their types, and the  *)
(* contract keeps its own under charges of any cost.                       *)
THEOREM SettlementTypeCorrect == SettlementSpec => []SettlementTypeOK
<1>1. SettlementInv => SettlementTypeOK
  BY DEF SettlementInv
<1> QED
  BY <1>1, SettlementAlways, PTL

(* Every charge on the chain is of an answered request that named the      *)
(* address charged, and of what that cost.                                 *)
THEOREM UsageIsServedAlways == SettlementSpec => []UsageIsServed
<1>1. SettlementInv => UsageIsServed
  <2> SUFFICES ASSUME SettlementInv, NEW u \in User, NEW i \in DOMAIN usage[u]
               PROVE  LET q == usage[u][i].quote_id
                      IN  /\ user(q) = u /\ draw[q].answered /\ row[q] = "confirmed"
                          /\ usage[u][i].amount = draw[q].cost
    BY DEF UsageIsServed
  <2> DEFINE q == usage[u][i].quote_id
  <2>1. q \in Quote /\ EventOK(u, usage[u][i]) /\ QuoteInv(q)
    BY EventTyped DEF SettlementInv, SettlementTypeOK, EventsOK
  <2>2. job[q].charge = "ok"
    BY <2>1 DEF EventOK
  <2>3. draw[q].answered /\ row[q] = "confirmed"
    BY <2>1, <2>2 DEF QuoteInv, JobOK, NoJob
  <2> QED
    BY <2>1, <2>3 DEF EventOK, user
<1> QED
  BY <1>1, SettlementAlways, PTL

(* The contract refuses an admitted draw for lack of credit only when the  *)
(* credit was drained or the cost is above the deposit, and never as a     *)
(* duplicate.                                                              *)
THEOREM RefusedOnlyIfDrainedAlways == SettlementSpec => []RefusedOnlyIfDrained
<1>1. SettlementInv => RefusedOnlyIfDrained
  BY DEF SettlementInv, QuoteInv, RefusalOK, RefusedOnlyIfDrained
<1> QED
  BY <1>1, SettlementAlways, PTL

(* A refund is on the chain only after its charge was decided there.       *)
THEOREM RefundFollowsChargeAlways == SettlementSpec => []RefundFollowsCharge
<1>1. SettlementInv => RefundFollowsCharge
  BY JobTyped DEF SettlementInv, QuoteInv, KeysOK, RefundFollowsCharge
<1> QED
  BY <1>1, SettlementAlways, PTL

(* Of a served draw the settlement runs, was lost with its process, or     *)
(* came to a charge, a refusal or a transaction.                           *)
THEOREM ServedIsSettledAlways == SettlementSpec => []ServedIsSettled
<1>1. SettlementInv => ServedIsSettled
  <2> SUFFICES ASSUME SettlementInv, NEW q \in Quote, At(q, "served")
               PROVE  \/ job[q].leg \in Running \union {"lost"}
                      \/ job[q].refusal # "none" \/ job[q].charge # "none"
    BY DEF ServedIsSettled
  <2>1. job[q] \in Job /\ QuoteInv(q) /\ job[q].leg # "none"
    BY JobTyped DEF SettlementInv, QuoteInv, DrawOK, At
  <2> QED
    BY <2>1 DEF QuoteInv, JobOK, Job, Running
<1> QED
  BY <1>1, SettlementAlways, PTL

===============================================================================
