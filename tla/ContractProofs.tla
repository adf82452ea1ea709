---------------------------- MODULE ContractProofs ----------------------------
(***************************************************************************)
(* The payout wallet's properties, for any accounts, signers, thresholds   *)
(* and amounts, and those of the verifier's audit trail, for any sets of   *)
(* addresses, hashes, amounts and page sizes.                              *)
(***************************************************************************)
EXTENDS Multisig, PaymentVerifier, TotalsTheorems

(* A vector with unique entries has as many signers as entries.            *)
LEMMA SignersCounted ==
    ASSUME NEW list \in Seq(Account)
    PROVE  /\ SignersOf(list) \subseteq Account
           /\ IsFiniteSet(SignersOf(list))
           /\ HasUniqueSigners(list) => Cardinality(SignersOf(list)) = Len(list)
<1>1. /\ Len(list) \in Nat
      /\ DOMAIN list = 1 .. Len(list)
      /\ list \in [1 .. Len(list) -> SignersOf(list)]
      /\ SignersOf(list) \subseteq Account
  BY DEF SignersOf
<1>2. IsFiniteSet(1 .. Len(list)) /\ Cardinality(1 .. Len(list)) = Len(list)
  BY <1>1, FS_Interval
<1>3. list \in Surjection(1 .. Len(list), SignersOf(list))
  BY <1>1 DEF Surjection, SignersOf
<1>4. IsFiniteSet(SignersOf(list))
  BY <1>2, <1>3, FS_Surjection
<1>5. ASSUME HasUniqueSigners(list)
      PROVE  Cardinality(SignersOf(list)) = Len(list)
  <2>1. list \in Bijection(1 .. Len(list), SignersOf(list))
    BY <1>1, <1>3, <1>5 DEF HasUniqueSigners, Bijection, Injection, IsInjective
  <2>2. ExistsBijection(1 .. Len(list), SignersOf(list))
    BY <2>1 DEF ExistsBijection
  <2> QED
    BY <1>2, <2>2, FS_Bijection
<1> QED
  BY <1>1, <1>4, <1>5

(* A configuration that passes validation can reach its threshold.         *)
LEMMA ValidConfigReachable ==
    ASSUME NEW list \in Seq(Account), NEW t \in Nat, ValidConfig(list, t)
    PROVE  1 <= t /\ t <= Cardinality(SignersOf(list))
BY SignersCounted DEF ValidConfig

(* More addresses having acted never shrinks what counts as a quorum.      *)
LEMMA QuorumGrows ==
    ASSUME NEW A, NEW B, NEW S, A \subseteq B, IsFiniteSet(B)
    PROVE  /\ Cardinality(A \intersect S) \in Nat
           /\ Cardinality(B \intersect S) \in Nat
           /\ Cardinality(A \intersect S) <= Cardinality(B \intersect S)
<1>1. IsFiniteSet(B \intersect S)
  BY FS_Intersection
<1>2. A \intersect S \in SUBSET (B \intersect S)
  OBVIOUS
<1>3. /\ IsFiniteSet(A \intersect S)
      /\ Cardinality(A \intersect S) <= Cardinality(B \intersect S)
  BY <1>1, <1>2, FS_Subset
<1> QED
  BY <1>1, <1>3, FS_CardinalityType

-------------------------------------------------------------------------------

(* The constructor leaves entries of the right type.                       *)
LEMMA InitTypeOK == Init => TypeOK
<1>1. InitialSigners \in Seq(Account)
  BY MultisigAssumption
<1>2. IsFiniteSet({})
  BY FS_EmptySet
<1> QED
  BY <1>1, <1>2, SignersCounted, MultisigAssumption DEF Init, TypeOK

(* Every operation keeps the types.                                        *)
LEMMA NextTypeOK == TypeOK /\ [Next]_vars => TypeOK'
<1> SUFFICES ASSUME TypeOK, [Next]_vars PROVE TypeOK'
  OBVIOUS
<1>1. ASSUME NEW n \in Amount, Fund(n) PROVE TypeOK'
  BY <1>1, MultisigAssumption DEF Fund, TypeOK
<1>2. ASSUME NEW destination \in Account, NEW amount \in Amount,
             Propose(destination, amount)
      PROVE  TypeOK'
  <2>1. [destination |-> destination, amount |-> amount,
         executed |-> FALSE, approvals |-> {}] \in Proposal
    BY <1>2, MultisigAssumption DEF Propose, Proposal
  <2>2. proposals' \in Seq(Proposal)
    BY <1>2, <2>1 DEF Propose, TypeOK
  <2> QED
    BY <1>2, <2>2 DEF Propose, TypeOK
<1>3. ASSUME NEW signer \in Account, NEW i \in DOMAIN proposals, Approve(signer, i)
      PROVE  TypeOK'
  <2> DEFINE approvals == proposals[i].approvals \union {signer}
             executes == Cardinality(approvals) >= threshold
  <2>1. Sign(signer, i, threshold)
    BY <1>3 DEF Approve
  <2>2. proposals[i] \in Proposal
    BY DEF TypeOK
  <2>3. [proposals[i] EXCEPT !.approvals = approvals, !.executed = executes] \in Proposal
    <3>1. approvals \in SUBSET Account /\ executes \in BOOLEAN
      BY <2>2 DEF Proposal
    <3> HIDE DEF approvals, executes
    <3> QED
      BY <2>2, <3>1 DEF Proposal
  <2>4. proposals' = [proposals EXCEPT ![i] =
           [proposals[i] EXCEPT !.approvals = approvals, !.executed = executes]]
    BY <2>1, <2>2 DEF Sign, TypeOK, Proposal
  <2>5. proposals' \in Seq(Proposal)
    BY <2>3, <2>4 DEF TypeOK
  <2>6. held' \in Nat
    BY <2>1, <2>2 DEF Sign, Outflow, Proposal, TypeOK
  <2>7. acted' \in SUBSET Account /\ IsFiniteSet(acted')
    BY <2>1, FS_AddElement DEF Sign, TypeOK
  <2> QED
    BY <2>1, <2>5, <2>6, <2>7 DEF Sign, TypeOK
<1>4. ASSUME NEW approvers \in SUBSET signers, NEW list \in SignerList,
             NEW new_threshold \in 0 .. Len(list) + 1,
             SetSigners(approvers, list, new_threshold)
      PROVE  TypeOK'
  <2>1. list \in Seq(Account)
    BY MultisigAssumption
  <2>2. signers' \in SUBSET Account /\ IsFiniteSet(signers')
    BY <1>4, <2>1, SignersCounted DEF SetSigners
  <2>3. acted' \in SUBSET Account /\ IsFiniteSet(acted')
    <3>1. IsFiniteSet(approvers)
      BY FS_Subset DEF TypeOK
    <3>2. IsFiniteSet(acted \union approvers)
      BY <3>1, FS_Union DEF TypeOK
    <3> QED
      BY <1>4, <3>2 DEF SetSigners, TypeOK
  <2> QED
    BY <1>4, <2>2, <2>3 DEF SetSigners, TypeOK
<1>5. ASSUME UNCHANGED vars PROVE TypeOK'
  BY <1>5 DEF TypeOK, vars
<1> QED
  BY <1>1, <1>2, <1>3, <1>4, <1>5 DEF Next

(* The wallet's state has its type.                                        *)
THEOREM TypeCorrect == Spec => []TypeOK
BY InitTypeOK, NextTypeOK, PTL DEF Spec

-------------------------------------------------------------------------------

(* No rotation locks the wallet: whatever signer vectors and thresholds    *)
(* are passed, the threshold is positive and within the signer set.        *)
THEOREM QuorumReachableAlways == Spec => []QuorumReachable
<1>1. Init => QuorumReachable
  BY ValidConfigReachable, MultisigAssumption DEF Init, QuorumReachable
<1>2. QuorumReachable /\ [Next]_vars => QuorumReachable'
  <2> SUFFICES ASSUME QuorumReachable, [Next]_vars PROVE QuorumReachable'
    OBVIOUS
  <2>1. ASSUME NEW approvers \in SUBSET signers, NEW list \in SignerList,
               NEW new_threshold \in 0 .. Len(list) + 1,
               SetSigners(approvers, list, new_threshold)
        PROVE  QuorumReachable'
    <3>1. list \in Seq(Account) /\ new_threshold \in Nat
      BY MultisigAssumption
    <3> QED
      BY <2>1, <3>1, ValidConfigReachable DEF SetSigners, QuorumReachable
  <2>2. ASSUME UNCHANGED <<signers, threshold>> PROVE QuorumReachable'
    BY <2>2 DEF QuorumReachable
  <2> QED
    BY <2>1, <2>2 DEF Next, Fund, Propose, Approve, Sign, vars
<1> QED
  BY <1>1, <1>2, PTL DEF Spec

-------------------------------------------------------------------------------

(* What an accepted approval changes, field by field.                      *)
LEMMA SignEffect ==
    ASSUME TypeOK, NEW signer \in Account, NEW i \in DOMAIN proposals,
           Sign(signer, i, threshold)
    PROVE  /\ proposals' \in Seq(Proposal)
           /\ DOMAIN proposals' = DOMAIN proposals
           /\ \A j \in DOMAIN proposals : j # i => proposals'[j] = proposals[j]
           /\ proposals'[i].approvals = proposals[i].approvals \union {signer}
           /\ proposals'[i].executed =
                 (Cardinality(proposals[i].approvals \union {signer}) >= threshold)
           /\ proposals'[i].destination = proposals[i].destination
           /\ proposals'[i].amount = proposals[i].amount
<1> DEFINE approvals == proposals[i].approvals \union {signer}
           executes == Cardinality(approvals) >= threshold
           signed == [proposals[i] EXCEPT !.approvals = approvals, !.executed = executes]
<1>1. proposals[i] \in Proposal /\ proposals \in Seq(Proposal)
  BY DEF TypeOK
<1>2. proposals' = [proposals EXCEPT ![i] = signed]
  BY <1>1 DEF Sign, Proposal
<1>3. approvals \in SUBSET Account /\ executes \in BOOLEAN
  BY <1>1 DEF Proposal
<1>4. /\ signed.approvals = approvals
      /\ signed.executed = executes
      /\ signed.destination = proposals[i].destination
      /\ signed.amount = proposals[i].amount
      /\ signed \in Proposal
  <2> HIDE DEF approvals, executes
  <2> QED
    BY <1>1, <1>3 DEF Proposal
<1> HIDE DEF signed
<1>5. /\ proposals' \in Seq(Proposal)
      /\ DOMAIN proposals' = DOMAIN proposals
      /\ proposals'[i] = signed
      /\ \A j \in DOMAIN proposals : j # i => proposals'[j] = proposals[j]
  BY <1>1, <1>2, <1>4
<1> QED
  BY <1>4, <1>5

(* A proposal executes at a quorum of approvals and never changes after    *)
(* that, for any signers and thresholds (approve).                         *)
THEOREM ExecutesAtQuorumAlways == Spec => ExecutesAtQuorum
<1> DEFINE Step == \A i \in DOMAIN proposals :
                      /\ proposals'[i] # proposals[i] => ~proposals[i].executed
                      /\ proposals'[i].executed /\ ~proposals[i].executed =>
                            Cardinality(proposals'[i].approvals) >= threshold
<1>1. TypeOK /\ [Next]_vars => [Step]_vars
  <2> SUFFICES ASSUME TypeOK, Next, NEW i \in DOMAIN proposals
               PROVE  /\ proposals'[i] # proposals[i] => ~proposals[i].executed
                      /\ proposals'[i].executed /\ ~proposals[i].executed =>
                            Cardinality(proposals'[i].approvals) >= threshold
    OBVIOUS
  <2>1. CASE UNCHANGED proposals
    BY <2>1
  <2>2. ASSUME NEW destination, NEW amount, Propose(destination, amount)
        PROVE  proposals'[i] = proposals[i]
    BY <2>2 DEF TypeOK, Propose
  <2>3. ASSUME NEW signer \in Account, NEW k \in DOMAIN proposals, Approve(signer, k), k # i
        PROVE  proposals'[i] = proposals[i]
    BY <2>3, SignEffect DEF Approve
  <2>4. ASSUME NEW signer \in Account, Approve(signer, i)
        PROVE  /\ ~proposals[i].executed
               /\ proposals'[i].executed => Cardinality(proposals'[i].approvals) >= threshold
    BY <2>4, SignEffect DEF Approve
  <2>5. CASE \E signer \in Account, k \in DOMAIN proposals : Approve(signer, k)
    BY <2>5, <2>3, <2>4
  <2>6. CASE \E destination \in Account, amount \in Amount : Propose(destination, amount)
    BY <2>6, <2>2
  <2> QED
    BY <2>1, <2>5, <2>6 DEF Next, Fund, SetSigners
<1> QED
  BY <1>1, TypeCorrect, PTL DEF Spec, ExecutesAtQuorum

(* Nothing has happened yet that needed a quorum, and whoever approved was *)
(* one of the constructor's signers; or a quorum of them has acted.        *)
QuorumInv ==
    /\ \A i \in DOMAIN proposals : proposals[i].approvals \subseteq acted
    /\ \/ /\ Untouched
          /\ \A i \in DOMAIN proposals :
                proposals[i].approvals \subseteq SignersOf(InitialSigners)
       \/ Cardinality(acted \intersect SignersOf(InitialSigners)) >= InitialThreshold

(* Every operation keeps it: the first that needs a quorum finds one among *)
(* the constructor's signers, and what has acted only grows.               *)
LEMMA NextQuorum == TypeOK /\ QuorumInv /\ [Next]_vars => QuorumInv'
<1> SUFFICES ASSUME TypeOK, QuorumInv, [Next]_vars PROVE QuorumInv'
  OBVIOUS
<1> DEFINE First == SignersOf(InitialSigners)
           Acted == Cardinality(acted \intersect First) >= InitialThreshold
<1>1. InitialThreshold \in Nat
  BY MultisigAssumption
<1>2. ASSUME acted \subseteq acted', IsFiniteSet(acted'), Acted PROVE Acted'
  <2>1. /\ Cardinality(acted \intersect First) \in Nat
        /\ Cardinality(acted' \intersect First) \in Nat
        /\ Cardinality(acted \intersect First) <= Cardinality(acted' \intersect First)
    BY <1>2, QuorumGrows
  <2> QED
    BY <1>1, <1>2, <2>1
<1>3. ASSUME NEW S, S \subseteq First, S \subseteq acted', IsFiniteSet(acted'),
             Cardinality(S) >= InitialThreshold
      PROVE  Acted'
  <2>1. S \intersect First = S
    BY <1>3
  <2>2. /\ Cardinality(S \intersect First) \in Nat
        /\ Cardinality(acted' \intersect First) \in Nat
        /\ Cardinality(S \intersect First) <= Cardinality(acted' \intersect First)
    BY <1>3, QuorumGrows
  <2> QED
    BY <1>1, <1>3, <2>1, <2>2
<1>4. ASSUME NEW n \in Amount, Fund(n) PROVE QuorumInv'
  BY <1>4 DEF Fund, QuorumInv, Untouched
<1>5. ASSUME NEW destination \in Account, NEW amount \in Amount,
             Propose(destination, amount)
      PROVE  QuorumInv'
  <2>1. /\ DOMAIN proposals' = DOMAIN proposals \union {Len(proposals) + 1}
        /\ \A j \in DOMAIN proposals : proposals'[j] = proposals[j]
        /\ proposals'[Len(proposals) + 1].approvals = {}
        /\ ~proposals'[Len(proposals) + 1].executed
    BY <1>5 DEF Propose, TypeOK
  <2>2. UNCHANGED <<signers, threshold, acted>>
    BY <1>5 DEF Propose
  <2> QED
    BY <2>1, <2>2 DEF QuorumInv, Untouched
<1>6. ASSUME NEW signer \in Account, NEW i \in DOMAIN proposals, Approve(signer, i)
      PROVE  QuorumInv'
  <2>1. Sign(signer, i, threshold) /\ signer \in signers
    BY <1>6 DEF Approve
  <2>2. acted' = acted \union {signer} /\ UNCHANGED <<signers, threshold>>
    BY <2>1 DEF Sign
  <2>3. IsFiniteSet(acted')
    BY NextTypeOK DEF TypeOK
  <2>4. /\ DOMAIN proposals' = DOMAIN proposals
        /\ \A j \in DOMAIN proposals : j # i => proposals'[j] = proposals[j]
        /\ proposals'[i].approvals = proposals[i].approvals \union {signer}
        /\ proposals'[i].executed =
              (Cardinality(proposals[i].approvals \union {signer}) >= threshold)
    BY <2>1, SignEffect
  <2>5. \A j \in DOMAIN proposals' : proposals'[j].approvals \subseteq acted'
    BY <2>2, <2>4 DEF QuorumInv
  <2>6. CASE Acted
    BY <1>2, <2>2, <2>3, <2>5, <2>6 DEF QuorumInv
  <2>7. CASE ~Acted
    <3>1. /\ signers = First /\ threshold = InitialThreshold
          /\ \A j \in DOMAIN proposals : /\ ~proposals[j].executed
                                         /\ proposals[j].approvals \subseteq First
      BY <2>7 DEF QuorumInv, Untouched
    <3>2. \A j \in DOMAIN proposals' : proposals'[j].approvals \subseteq First
      BY <2>1, <2>4, <3>1
    <3>3. CASE proposals'[i].executed
      <4>1. Cardinality(proposals'[i].approvals) >= InitialThreshold
        BY <2>4, <3>1, <3>3
      <4>2. Acted'
        BY <1>3, <2>3, <2>4, <2>5, <3>2, <4>1
      <4> QED
        BY <2>5, <4>2 DEF QuorumInv
    <3>4. CASE ~proposals'[i].executed
      <4>1. Untouched'
        BY <2>2, <2>4, <3>1, <3>4 DEF Untouched
      <4> QED
        BY <2>5, <3>2, <4>1 DEF QuorumInv
    <3> QED
      BY <3>3, <3>4
  <2> QED
    BY <2>6, <2>7
<1>7. ASSUME NEW approvers \in SUBSET signers, NEW list \in SignerList,
             NEW new_threshold \in 0 .. Len(list) + 1,
             SetSigners(approvers, list, new_threshold)
      PROVE  QuorumInv'
  <2>1. /\ acted' = acted \union approvers
        /\ proposals' = proposals
        /\ Cardinality(approvers) >= threshold
    BY <1>7 DEF SetSigners
  <2>2. IsFiniteSet(acted')
    BY NextTypeOK DEF TypeOK
  <2>3. \A j \in DOMAIN proposals' : proposals'[j].approvals \subseteq acted'
    BY <2>1 DEF QuorumInv
  <2>4. CASE Acted
    BY <1>2, <2>1, <2>2, <2>3, <2>4 DEF QuorumInv
  <2>5. CASE ~Acted
    <3>1. signers = First /\ threshold = InitialThreshold
      BY <2>5 DEF QuorumInv, Untouched
    <3>2. Acted'
      BY <1>3, <2>1, <2>2, <3>1
    <3> QED
      BY <2>3, <3>2 DEF QuorumInv
  <2> QED
    BY <2>4, <2>5
<1>8. ASSUME UNCHANGED vars PROVE QuorumInv'
  BY <1>8 DEF QuorumInv, Untouched, vars
<1> QED
  BY <1>4, <1>5, <1>6, <1>7, <1>8 DEF Next

(* Fewer than the constructor's threshold of the constructor's signers can *)
(* neither pay anything out nor change the configuration, in any number of *)
(* calls by anybody.                                                       *)
THEOREM InitialQuorumAlways == Spec => []InitialQuorumActed
<1>1. Init => QuorumInv
  BY DEF Init, QuorumInv, Untouched
<1>2. QuorumInv => InitialQuorumActed
  BY DEF QuorumInv, InitialQuorumActed
<1> QED
  BY <1>1, <1>2, NextQuorum, TypeCorrect, PTL DEF Spec

-------------------------------------------------------------------------------

(* What the executed proposals name is a sum over finitely many, and adds  *)
(* up to what has left the wallet.                                         *)
PaidInv == IsFiniteSet(Units(PaidOut)) /\ ExecutedPaidOnce

(* What has been paid is an amount for every proposal.                     *)
LEMMA PaidOutType ==
    ASSUME TypeOK
    PROVE  PaidOut \in [DOMAIN proposals -> Nat]
<1>1. \A i \in DOMAIN proposals : proposals[i] \in Proposal
  BY DEF TypeOK
<1> QED
  BY <1>1 DEF PaidOut, Outflow, Proposal

(* A new proposal has paid nothing; an approval pays what its proposal     *)
(* names or nothing.                                                       *)
LEMMA NextPaid == TypeOK /\ PaidInv /\ [Next]_vars => PaidInv'
<1> SUFFICES ASSUME TypeOK, PaidInv, [Next]_vars PROVE PaidInv'
  OBVIOUS
<1>1. PaidOut \in [DOMAIN proposals -> Nat]
  BY PaidOutType
<1>2. TypeOK'
  BY NextTypeOK
<1>3. PaidOut' \in [DOMAIN proposals' -> Nat]
  <2>1. \A i \in DOMAIN proposals' : proposals'[i] \in Proposal
    BY <1>2 DEF TypeOK
  <2> QED
    BY <2>1 DEF PaidOut, Outflow, Proposal
<1>4. Total(PaidOut) \in Nat /\ held \in Nat /\ funded \in Nat
  BY FS_CardinalityType DEF PaidInv, Total, TypeOK
<1>5. ASSUME NEW n \in Amount, Fund(n) PROVE PaidInv'
  <2>1. PaidOut' = PaidOut
    BY <1>5 DEF Fund, PaidOut, Outflow
  <2>2. held' = held + n /\ funded' = funded + n /\ n \in Int
    BY <1>5, MultisigAssumption DEF Fund
  <2>3. Total(PaidOut') = Total(PaidOut) /\ IsFiniteSet(Units(PaidOut'))
    BY <2>1 DEF PaidInv
  <2> QED
    BY <1>4, <2>2, <2>3 DEF PaidInv, ExecutedPaidOnce
<1>6. ASSUME NEW destination \in Account, NEW amount \in Amount,
             Propose(destination, amount)
      PROVE  PaidInv'
  <2> DEFINE k == Len(proposals) + 1
  <2>1. /\ k \notin DOMAIN proposals
        /\ DOMAIN proposals' = DOMAIN proposals \union {k}
        /\ \A j \in DOMAIN proposals : proposals'[j] = proposals[j]
        /\ ~proposals'[k].executed
    BY <1>6 DEF Propose, TypeOK
  <2>2. /\ PaidOut'[k] = 0
        /\ \A j \in DOMAIN proposals : PaidOut'[j] = PaidOut[j]
    BY <2>1 DEF PaidOut, Outflow
  <2> HIDE DEF k
  <2>3. IsFiniteSet(Units(PaidOut')) /\ Total(PaidOut') = Total(PaidOut) + 0
    <3> DEFINE f == PaidOut
               g == PaidOut'
    <3>1. /\ f \in [DOMAIN proposals -> Nat] /\ g \in [DOMAIN proposals' -> Nat]
          /\ k \in DOMAIN proposals' /\ IsFiniteSet(Units(f))
          /\ \A y \in DOMAIN proposals : y # k => g[y] = f[y]
          /\ g[k] = (IF k \in DOMAIN proposals THEN f[k] ELSE 0) + 0
      BY <1>1, <1>3, <2>1, <2>2 DEF PaidInv
    <3> HIDE DEF f, g
    <3>2. IsFiniteSet(Units(g)) /\ Total(g) = Total(f) + 0
      BY <2>1, <3>1, TotalCredit
    <3> QED
      BY <3>2 DEF f, g
  <2>4. UNCHANGED <<held, funded>>
    BY <1>6 DEF Propose
  <2> QED
    BY <1>4, <2>3, <2>4 DEF PaidInv, ExecutedPaidOnce
<1>7. ASSUME NEW signer \in Account, NEW i \in DOMAIN proposals, Approve(signer, i)
      PROVE  PaidInv'
  <2> DEFINE n == IF proposals'[i].executed THEN Outflow(proposals[i]) ELSE 0
  <2>1. Sign(signer, i, threshold) /\ ~proposals[i].executed
    BY <1>7 DEF Approve
  <2>2. /\ DOMAIN proposals' = DOMAIN proposals
        /\ \A j \in DOMAIN proposals : j # i => proposals'[j] = proposals[j]
        /\ proposals'[i].destination = proposals[i].destination
        /\ proposals'[i].amount = proposals[i].amount
    BY <2>1, SignEffect
  <2>3. /\ PaidOut[i] = 0
        /\ PaidOut'[i] = n
        /\ \A j \in DOMAIN proposals : j # i => PaidOut'[j] = PaidOut[j]
    BY <2>1, <2>2 DEF PaidOut, Outflow
  <2>4. n \in Nat
    BY <1>3, <2>2, <2>3
  <2>5. held' = held - n /\ funded' = funded
    <3>1. proposals'[i].executed =
             (Cardinality(proposals[i].approvals \union {signer}) >= threshold)
      BY <2>1, SignEffect
    <3>2. /\ held' = IF Cardinality(proposals[i].approvals \union {signer}) >= threshold
                     THEN held - Outflow(proposals[i]) ELSE held
          /\ funded' = funded
      BY <2>1 DEF Sign
    <3>3. CASE proposals'[i].executed
      BY <3>1, <3>2, <3>3
    <3>4. CASE ~proposals'[i].executed
      <4>1. held' = held
        BY <3>1, <3>2, <3>4
      <4>2. n = 0
        BY <3>4
      <4>3. held - 0 = held
        BY <1>4
      <4> QED
        BY <3>2, <4>1, <4>2, <4>3
    <3> QED
      BY <3>3, <3>4
  <2> HIDE DEF n
  <2>6. IsFiniteSet(Units(PaidOut')) /\ Total(PaidOut') = Total(PaidOut) + n
    <3> DEFINE f == PaidOut
               g == PaidOut'
    <3>1. /\ f \in [DOMAIN proposals -> Nat] /\ g \in [DOMAIN proposals -> Nat]
          /\ IsFiniteSet(Units(f))
          /\ \A y \in DOMAIN proposals : y # i => g[y] = f[y]
          /\ g[i] = (IF i \in DOMAIN proposals THEN f[i] ELSE 0) + n
          /\ DOMAIN proposals = DOMAIN proposals \union {i}
      BY <1>1, <1>3, <2>2, <2>3, <2>4 DEF PaidInv
    <3> HIDE DEF f, g
    <3>2. IsFiniteSet(Units(g)) /\ Total(g) = Total(f) + n
      BY <2>4, <3>1, TotalCredit
    <3> QED
      BY <3>2 DEF f, g
  <2> QED
    BY <1>4, <2>4, <2>5, <2>6 DEF PaidInv, ExecutedPaidOnce
<1>8. ASSUME UNCHANGED <<proposals, held, funded>> PROVE PaidInv'
  BY <1>8 DEF PaidInv, ExecutedPaidOnce, PaidOut, Outflow
<1> QED
  BY <1>5, <1>6, <1>7, <1>8 DEF Next, SetSigners, vars

(* Every executed proposal has been paid exactly once, and nothing else    *)
(* has left the wallet.                                                    *)
THEOREM ExecutedPaidOnceAlways == Spec => []ExecutedPaidOnce
<1>1. Init => PaidInv
  <2> SUFFICES ASSUME Init PROVE PaidInv
    OBVIOUS
  <2>1. PaidOut \in [DOMAIN proposals -> Nat] /\ DOMAIN proposals = {}
    BY DEF Init, PaidOut
  <2>2. IsFiniteSet(Units(PaidOut)) /\ Total(PaidOut) = 0
    BY <2>1, TotalZero
  <2> QED
    BY <2>2 DEF Init, PaidInv, ExecutedPaidOnce
<1>2. PaidInv => ExecutedPaidOnce
  BY DEF PaidInv
<1> QED
  BY <1>1, <1>2, NextPaid, TypeCorrect, PTL DEF Spec

-------------------------------------------------------------------------------

(* A page is a run of records that starts at the offset and stays inside   *)
(* the trail, and it is empty when the offset is not before the end.       *)
LEMMA PageIsRun ==
    ASSUME VerifierTypeOK, NEW offset \in Nat, NEW limit \in Limit
    PROVE  LET page == get_payments(offset, limit)
           IN  /\ page \in Seq(Payment)
               /\ offset + Len(page) <= count \/ page = <<>>
               /\ \A i \in DOMAIN page : /\ offset + i \in DOMAIN payments
                                         /\ page[i] = payments[offset + i]
<1> DEFINE end == SmallerOf(saturating_add(offset, SmallerOf(limit, MAX_PAGE_SIZE)), count)
           page == SubSeq(payments, offset + 1, end)
<1>1. /\ limit \in Nat /\ MAX_PAGE_SIZE \in Nat /\ U32_MAX \in Nat
      /\ payments \in Seq(Payment) /\ count \in Nat
  BY VerifierAssumption DEF VerifierTypeOK, count
<1>2. SmallerOf(limit, MAX_PAGE_SIZE) \in Nat
  BY <1>1 DEF SmallerOf
<1>3. saturating_add(offset, SmallerOf(limit, MAX_PAGE_SIZE)) \in Nat
  BY <1>1, <1>2 DEF saturating_add, SmallerOf
<1>4. end \in Nat /\ end <= count
  BY <1>1, <1>3 DEF SmallerOf
<1> HIDE DEF end
<1>5. CASE offset + 1 > end
  <2>1. page = <<>>
    BY <1>1, <1>4, <1>5
  <2>2. get_payments(offset, limit) = <<>>
    BY <2>1 DEF get_payments, end
  <2>3. <<>> \in Seq(Payment) /\ DOMAIN <<>> = {}
    OBVIOUS
  <2> QED
    BY <2>2, <2>3
<1>6. CASE offset + 1 <= end
  <2>1. /\ page \in Seq(Payment)
        /\ Len(page) = end - offset
        /\ \A i \in 1 .. end - offset : page[i] = payments[offset + i]
    BY <1>1, <1>4, <1>6 DEF count
  <2>2. \A i \in DOMAIN page : /\ offset + i \in DOMAIN payments
                               /\ page[i] = payments[offset + i]
    BY <1>1, <1>4, <2>1 DEF count
  <2>3. offset + Len(page) <= count
    BY <1>1, <1>4, <2>1
  <2> QED
    BY <2>1, <2>2, <2>3 DEF get_payments, end
<1> QED
  BY <1>1, <1>4, <1>5, <1>6

-------------------------------------------------------------------------------

(* The constructor leaves entries of the right type.                       *)
LEMMA VerifierInitTypeOK == VerifierInit => VerifierTypeOK
BY VerifierAssumption DEF VerifierInit, VerifierTypeOK, Config

(* Where a refund finds its record.                                        *)
LEMMA RefundEffect ==
    ASSUME VerifierTypeOK, ReplaySetMatchesTrail, NEW signer, NEW hash,
           RefundPayment(signer, hash)
    PROVE  \E k \in DOMAIN payments :
              /\ ~payments[k].refunded
              /\ payments' \in Seq(Payment)
              /\ DOMAIN payments' = DOMAIN payments
              /\ Len(payments') = Len(payments)
              /\ payments'[k] = [payments[k] EXCEPT !.refunded = TRUE]
              /\ \A i \in DOMAIN payments : i # k => payments'[i] = payments[i]
<1> DEFINE k == tx_idx[hash] + 1
           refunded == [payments[k] EXCEPT !.refunded = TRUE]
<1>1. k \in DOMAIN payments
  BY DEF RefundPayment, ReplaySetMatchesTrail
<1>2. ~payments[k].refunded /\ payments' = [payments EXCEPT ![k] = refunded]
  BY DEF RefundPayment
<1>3. payments \in Seq(Payment) /\ payments[k] \in Payment
  BY <1>1 DEF VerifierTypeOK
<1> HIDE DEF k
<1>4. refunded \in Payment
  BY <1>3 DEF Payment
<1> HIDE DEF refunded
<1>5. /\ payments' \in Seq(Payment)
      /\ DOMAIN payments' = DOMAIN payments
      /\ Len(payments') = Len(payments)
      /\ payments'[k] = refunded
      /\ \A i \in DOMAIN payments : i # k => payments'[i] = payments[i]
  BY <1>1, <1>2, <1>3, <1>4
<1> QED
  BY <1>1, <1>2, <1>5 DEF refunded

(* What recording a payment adds.                                          *)
LEMMA RecordEffect ==
    ASSUME VerifierTypeOK, NEW signer, NEW hash \in Hash, NEW n \in PaidAmount,
           RecordPayment(signer, hash, n)
    PROVE  /\ hash \notin used
           /\ used' = used \union {hash}
           /\ payments' \in Seq(Payment)
           /\ Len(payments') = Len(payments) + 1
           /\ DOMAIN payments' = DOMAIN payments \union {count + 1}
           /\ count + 1 \notin DOMAIN payments
           /\ payments'[count + 1].tx_hash = hash
           /\ \A i \in DOMAIN payments : payments'[i] = payments[i]
           /\ DOMAIN tx_idx' = DOMAIN tx_idx \union {hash}
           /\ tx_idx'[hash] = count
           /\ \A h \in DOMAIN tx_idx : h # hash => tx_idx'[h] = tx_idx[h]
<1> DEFINE record == [tx_hash |-> hash, amount |-> n, refunded |-> FALSE]
<1>1. payments' = Append(payments, record) /\ payments \in Seq(Payment)
  BY DEF RecordPayment, VerifierTypeOK
<1>2. record \in Payment /\ record.tx_hash = hash
  BY VerifierAssumption DEF RecordPayment, Payment
<1> HIDE DEF record
<1>3. /\ payments' \in Seq(Payment)
      /\ Len(payments') = Len(payments) + 1
      /\ DOMAIN payments' = DOMAIN payments \union {count + 1}
      /\ count + 1 \notin DOMAIN payments
      /\ payments'[count + 1] = record
      /\ \A i \in DOMAIN payments : payments'[i] = payments[i]
  BY <1>1, <1>2 DEF count
<1>4. tx_idx' = [h \in DOMAIN tx_idx \union {hash} |->
                    IF h = hash THEN count ELSE tx_idx[h]]
  BY DEF RecordPayment
<1>5. hash \notin used /\ used' = used \union {hash}
  BY DEF RecordPayment
<1> QED
  BY <1>2, <1>3, <1>4, <1>5

(* The types and the agreement of set, index and trail, which only hold    *)
(* together: a refund writes where the index leads.                        *)
TrailInv == VerifierTypeOK /\ ReplaySetMatchesTrail

LEMMA NextTrail == TrailInv /\ [VerifierNext]_verifier => TrailInv'
<1> SUFFICES ASSUME VerifierTypeOK, ReplaySetMatchesTrail, [VerifierNext]_verifier
             PROVE  VerifierTypeOK' /\ ReplaySetMatchesTrail'
  BY DEF TrailInv
<1>1. ASSUME NEW signer \in Address, NEW hash \in Hash, NEW n \in PaidAmount,
             RecordPayment(signer, hash, n)
      PROVE  VerifierTypeOK' /\ ReplaySetMatchesTrail'
  <2>1. UNCHANGED <<config, cursor, collected>>
    BY <1>1 DEF RecordPayment, reader
  <2>2. payments' \in Seq(Payment) /\ used' = used \union {hash}
    BY <1>1, RecordEffect
  <2>3. count \in Nat
    BY DEF count, VerifierTypeOK
  <2>4. tx_idx' \in [DOMAIN tx_idx' -> Nat] /\ DOMAIN tx_idx' \in SUBSET Hash
    <3>1. tx_idx' = [h \in DOMAIN tx_idx \union {hash} |->
                        IF h = hash THEN count ELSE tx_idx[h]]
      BY <1>1 DEF RecordPayment
    <3> QED
      BY <2>3, <3>1 DEF VerifierTypeOK
  <2>5. VerifierTypeOK'
    BY <2>1, <2>2, <2>4 DEF VerifierTypeOK
  <2>6. /\ hash \notin used
        /\ DOMAIN payments' = DOMAIN payments \union {count + 1}
        /\ count + 1 \notin DOMAIN payments
        /\ payments'[count + 1].tx_hash = hash
        /\ \A i \in DOMAIN payments : payments'[i] = payments[i]
        /\ DOMAIN tx_idx' = DOMAIN tx_idx \union {hash}
        /\ tx_idx'[hash] = count
        /\ \A h \in DOMAIN tx_idx : h # hash => tx_idx'[h] = tx_idx[h]
    BY <1>1, RecordEffect
  <2>7. used' = DOMAIN tx_idx'
    BY <2>2, <2>6 DEF ReplaySetMatchesTrail
  <2>8. ASSUME NEW h \in used'
        PROVE  tx_idx'[h] + 1 \in DOMAIN payments' /\ payments'[tx_idx'[h] + 1].tx_hash = h
    <3>1. CASE h = hash
      BY <2>6, <3>1
    <3>2. CASE h # hash
      BY <2>2, <2>6, <3>2 DEF ReplaySetMatchesTrail
    <3> QED
      BY <3>1, <3>2
  <2>9. ASSUME NEW i \in DOMAIN payments'
        PROVE  payments'[i].tx_hash \in used' /\ tx_idx'[payments'[i].tx_hash] = i - 1
    <3>1. CASE i = count + 1
      BY <2>2, <2>3, <2>6, <3>1
    <3>2. CASE i \in DOMAIN payments
      BY <2>2, <2>6, <3>2 DEF ReplaySetMatchesTrail
    <3> QED
      BY <2>6, <3>1, <3>2
  <2> QED
    BY <2>5, <2>7, <2>8, <2>9 DEF ReplaySetMatchesTrail
<1>2. ASSUME NEW signer \in Address, NEW hash \in Hash, RefundPayment(signer, hash)
      PROVE  VerifierTypeOK' /\ ReplaySetMatchesTrail'
  <2>1. UNCHANGED <<config, used, tx_idx, cursor, collected>>
    BY <1>2 DEF RefundPayment, reader
  <2>2. PICK k \in DOMAIN payments :
              /\ payments' \in Seq(Payment)
              /\ DOMAIN payments' = DOMAIN payments
              /\ payments'[k] = [payments[k] EXCEPT !.refunded = TRUE]
              /\ \A i \in DOMAIN payments : i # k => payments'[i] = payments[i]
    BY <1>2, RefundEffect
  <2>3. payments[k] \in Payment
    BY DEF VerifierTypeOK
  <2>4. \A i \in DOMAIN payments : payments'[i].tx_hash = payments[i].tx_hash
    BY <2>2, <2>3 DEF Payment
  <2>5. VerifierTypeOK'
    BY <2>1, <2>2 DEF VerifierTypeOK
  <2> QED
    BY <2>1, <2>2, <2>4, <2>5 DEF ReplaySetMatchesTrail
<1>3. ASSUME NEW signer \in Address, NEW new_admin \in Address, SetAdmin(signer, new_admin)
      PROVE  VerifierTypeOK' /\ ReplaySetMatchesTrail'
  BY <1>3 DEF SetAdmin, VerifierTypeOK, Config, ReplaySetMatchesTrail, reader
<1>4. ASSUME NEW signer \in Address, NEW paused \in BOOLEAN, SetPaused(signer, paused)
      PROVE  VerifierTypeOK' /\ ReplaySetMatchesTrail'
  BY <1>4 DEF SetPaused, VerifierTypeOK, Config, ReplaySetMatchesTrail, reader
<1>5. ASSUME NEW limit \in Limit, ReadPage(limit)
      PROVE  VerifierTypeOK' /\ ReplaySetMatchesTrail'
  <2> DEFINE page == get_payments(cursor, limit)
  <2>1. page \in Seq(Payment)
    BY PageIsRun DEF VerifierTypeOK
  <2>2. /\ UNCHANGED <<config, used, tx_idx, payments>>
        /\ collected' = collected \o page
        /\ cursor' = cursor + Len(page)
    BY <1>5 DEF ReadPage
  <2> HIDE DEF page
  <2> QED
    BY <2>1, <2>2 DEF VerifierTypeOK, ReplaySetMatchesTrail
<1>6. ASSUME UNCHANGED verifier PROVE VerifierTypeOK' /\ ReplaySetMatchesTrail'
  BY <1>6 DEF verifier, VerifierTypeOK, ReplaySetMatchesTrail
<1> QED
  BY <1>1, <1>2, <1>3, <1>4, <1>5, <1>6 DEF VerifierNext

(* The types and the agreement hold in every reachable state.              *)
LEMMA TrailInvAlways == VerifierSpec => []TrailInv
<1>1. VerifierInit => TrailInv
  BY VerifierInitTypeOK DEF VerifierInit, TrailInv, ReplaySetMatchesTrail
<1> QED
  BY <1>1, NextTrail, PTL DEF VerifierSpec

(* The contract's entries and what the reader holds have their types.      *)
THEOREM VerifierTypeCorrect == VerifierSpec => []VerifierTypeOK
<1>1. TrailInv => VerifierTypeOK
  BY DEF TrailInv
<1> QED
  BY <1>1, TrailInvAlways, PTL

(* A hash is consumed exactly when the trail has its one record, whatever  *)
(* is recorded, refunded, paused or handed to another admin.               *)
THEOREM ReplaySetMatchesTrailAlways == VerifierSpec => []ReplaySetMatchesTrail
<1>1. TrailInv => ReplaySetMatchesTrail
  BY DEF TrailInv
<1> QED
  BY <1>1, TrailInvAlways, PTL

(* The trail only grows, a record changes only by being refunded once, and *)
(* a consumed hash stays consumed.                                         *)
THEOREM TrailAppendOnlyAlways == VerifierSpec => TrailAppendOnly
<1> DEFINE Grows ==
             /\ used \subseteq used'
             /\ Len(payments') \in {Len(payments), Len(payments) + 1}
             /\ \A i \in DOMAIN payments :
                   payments'[i] # payments[i] =>
                      /\ ~payments[i].refunded
                      /\ payments'[i] = [payments[i] EXCEPT !.refunded = TRUE]
<1>1. TrailInv /\ [VerifierNext]_verifier => [Grows]_verifier
  <2> SUFFICES ASSUME VerifierTypeOK, ReplaySetMatchesTrail, VerifierNext PROVE Grows
    BY DEF TrailInv
  <2>1. ASSUME NEW signer \in Address, NEW hash \in Hash, NEW n \in PaidAmount,
               RecordPayment(signer, hash, n)
        PROVE  Grows
    BY <2>1, RecordEffect
  <2>2. ASSUME NEW signer \in Address, NEW hash \in Hash, RefundPayment(signer, hash)
        PROVE  Grows
    <3>1. used' = used
      BY <2>2 DEF RefundPayment
    <3> QED
      BY <2>2, <3>1, RefundEffect
  <2>3. ASSUME used' = used, payments' = payments PROVE Grows
    BY <2>3
  <2> QED
    BY <2>1, <2>2, <2>3 DEF VerifierNext, SetAdmin, SetPaused, ReadPage
<1> QED
  BY <1>1, TrailInvAlways, PTL DEF VerifierSpec, TrailAppendOnly

-------------------------------------------------------------------------------

(* The entries of a concatenation.                                         *)
LEMMA ConcatEntries ==
    ASSUME NEW S, NEW s \in Seq(S), NEW t \in Seq(S)
    PROVE  /\ Len(s \o t) = Len(s) + Len(t)
           /\ DOMAIN (s \o t) = 1 .. Len(s) + Len(t)
           /\ \A i \in 1 .. Len(s) : (s \o t)[i] = s[i]
           /\ \A i \in 1 .. Len(s) + Len(t) : i > Len(s) => (s \o t)[i] = t[i - Len(s)]
<1>1. s \o t \in Seq(S) /\ Len(s \o t) = Len(s) + Len(t)
  OBVIOUS
<1>2. DOMAIN (s \o t) = 1 .. Len(s) + Len(t)
  BY <1>1
<1>3. \A i \in 1 .. Len(s) : (s \o t)[i] = s[i]
  OBVIOUS
<1>4. \A i \in 1 .. Len(s) + Len(t) : i > Len(s) => (s \o t)[i] = t[i - Len(s)]
  OBVIOUS
<1> QED
  BY <1>1, <1>2, <1>3, <1>4

(* A page extends the walk by the records that follow it; a refund between *)
(* two pages turns no copy the reader holds into a refunded one.           *)
LEMMA NextWalk == TrailInv /\ WalkHasNoGap /\ [VerifierNext]_verifier => WalkHasNoGap'
<1> SUFFICES ASSUME VerifierTypeOK, ReplaySetMatchesTrail, WalkHasNoGap, [VerifierNext]_verifier
             PROVE  WalkHasNoGap'
  BY DEF TrailInv
<1>1. /\ cursor \in Nat /\ count \in Nat
      /\ collected \in Seq(Payment) /\ payments \in Seq(Payment)
      /\ Len(collected) = cursor /\ cursor <= count
      /\ DOMAIN payments = 1 .. count
  BY DEF VerifierTypeOK, WalkHasNoGap, count
<1>2. ASSUME UNCHANGED <<cursor, collected>>, count' \in Nat, count <= count',
             \A i \in DOMAIN payments : /\ payments'[i].tx_hash = payments[i].tx_hash
                                        /\ payments'[i].amount = payments[i].amount
                                        /\ payments[i].refunded => payments'[i].refunded
      PROVE  WalkHasNoGap'
  <2>1. \A i \in DOMAIN collected : i \in DOMAIN payments
    BY <1>1
  <2> QED
    BY <1>1, <1>2, <2>1 DEF WalkHasNoGap
<1>3. ASSUME NEW signer \in Address, NEW hash \in Hash, NEW n \in PaidAmount,
             RecordPayment(signer, hash, n)
      PROVE  WalkHasNoGap'
  <2>1. UNCHANGED <<cursor, collected>>
    BY <1>3 DEF RecordPayment, reader
  <2>2. /\ Len(payments') = Len(payments) + 1
        /\ \A i \in DOMAIN payments : payments'[i] = payments[i]
    BY <1>3, RecordEffect
  <2>3. count' \in Nat /\ count <= count'
    BY <1>1, <2>2 DEF count
  <2> QED
    BY <1>2, <2>1, <2>2, <2>3
<1>4. ASSUME NEW signer \in Address, NEW hash \in Hash, RefundPayment(signer, hash)
      PROVE  WalkHasNoGap'
  <2>1. UNCHANGED <<cursor, collected>>
    BY <1>4 DEF RefundPayment, reader
  <2>2. PICK k \in DOMAIN payments :
              /\ Len(payments') = Len(payments)
              /\ payments'[k] = [payments[k] EXCEPT !.refunded = TRUE]
              /\ \A i \in DOMAIN payments : i # k => payments'[i] = payments[i]
    BY <1>4, RefundEffect
  <2>3. payments[k] \in Payment
    BY DEF VerifierTypeOK
  <2>4. /\ payments'[k].tx_hash = payments[k].tx_hash
        /\ payments'[k].amount = payments[k].amount
        /\ payments'[k].refunded
    BY <2>2, <2>3 DEF Payment
  <2>5. count' \in Nat /\ count <= count'
    BY <1>1, <2>2 DEF count
  <2> QED
    BY <1>2, <2>1, <2>2, <2>4, <2>5
<1>5. ASSUME NEW limit \in Limit, ReadPage(limit) PROVE WalkHasNoGap'
  <2> DEFINE page == get_payments(cursor, limit)
  <2>1. /\ page \in Seq(Payment)
        /\ cursor + Len(page) <= count \/ page = <<>>
        /\ \A i \in DOMAIN page : page[i] = payments[cursor + i]
    BY <1>1, PageIsRun
  <2>2. /\ page # <<>>
        /\ UNCHANGED payments
        /\ collected' = collected \o page
        /\ cursor' = cursor + Len(page)
    BY <1>5 DEF ReadPage
  <2> HIDE DEF page
  <2>3. Len(page) \in Nat /\ DOMAIN page = 1 .. Len(page)
    BY <2>1
  <2>4. /\ Len(collected') = cursor + Len(page)
        /\ DOMAIN collected' = 1 .. cursor + Len(page)
        /\ \A i \in 1 .. cursor : collected'[i] = collected[i]
        /\ \A i \in 1 .. cursor + Len(page) :
              i > cursor => collected'[i] = page[i - cursor]
    BY <1>1, <2>1, <2>2, ConcatEntries
  <2>5. ASSUME NEW i \in DOMAIN collected'
        PROVE  /\ collected'[i].tx_hash = payments[i].tx_hash
               /\ collected'[i].amount = payments[i].amount
               /\ collected'[i].refunded => payments[i].refunded
    <3>1. CASE i <= cursor
      <4>1. i \in DOMAIN collected /\ collected'[i] = collected[i]
        BY <1>1, <2>4, <3>1
      <4> QED
        BY <4>1 DEF WalkHasNoGap
    <3>2. CASE i > cursor
      <4>1. i - cursor \in DOMAIN page /\ cursor + (i - cursor) = i
        BY <1>1, <2>3, <2>4, <3>2
      <4>2. collected'[i] = payments[i]
        BY <2>1, <2>4, <3>2, <4>1
      <4> QED
        BY <4>2
    <3> QED
      BY <1>1, <2>4, <3>1, <3>2
  <2>6. count' = count
    BY <2>2 DEF count
  <2> QED
    BY <2>1, <2>2, <2>4, <2>5, <2>6 DEF WalkHasNoGap
<1>6. ASSUME UNCHANGED <<payments, cursor, collected>> PROVE WalkHasNoGap'
  BY <1>6 DEF WalkHasNoGap, count
<1> QED
  BY <1>3, <1>4, <1>5, <1>6 DEF VerifierNext, SetAdmin, SetPaused, reader, verifier

(* Reading page after page recovers the trail in order and without a gap,  *)
(* for every page size and every interleaving with new payments.           *)
THEOREM WalkHasNoGapAlways == VerifierSpec => []WalkHasNoGap
<1>1. VerifierInit => WalkHasNoGap
  BY DEF VerifierInit, WalkHasNoGap, count
<1> QED
  BY <1>1, NextWalk, TrailInvAlways, PTL DEF VerifierSpec

===============================================================================
