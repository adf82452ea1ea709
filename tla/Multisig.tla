------------------------------- MODULE Multisig -------------------------------
(***************************************************************************)
(* The multisig payout wallet (contracts/multisig/src/lib.rs): anyone      *)
(* proposes a payment, current signers approve it, the approval that       *)
(* reaches the threshold executes it, and a quorum of signers may replace  *)
(* the signer set.  An invocation is one transaction, and one that panics, *)
(* such as an executing approval the wallet cannot pay for, is a disabled  *)
(* action.                                                                 *)
(***************************************************************************)
EXTENDS Totals, Sequences

CONSTANTS
    Account,            \* addresses of the token ledger
    Contract,           \* the address of the wallet itself
    SignerList,         \* the vectors of signers callers may pass
    InitialSigners,     \* the constructor's arguments
    InitialThreshold,
    Amount,             \* the i128 amounts callers may pass, some <= 0
    MaxProposals,       \* bound on the proposals of a behaviour
    MaxFunding          \* bound on the tokens that ever arrive

HasUniqueSigners(list) ==
    \A i, j \in DOMAIN list : list[i] = list[j] => i = j

SignersOf(list) == {list[i] : i \in DOMAIN list}

(* The validation shared by the constructor and set_signers.               *)
ValidConfig(list, threshold) ==
    /\ threshold # 0
    /\ threshold <= Len(list)
    /\ HasUniqueSigners(list)

ASSUME MultisigAssumption ==
    /\ Contract \in Account
    /\ SignerList \subseteq Seq(Account)
    /\ InitialSigners \in SignerList
    /\ InitialThreshold \in Nat
    /\ ValidConfig(InitialSigners, InitialThreshold)
    /\ Amount \subseteq Int
    /\ MaxProposals \in Nat
    /\ MaxFunding \in Nat

VARIABLES
    signers,    \* CONFIG.signers: distinct, so a set
    threshold,  \* CONFIG.threshold
    proposals,  \* (PROPOSALS, id) at index id + 1
    held,       \* the wallet's balance in the token contract
    funded,     \* history: the tokens that ever arrived
    acted       \* history: the addresses that ever authorised a call

vars == <<signers, threshold, proposals, held, funded, acted>>

Proposal == [destination : Account, amount : Nat, executed : BOOLEAN,
             approvals : SUBSET Account]

Init ==
    /\ signers = SignersOf(InitialSigners)
    /\ threshold = InitialThreshold
    /\ proposals = <<>>
    /\ held = 0
    /\ funded = 0
    /\ acted = {}

-------------------------------------------------------------------------------

(* Revenue arrives: a transfer to the wallet in the token contract.        *)
Fund(n) ==
    /\ n > 0
    /\ funded + n <= MaxFunding
    /\ held' = held + n
    /\ funded' = funded + n
    /\ UNCHANGED <<signers, threshold, proposals, acted>>

(* propose without the check of the amount.                                *)
Propose_AnyAmount(destination, amount) ==
    /\ Len(proposals) < MaxProposals
    /\ proposals' = Append(proposals, [destination |-> destination, amount |-> amount,
                                       executed |-> FALSE, approvals |-> {}])
    /\ UNCHANGED <<signers, threshold, held, funded, acted>>

(* propose asks nobody's authorisation.                                    *)
Propose(destination, amount) ==
    /\ amount > 0
    /\ Len(proposals) < MaxProposals
    /\ proposals' = Append(proposals, [destination |-> destination, amount |-> amount,
                                       executed |-> FALSE, approvals |-> {}])
    /\ UNCHANGED <<signers, threshold, held, funded, acted>>

Outflow(p) == IF p.destination = Contract THEN 0 ELSE p.amount

(* What an accepted approval does: it is recorded once however often it is *)
(* given, and the one that completes the quorum pays in the same call.     *)
Sign(signer, i, quorum) ==
    LET approvals == proposals[i].approvals \union {signer}
        executes == Cardinality(approvals) >= quorum
    IN  /\ proposals' = [proposals EXCEPT ![i].approvals = approvals,
                                          ![i].executed = executes]
        /\ executes => proposals[i].amount <= held
        /\ held' = IF executes THEN held - Outflow(proposals[i]) ELSE held
        /\ acted' = acted \union {signer}
        /\ UNCHANGED <<signers, threshold, funded>>

(* approve without the check of the executed flag.                         *)
Approve_Again(signer, i) == signer \in signers /\ Sign(signer, i, threshold)

(* approve with the quorum off by one.                                     *)
Approve_Early(signer, i) ==
    signer \in signers /\ ~proposals[i].executed /\ Sign(signer, i, threshold - 1)

Approve(signer, i) ==
    /\ signer \in signers
    /\ ~proposals[i].executed
    /\ Sign(signer, i, threshold)

(* A rotation that validates the new threshold against the old signers.    *)
SetSigners_OldLength(approvers, list, new_threshold) ==
    /\ approvers \subseteq signers
    /\ Cardinality(approvers) >= threshold
    /\ new_threshold # 0
    /\ new_threshold <= Cardinality(signers)
    /\ HasUniqueSigners(list)
    /\ signers' = SignersOf(list)
    /\ threshold' = new_threshold
    /\ acted' = acted \union approvers
    /\ UNCHANGED <<proposals, held, funded>>

(* A rotation that any one signer may make.                                *)
SetSigners_NoQuorum(approvers, list, new_threshold) ==
    /\ approvers \subseteq signers
    /\ approvers # {}
    /\ ValidConfig(list, new_threshold)
    /\ signers' = SignersOf(list)
    /\ threshold' = new_threshold
    /\ acted' = acted \union approvers
    /\ UNCHANGED <<proposals, held, funded>>

(* Duplicates among the approvers count once, so they are a set.           *)
SetSigners(approvers, list, new_threshold) ==
    /\ approvers \subseteq signers
    /\ Cardinality(approvers) >= threshold
    /\ ValidConfig(list, new_threshold)
    /\ signers' = SignersOf(list)
    /\ threshold' = new_threshold
    /\ acted' = acted \union approvers
    /\ UNCHANGED <<proposals, held, funded>>

Next ==
    \/ \E n \in Amount : Fund(n)
    \/ \E destination \in Account, amount \in Amount : Propose(destination, amount)
    \/ \E signer \in Account, i \in DOMAIN proposals : Approve(signer, i)
    \/ \E approvers \in SUBSET signers, list \in SignerList :
          \E new_threshold \in 0 .. Len(list) + 1 :
             SetSigners(approvers, list, new_threshold)

Spec == Init /\ [][Next]_vars

-------------------------------------------------------------------------------

(* The types of the configuration, the proposals and the token balance.    *)
TypeOK ==
    /\ signers \in SUBSET Account /\ IsFiniteSet(signers)
    /\ threshold \in Nat
    /\ proposals \in Seq(Proposal)
    /\ held \in Nat
    /\ funded \in Nat
    /\ acted \in SUBSET Account /\ IsFiniteSet(acted)

(* However signers are rotated, the threshold asks for somebody and can be *)
(* reached by the current signers: the wallet is never locked by rotation. *)
QuorumReachable == 1 <= threshold /\ threshold <= Cardinality(signers)

(* What has left the wallet is exactly what the executed proposals name,   *)
(* each paid once, whoever approved them in whatever order.                *)
PaidOut == [i \in DOMAIN proposals |->
               IF proposals[i].executed THEN Outflow(proposals[i]) ELSE 0]
ExecutedPaidOnce == held + Total(PaidOut) = funded

(* Nothing is paid and the configuration stands until at least the         *)
(* constructor's threshold of the constructor's signers has authorised     *)
(* some call: fewer signers cannot get there through any mix of proposals, *)
(* approvals and rotations.                                                *)
Untouched ==
    /\ signers = SignersOf(InitialSigners)
    /\ threshold = InitialThreshold
    /\ \A i \in DOMAIN proposals : ~proposals[i].executed
InitialQuorumActed ==
    Untouched \/ Cardinality(acted \intersect SignersOf(InitialSigners)) >= InitialThreshold

(* A proposal executes only in a call that finds threshold distinct        *)
(* approvals in it, and an executed proposal never changes again.          *)
ExecutesAtQuorum ==
    [][\A i \in DOMAIN proposals :
          /\ proposals'[i] # proposals[i] => ~proposals[i].executed
          /\ proposals'[i].executed /\ ~proposals[i].executed =>
                Cardinality(proposals'[i].approvals) >= threshold]_vars

===============================================================================
