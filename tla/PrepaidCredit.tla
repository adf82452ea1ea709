---------------------------- MODULE PrepaidCredit -----------------------------
(***************************************************************************)
(* What an escrow of prepaid credit promises, whatever contract provides   *)
(* it.  Every party has a claim on the tokens held; a caller's claim moves *)
(* to the operator at most once for a quote and never otherwise, a claim   *)
(* is paid out only to the extent it exists, and nothing moves while the   *)
(* escrow is frozen.                                                       *)
(***************************************************************************)
EXTENDS Integers

CONSTANTS
    Party,      \* everyone who can have a claim
    Operator,   \* the party that quotes are settled to
    Quote,      \* quote ids
    Amount      \* the amounts operations may name

VARIABLES
    claim,      \* claim[p]: what the escrow owes p
    settled,    \* the <<caller, quote>> pairs that have been settled
    frozen      \* TRUE while nothing may move

vars == <<claim, settled, frozen>>

Init ==
    /\ claim = [p \in Party |-> 0]
    /\ settled = {}
    /\ frozen = FALSE

Fund(p, n) ==
    /\ ~frozen
    /\ p # Operator
    /\ claim' = [claim EXCEPT ![p] = @ + n]
    /\ UNCHANGED <<settled, frozen>>

Redeem(p, n) ==
    /\ ~frozen
    /\ n <= claim[p]
    /\ claim' = [claim EXCEPT ![p] = @ - n]
    /\ UNCHANGED <<settled, frozen>>

Settle(p, q, n) ==
    /\ ~frozen
    /\ p # Operator
    /\ <<p, q>> \notin settled
    /\ n <= claim[p]
    /\ claim' = [claim EXCEPT ![p] = @ - n, ![Operator] = @ + n]
    /\ settled' = settled \union {<<p, q>>}
    /\ UNCHANGED frozen

Freeze(b) ==
    /\ frozen' = b
    /\ UNCHANGED <<claim, settled>>

Next ==
    \/ \E p \in Party, n \in {a \in Amount : a > 0} :
          Fund(p, n) \/ Redeem(p, n) \/ \E q \in Quote : Settle(p, q, n)
    \/ \E b \in BOOLEAN : Freeze(b)

Spec == Init /\ [][Next]_vars

=============================================================================
