----------------------------- MODULE LoadBalancer -----------------------------
(***************************************************************************)
(* The gateway's choice between the providers of one model                 *)
(* (apps/gateway/src/modules/balancer/load-balancer.service.ts): smooth    *)
(* weighted round-robin or least latency over the providers whose circuit  *)
(* is not open.  The state is in one process.  Time is kept as the ticks   *)
(* since an event, up to the age from which on nothing changes any more.   *)
(***************************************************************************)
EXTENDS Integers, FiniteSetsExt, Totals

CONSTANTS
    Provider,               \* provider ids; candidates come in their order
    Weight,                 \* the configured weight of each provider
    MaxWeight,              \* the highest weight configured
    Strategy,               \* the strategies the deployment may configure
    FAILURES_BEFORE_OPEN,
    CIRCUIT_COOLDOWN        \* CIRCUIT_COOLDOWN_MS in ticks

ASSUME BalancerAssumption ==
    /\ Provider \subseteq Nat /\ IsFiniteSet(Provider)
    /\ MaxWeight \in Nat
    /\ Weight \in [Provider -> 1 .. MaxWeight]
    /\ Strategy \subseteq {"round-robin", "least-latency"}
    /\ FAILURES_BEFORE_OPEN \in Nat \ {0}
    /\ CIRCUIT_COOLDOWN \in Nat

VARIABLES
    strategy,   \* LOAD_BALANCING_STRATEGY
    health,     \* what is remembered of each provider
    running     \* runningWeight

balancer == <<strategy, health, running>>

Closed == -1

HealthState == [consecutiveFailures : 0 .. FAILURES_BEFORE_OPEN,
                openFor : {Closed} \union 0 .. CIRCUIT_COOLDOWN]

BalancerInit ==
    /\ strategy \in Strategy
    /\ health = [p \in Provider |->
                    [consecutiveFailures |-> 0, openFor |-> Closed]]
    /\ running = [p \in Provider |-> 0]

-------------------------------------------------------------------------------

isAvailable(p) == health[p].openFor \in {Closed, CIRCUIT_COOLDOWN}

Available == {p \in Provider : isAvailable(p)}

(* The weights with those of the candidates raised, and the first of the   *)
(* candidates that are highest then.                                       *)
Raised(candidates) ==
    [p \in Provider |-> running[p] + (IF p \in candidates THEN Weight[p] ELSE 0)]

FirstOfHighest(raised, candidates, chosen) ==
    /\ chosen \in candidates
    /\ \A p \in candidates :
          raised[p] < raised[chosen] \/ (raised[p] = raised[chosen] /\ chosen <= p)

(* The choice below lowering by the weight of every provider, also of      *)
(* those that are out.                                                     *)
pickWeighted_FixedTotal(candidates, chosen) ==
    /\ FirstOfHighest(Raised(candidates), candidates, chosen)
    /\ running' = [Raised(candidates) EXCEPT ![chosen] = @ - TotalOver(Weight, Provider)]

(* Raise every weight, take the first of the highest, lower it.            *)
pickWeighted(candidates, chosen) ==
    /\ FirstOfHighest(Raised(candidates), candidates, chosen)
    /\ running' = [Raised(candidates) EXCEPT ![chosen] = @ - TotalOver(Weight, candidates)]

(* The averages are not modelled: any candidate may be the fastest.        *)
pickLeastLatency(candidates, chosen) ==
    /\ chosen \in candidates
    /\ UNCHANGED running

selectRoute(chosen) ==
    /\ Available # {}
    /\ \/ strategy = "round-robin" /\ pickWeighted(Available, chosen)
       \/ strategy = "least-latency" /\ pickLeastLatency(Available, chosen)
    /\ UNCHANGED <<strategy, health>>

(* What record makes of a provider's state.  Consecutive failures are      *)
(* counted up to the number that opens the circuit.                        *)
Recorded(state, ok) ==
    LET failures == Min({state.consecutiveFailures + 1, FAILURES_BEFORE_OPEN})
    IN  IF ok
        THEN [consecutiveFailures |-> 0, openFor |-> Closed]
        ELSE [state EXCEPT
                 !.consecutiveFailures = failures,
                 !.openFor = IF failures = FAILURES_BEFORE_OPEN /\ @ = Closed THEN 0 ELSE @]

record(p, ok) ==
    /\ health' = [health EXCEPT ![p] = Recorded(@, ok)]
    /\ UNCHANGED <<strategy, running>>

(* A tick of the clock that isAvailable reads.                             *)
BalancerTick ==
    /\ health' = [p \in Provider |->
                     [health[p] EXCEPT !.openFor =
                         IF @ = Closed THEN @ ELSE Min({@ + 1, CIRCUIT_COOLDOWN})]]
    /\ UNCHANGED <<strategy, running>>

-------------------------------------------------------------------------------

BalancerTypeOK ==
    /\ strategy \in Strategy
    /\ health \in [Provider -> HealthState]
    /\ running \in [Provider -> Int]

(* The turns stay in proportion to the weights (pickWeighted): whichever   *)
(* circuits open and close in between, no provider is ever ahead of its    *)
(* share, or behind it, by more than the highest weight for each of the    *)
(* others.                                                                 *)
SpreadEvenly ==
    LET bound == MaxWeight * (Cardinality(Provider) - 1)
    IN  \A p \in Provider : -bound <= running[p] /\ running[p] <= bound

===============================================================================
