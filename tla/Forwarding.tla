------------------------------ MODULE Forwarding ------------------------------
(***************************************************************************)
(* Paid calls on their way to the upstream models: the balancer picks a    *)
(* provider, the breaker of its host lets the call through or not, the     *)
(* proxy tries and tries again, and what came of it is recorded in both    *)
(* (ProxyController.selectRoute, handleStreamingForward and                *)
(* handleNonStreamingForward; ProxyService.forwardRequest and              *)
(* forwardStreamRequest).  One gateway instance; payment is a choice of    *)
(* the environment.                                                        *)
(***************************************************************************)
EXTENDS LoadBalancer, CircuitBreaker

CONSTANTS
    Slot,           \* concurrent requests
    HostOf,         \* the host of each provider's upstreamUrl
    MaxAttempts,    \* llm.maxRetries
    Idle

ASSUME ForwardingAssumption ==
    /\ HostOf \in [Provider -> Host]
    /\ MaxAttempts \in Nat \ {0}

VARIABLE call       \* per slot, the paid call in progress

vars == <<balancer, circuit, call>>

Call == [stage : {"admitted", "calling", "reading", "blocked"}, provider : Provider,
         stream : BOOLEAN, attempt : 1 .. MaxAttempts]

Init ==
    /\ BalancerInit
    /\ BreakerInit
    /\ call = [s \in Slot |-> Idle]

-------------------------------------------------------------------------------

At(s, stage) == call[s] # Idle /\ call[s].stage = stage
provider(s) == call[s].provider
host(s) == HostOf[provider(s)]

Becomes(s, state) == call' = [call EXCEPT ![s] = state]
Goes(s, stage) == Becomes(s, [call[s] EXCEPT !.stage = stage])

(* A request without a payment, or with one that is refused: answered 402, *)
(* but it had its turn.                                                    *)
Unpaid ==
    /\ \E p \in Provider : selectRoute(p)
    /\ UNCHANGED <<circuit, call>>

Paid(s) ==
    /\ call[s] = Idle
    /\ \E p \in Provider, stream \in BOOLEAN :
          /\ selectRoute(p)
          /\ Becomes(s, [stage |-> "admitted", provider |-> p,
                         stream |-> stream, attempt |-> 1])
    /\ UNCHANGED circuit

(* The refusal below with the check inside the block that counts failures. *)
FastFail_Counted(s) ==
    /\ At(s, "admitted")
    /\ record(provider(s), FALSE)
    /\ Becomes(s, Idle)
    /\ recordFailure(host(s))

(* The call is turned away before it is made, by the breaker or because    *)
(* the host no longer resolves to a public address.                        *)
FastFail(s) ==
    /\ At(s, "admitted")
    /\ record(provider(s), FALSE)
    /\ Becomes(s, Idle)
    /\ UNCHANGED circuit

LetThrough(s) ==
    /\ At(s, "admitted")
    /\ Admits(host(s))
    /\ Goes(s, "calling")
    /\ UNCHANGED balancer

(* A network error, a timeout or a 5xx: only a plain call is tried again.  *)
Retry(s) ==
    /\ At(s, "calling")
    /\ ~call[s].stream /\ call[s].attempt < MaxAttempts
    /\ Becomes(s, [call[s] EXCEPT !.attempt = @ + 1])
    /\ UNCHANGED <<balancer, circuit>>

(* A failure below that starts the call over, with its attempts.           *)
GiveUp_StartsOver(s) ==
    /\ At(s, "calling")
    /\ recordFailure(host(s))
    /\ record(provider(s), FALSE)
    /\ Becomes(s, [call[s] EXCEPT !.stage = "admitted", !.attempt = 1])

(* The last attempt fails, or one with a 4xx.                              *)
GiveUp(s) ==
    /\ At(s, "calling")
    /\ recordFailure(host(s))
    /\ record(provider(s), FALSE)
    /\ Becomes(s, Idle)

Answered(s) ==
    /\ At(s, "calling")
    /\ recordSuccess(host(s))
    /\ Goes(s, "reading")
    /\ UNCHANGED balancer

(* The client's socket is full: writeChunk waits until it drains or closes *)
(* and has no timer of its own.                                            *)
Block(s) ==
    /\ At(s, "reading") /\ call[s].stream
    /\ Goes(s, "blocked")
    /\ UNCHANGED <<balancer, circuit>>

DrainOrClose(s) ==
    /\ At(s, "blocked")
    /\ Goes(s, "reading")
    /\ UNCHANGED <<balancer, circuit>>

(* The answer was read; so it is taken, for a stream, when the client or   *)
(* the safety timer closes it.                                             *)
ReadOk(s) ==
    /\ At(s, "reading")
    /\ record(provider(s), TRUE)
    /\ Becomes(s, Idle)
    /\ UNCHANGED circuit

(* The body breaks off.  A stream ends through onDone all the same.        *)
ReadFails(s) ==
    /\ At(s, "reading")
    /\ recordFailure(host(s))
    /\ record(provider(s), call[s].stream)
    /\ Becomes(s, Idle)

(* A stream has no body, or onDone throws after it recorded the success;   *)
(* a plain answer is not recorded when the row cannot be restored first.   *)
Throws(s) ==
    /\ At(s, "reading")
    /\ \/ call[s].stream /\ record(provider(s), FALSE)
       \/ /\ call[s].stream
          /\ health' = [health EXCEPT ![provider(s)] = Recorded(Recorded(@, TRUE), FALSE)]
          /\ UNCHANGED <<strategy, running>>
       \/ ~call[s].stream /\ UNCHANGED balancer
    /\ Becomes(s, Idle)
    /\ UNCHANGED circuit

(* Both clocks.                                                            *)
Tick ==
    /\ BalancerTick
    /\ BreakerTick
    /\ UNCHANGED call

Forward(s) ==
    \/ FastFail(s) \/ LetThrough(s) \/ Retry(s) \/ GiveUp(s) \/ Answered(s)
    \/ ReadOk(s) \/ ReadFails(s) \/ Throws(s)

Next ==
    \/ Unpaid
    \/ \E s \in Slot : Paid(s) \/ Forward(s) \/ Block(s) \/ DrainOrClose(s)
    \/ Tick

(* A call goes on once admitted: an attempt has a timeout and so has the   *)
(* reading of a stream.  Clients may do nothing for ever.                  *)
Spec == Init /\ [][Next]_vars /\ WF_vars(Tick) /\ \A s \in Slot : WF_vars(Forward(s))

-------------------------------------------------------------------------------

(* The types of the balancer's, the breaker's and the calls' state.        *)
TypeOK ==
    /\ BalancerTypeOK
    /\ BreakerTypeOK
    /\ call \in [Slot -> Call \union {Idle}]

(* A host is tried again however often it failed and however many requests *)
(* keep coming (checkCircuit): calls it turns away do not keep it shut.    *)
TriedAgain ==
    \A h \in Host :
        []<>(~Rejects(h) \/ \E s \in Slot : At(s, "calling") /\ host(s) = h)

(* Every admitted call ends, whatever its upstream does (forwardRequest,   *)
(* retry), or waits for a client that has stopped reading (writeChunk).    *)
CallsEnd ==
    \A s \in Slot : call[s] # Idle ~> (call[s] = Idle \/ At(s, "blocked"))

===============================================================================
