---------------------------- MODULE CircuitBreaker ----------------------------
(***************************************************************************)
(* The circuit breaker of the upstream proxy, one per hostname, kept in    *)
(* Redis and shared by every gateway instance (CircuitBreaker in           *)
(* apps/gateway/src/modules/proxy/proxy.service.ts).  Each operation is    *)
(* one script or one command, so it is atomic.  Keys expire: the set of    *)
(* failures a while after the last of them, the state a while after it     *)
(* was set.  Ages are in ticks, and an expired key reads as the initial    *)
(* value.                                                                  *)
(***************************************************************************)
EXTENDS Integers, FiniteSetsExt

CONSTANTS
    Host,
    FAILURE_THRESHOLD,
    BREAKER_COOLDOWN,   \* cooldownMs in ticks
    KEY_TTL,            \* the expiry of both keys, cooldownMs + 10 s, in ticks
    RedisFails          \* whether commands to Redis may fail

ASSUME BreakerAssumption ==
    /\ FAILURE_THRESHOLD \in Nat \ {0}
    /\ BREAKER_COOLDOWN \in Nat /\ KEY_TTL \in Nat \ {0}
    /\ BREAKER_COOLDOWN < KEY_TTL
    /\ RedisFails \in BOOLEAN

VARIABLE circuit    \* per host, the two keys

Circuit == [state : {"absent", "open", "half-open"}, stateAge : 0 .. KEY_TTL - 1,
            failures : 0 .. FAILURE_THRESHOLD, lastFailure : 0 .. KEY_TTL - 1]

NoKeys == [state |-> "absent", stateAge |-> 0, failures |-> 0, lastFailure |-> 0]

BreakerInit == circuit = [h \in Host |-> NoKeys]

-------------------------------------------------------------------------------

(* The script of checkCircuit: an open circuit with a failure on record.   *)
Opened(c) == c.state = "open" /\ c.failures > 0

Rejects(h) == Opened(circuit[h]) /\ circuit[h].lastFailure < BREAKER_COOLDOWN

(* A check that lets the call through; an error of Redis does so too.      *)
Admits(h) ==
    \/ /\ ~Rejects(h)
       /\ circuit' = IF Opened(circuit[h])
                     THEN [circuit EXCEPT ![h].state = "half-open", ![h].stateAge = 0]
                     ELSE circuit
    \/ RedisFails /\ UNCHANGED circuit

recordSuccess(h) ==
    \/ circuit' = [circuit EXCEPT ![h] = NoKeys]
    \/ RedisFails /\ UNCHANGED circuit

(* Failures are counted up to the threshold.                               *)
recordFailure(h) ==
    \/ LET failures == Min({circuit[h].failures + 1, FAILURE_THRESHOLD})
       IN  circuit' = [circuit EXCEPT ![h] =
              IF failures = FAILURE_THRESHOLD
              THEN [state |-> "open", stateAge |-> 0, failures |-> failures, lastFailure |-> 0]
              ELSE [@ EXCEPT !.failures = failures, !.lastFailure = 0]]
    \/ RedisFails /\ UNCHANGED circuit

(* A tick of the clock: keys grow older and expire.                        *)
Aged(c) ==
    LET set == IF c.failures = 0 \/ c.lastFailure + 1 = KEY_TTL
               THEN [c EXCEPT !.failures = 0, !.lastFailure = 0]
               ELSE [c EXCEPT !.lastFailure = @ + 1]
    IN  IF c.state = "absent" \/ c.stateAge + 1 = KEY_TTL
        THEN [set EXCEPT !.state = "absent", !.stateAge = 0]
        ELSE [set EXCEPT !.stateAge = @ + 1]

BreakerTick == circuit' = [h \in Host |-> Aged(circuit[h])]

-------------------------------------------------------------------------------

BreakerTypeOK == circuit \in [Host -> Circuit]

===============================================================================
