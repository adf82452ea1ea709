------------------------------- MODULE RateLimit -------------------------------
(***************************************************************************)
(* The guard in front of the paid routes (rate-limit.guard.ts): a bucket   *)
(* per tier and caller, a sorted set of requests by their times in Redis,  *)
(* of which a script evicts, counts and inserts in one step.  A request    *)
(* counts as unpaid, under its address, unless the hash it carries is that *)
(* of a confirmed payment; the hash of a payment just made is not, so the  *)
(* bucket an SDK meets is the unpaid one.                                  *)
(*                                                                         *)
(* The time of a request is read before the script is sent (Date.now(),    *)
(* line 135), by whichever replica it came to.  Here that reading is part  *)
(* of the script's step and all replicas share one clock, so times come in *)
(* order.                                                                  *)
(***************************************************************************)
EXTENDS Naturals, FiniteSets

CONSTANTS
    Window,     \* rateLimitWindow, twice as long in the paid tier
    MaxRequests, \* rateLimitMax, ten times as much in the paid tier
    MaxCounted  \* a bound on the requests that are ever admitted

ASSUME RateAssumption == Window \in Nat /\ MaxRequests \in Nat

VARIABLES
    bucket,     \* the x402:ratelimit:* key of a tier and a caller
    admitted    \* history: what was ever inserted there

rates == <<bucket, admitted>>

RatesInit == bucket = {} /\ admitted = {}

(* ZREMRANGEBYSCORE up to now - window, inclusive.                         *)
Recent(now) == {e \in bucket : e.score + Window > now}

(* An off-by-one in the comparison of the count.                           *)
HasRoom_Inclusive(now) == Cardinality(Recent(now)) <= MaxRequests
HasRoom(now) == Cardinality(Recent(now)) < MaxRequests

(* A member of its own for every request, under the time of its coming.    *)
Entry(now) == [member |-> Cardinality(admitted) + 1, score |-> now]

(* The bucket after a request at now: a refused one is not counted.  The   *)
(* key's own expiry, window + 10 s, drops nothing that would be counted.   *)
evalRateLimit(now) ==
    IF HasRoom(now)
    THEN /\ Cardinality(admitted) < MaxCounted
         /\ bucket' = Recent(now) \union {Entry(now)}
         /\ admitted' = admitted \union {Entry(now)}
    ELSE bucket' = Recent(now) /\ UNCHANGED admitted

(* pass says whether the guard lets a request through.  An error of Redis  *)
(* does, and counts nothing.                                               *)
checkLimit(now, pass) ==
    \/ pass = HasRoom(now) /\ evalRateLimit(now)
    \/ pass /\ UNCHANGED rates

-------------------------------------------------------------------------------
(* The requests of the stretch of the window's length that ends at now.    *)
Counted(now) == {e \in admitted : e.score <= now /\ e.score + Window > now}

(* rate-limit.guard.ts, evalRateLimit: however requests fall on the edges  *)
(* of the window, no stretch of its length has more than the maximum among *)
(* the requests that Redis counted.                                        *)
RateKept == \A e \in admitted : Cardinality(Counted(e.score)) <= MaxRequests

===============================================================================
