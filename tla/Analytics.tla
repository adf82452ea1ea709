------------------------------- MODULE Analytics -------------------------------
(***************************************************************************)
(* What the console shows of the recorded events (analytics.service.ts):   *)
(* totals and a time series, for the providers a wallet owns.              *)
(*                                                                         *)
(* Time is in half seconds, as the database rounds an instant to the       *)
(* nearest second before it is put into an interval; intervals are whole   *)
(* seconds.  An event is a record of id, type, provider, amount and time,  *)
(* and for a list of the most paying also of its caller and its route.     *)
(***************************************************************************)
EXTENDS Integers, FiniteSets, FiniteSetsExt

Type == {"request:paid", "request:unpaid", "payment:failed"}

Second == 2

NotFound == "404"

Of(E, type) == {e \in E : e.type = type}
Revenue(E) == MapThenSumSet(LAMBDA e : e.amount, Of(E, "request:paid"))

-------------------------------------------------------------------------------
(* The take = 10 groups with the highest sums; of equal ones the database  *)
(* takes any.                                                              *)

NoCaller == "null"

Groups(E, column) ==
    {[key |-> k, requestCount |-> Cardinality({e \in E : e[column] = k}),
      total |-> Revenue({e \in E : e[column] = k})] : k \in {e[column] : e \in E}}

Highest(groups, take) ==
    {T \in SUBSET groups :
        /\ Cardinality(T) = Min({take, Cardinality(groups)})
        /\ \A g \in T, h \in groups \ T : g.total >= h.total}

topCallers(E, take) ==
    Highest(Groups({e \in Of(E, "request:paid") : e.caller # NoCaller}, "caller"), take)

topRoutes(E, take) == Highest(Groups(Of(E, "request:paid"), "route"), take)

-------------------------------------------------------------------------------
(* The whole number nearest to a fraction.                                 *)
Rounded(n, d) == (2 * n + d) \div (2 * d)

(* successRate is a percentage with two digits, here in hundredths.        *)
getSummary(events, owned) ==
    LET E == {e \in events : e.provider \in owned}
        paid == Cardinality(Of(E, "request:paid"))
    IN  [totalRequests |-> Cardinality(E),
         paidRequests |-> paid,
         unpaidRequests |-> Cardinality(Of(E, "request:unpaid")),
         totalRevenue |-> Revenue(E),
         successRate |-> IF E = {} THEN 0 ELSE Rounded(10000 * paid, Cardinality(E))]

(* The newest, as many as asked for.                                       *)
getEvents(events, owned, limit, offset) ==
    LET E == {e \in events : e.provider \in owned}
        newer(e) == Cardinality({d \in E : d.at > e.at})
    IN  {e \in E : newer(e) >= offset /\ newer(e) < offset + limit}

-------------------------------------------------------------------------------
(* The series: intervals on a grid that starts at or before the window.    *)

windowStart(now, interval, duration) ==
    ((now - duration * Second) \div (interval * Second)) * (interval * Second)

grid(now, interval, duration) ==
    LET first == windowStart(now, interval, duration)
    IN  {first + k * interval * Second : k \in 0 .. (now - first) \div (interval * Second)}

(* EXTRACT(EPOCH ...)::bigint rounds; the division then truncates.         *)
bucketOf(t, interval) ==
    (Rounded(t, Second) \div interval) * interval * Second

Selected(events, p, now, interval, duration) ==
    {e \in events : e.provider = p /\ e.at \in windowStart(now, interval, duration) .. now}

(* An event whose interval is not on the grid is in none.                  *)
getTimeSeries(events, p, owned, now, interval, duration) ==
    IF p \notin owned THEN NotFound
    ELSE [b \in grid(now, interval, duration) |->
             LET E == {e \in Selected(events, p, now, interval, duration) :
                          bucketOf(e.at, interval) = b}
             IN  [paid |-> Cardinality(Of(E, "request:paid")),
                  unpaid |-> Cardinality(Of(E, "request:unpaid")),
                  failed |-> Cardinality(Of(E, "payment:failed")),
                  revenue |-> Revenue(E)]]

===============================================================================
