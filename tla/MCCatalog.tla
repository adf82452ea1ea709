------------------------------- MODULE MCCatalog -------------------------------
(* Two wallets, one challenge, one provider row with a route and a note,   *)
(* behind a gateway deployed in an environment that is right for the main  *)
(* network, in a developer's, in one that is wrong in one variable, or in  *)
(* one whose Horizon is a test network's by another name.                  *)
EXTENDS Catalog, Listings, TLC

CONSTANTS s1, s2, alice, bob, c1

Live == [NODE_ENV |-> "production", STELLAR_NETWORK |-> "mainnet", HORIZON_URL |-> Unset,
         SOROBAN_RPC_URL |-> "main", NETWORK_PASSPHRASE |-> Unset, USDC_ISSUER |-> "circle",
         JWT_SECRET |-> "random", AUTH_DEV_MODE |-> FALSE, DATABASE_URL |-> "set",
         REDIS_URL |-> "remote", TRUST_PROXY |-> "valid", CONTRACTS |-> Unset]
Local == [Live EXCEPT !.NODE_ENV = "development", !.STELLAR_NETWORK = "testnet",
                      !.SOROBAN_RPC_URL = "marked", !.AUTH_DEV_MODE = TRUE,
                      !.REDIS_URL = "localhost", !.TRUST_PROXY = Unset]
Wrong ==
    {[Live EXCEPT ![v[1]] = v[2]] :
        v \in {<<"HORIZON_URL", "marked">>, <<"SOROBAN_RPC_URL", "marked">>,
               <<"NETWORK_PASSPHRASE", "test">>, <<"USDC_ISSUER", "other">>,
               <<"JWT_SECRET", "placeholder">>, <<"AUTH_DEV_MODE", TRUE>>,
               <<"DATABASE_URL", Unset>>, <<"REDIS_URL", "template">>,
               <<"TRUST_PROXY", "invalid">>}}

Unnoticed == [Live EXCEPT !.HORIZON_URL = "unmarked"]

TheEnvironments == {Live, Local, Unnoticed} \union Wrong

(* Bounds every gateway but the live one to signing in and out.            *)
OthersSignIn == listening /\ config # loadConfig(Live) => Used(providers) = {}

(* Two events of two providers, up to five seconds old, in intervals of one *)
(* and of two seconds: what a series shows is what a count by whole seconds *)
(* would, save that an event of the last half second before an interval is *)
(* counted in that interval, or not at all while it has not begun.         *)
SomeEvents == [id : {1}, type : Type, provider : {1, 2}, amount : {3}, at : 1 .. 9]
                \union [id : {2}, type : {"request:paid"}, provider : {1}, amount : {4}, at : 1 .. 9]

ASSUME SeriesCounts ==
    \A e1, e2 \in SomeEvents, interval \in 1 .. 2, now \in 7 .. 9 :
       LET series == getTimeSeries({e1, e2}, 1, {1}, now, interval, 2)
           shown == {e \in Selected({e1, e2}, 1, now, interval, 2) :
                        (e.at + 1) \div (2 * interval) <= now \div (2 * interval)}
       IN  /\ \A b \in DOMAIN series : series[b].revenue =
                 Revenue({e \in shown : b <= e.at + 1 /\ e.at + 1 < b + 2 * interval})
           /\ MapThenSumSet(LAMBDA b : series[b].paid + series[b].unpaid + series[b].failed,
                                         DOMAIN series) = Cardinality(shown)

(* Paid requests of two callers and one of none, on two routes: the lists  *)
(* of the most paying name the highest, and with room for every group they *)
(* account for everything that was paid.                                   *)
PaidBy == [id : {1}, type : {"request:paid"}, caller : {"a", "b"}, route : {"r"}, amount : 0 .. 2]
Others == [id : {2}, type : Type, caller : {"a", NoCaller}, route : {"q", "r"}, amount : 1 .. 2]

Sum(list) == MapThenSumSet(LAMBDA g : g.total, list)

ASSUME HighestAccount ==
    \A e1 \in PaidBy, e2 \in Others :
       LET E == {e1, e2}
           named == {e \in E : e.caller # NoCaller}
       IN  /\ \A list \in topCallers(E, 2) : Sum(list) = Revenue(named)
           /\ \A list \in topRoutes(E, 2) : Sum(list) = Revenue(E)
           /\ \A list \in topCallers(E, 1), g \in UNION topCallers(E, 2) :
                 list # {} /\ \A h \in list : h.total >= g.total

(* Someone pages through a table of m rows until the number of pages last  *)
(* answered, while rows are added between the requests and between the two *)
(* statements of one: every row that was there is listed.                  *)
Dated(n) == {[id |-> i, provider |-> 1, at |-> i] : i \in 1 .. n}

ASSUME PagesListAll ==
    \A m \in 1 .. 3, limit \in 1 .. 2, found, counted \in [1 .. 4 -> 1 .. 4] :
       (/\ found[1] = m /\ \A k \in 1 .. 3 : counted[k] <= found[k + 1]
        /\ \A k \in 1 .. 4 : found[k] <= counted[k]) =>
       LET Answer(k) == CHOOSE a \in findAll(Dated(found[k]), Dated(counted[k]), {1}, << >>, k, limit) : TRUE
           last == Min({k \in 1 .. 4 : k >= Answer(k).totalPages})
       IN  Dated(m) \subseteq UNION {Answer(k).data : k \in 1 .. last}

(* Nobody is shown another wallet's rows, and what a wallet is told of all *)
(* its payments is the sum of what it is told of each provider.            *)
SomePayments == {P \in SUBSET [id : 1 .. 2, provider : 1 .. 2, at : {1},
                               status : {"pending", "confirmed"}, amount : {5}] :
                    Cardinality(P) <= 2}

ASSUME OwnRowsOnly ==
    \A P \in SomePayments, providerRows \in [1 .. 2 -> {"a", "b"}], p \in 1 .. 2 :
       LET owned == getOwnedProviderIds(providerRows, "a")
           Stats(q) == getStats(P, owned, q)
           all == getGatewayStats(P, [q \in 1 .. 2 |-> 1], owned)
       IN  /\ \A a \in findAll(P, P, owned, [provider |-> p], 1, 2) :
                 a.data = {x \in P : x.provider = p /\ p \in owned}
           /\ getAuditLogs(P, P, owned, [provider |-> p], 1, 2) =
                 IF p \in owned THEN findAll(P, P, owned, [provider |-> p], 1, 2) ELSE {NotFound}
           /\ listPayouts(P, P, owned, << >>, 1, 2) = findAll(P, P, owned, << >>, 1, 2)
           /\ all.failedPayments = MapThenSumSet(LAMBDA q : Stats(q).failedPayments, owned)
           /\ all.confirmedPayments = MapThenSumSet(LAMBDA q : Stats(q).confirmedPayments, owned)
           /\ \A q \in owned : Stats(q).totalRevenue = 5 * Stats(q).confirmedPayments

Symmetry == Permutations({s1, s2}) \union Permutations({alice, bob})
            \union Permutations(Challenge) \union Permutations(Session)

===============================================================================
