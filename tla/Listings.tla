-------------------------------- MODULE Listings --------------------------------
(***************************************************************************)
(* What the console lists and counts for a wallet: payments                *)
(* (payments.service.ts), audit entries and payouts (admin.service.ts).    *)
(*                                                                         *)
(* A row is a record of its columns, at being createdAt.  A filter names   *)
(* some columns and their values; whatever a request leaves out is not in  *)
(* it.  The rows and their count are read by two statements that run at    *)
(* one time, so each sees a table of its own.  Rows of one instant come in *)
(* any order: an answer is one of a set.                                   *)
(***************************************************************************)
EXTENDS Analytics

(* getOwnedProviderIds, over the rows of providers.                        *)
getOwnedProviderIds(providerRows, wallet) ==
    {p \in DOMAIN providerRows : providerRows[p] = wallet}

Matching(E, filter) == {x \in E : \A c \in DOMAIN filter : x[c] = filter[c]}

(* orderBy createdAt desc, skip, take.                                     *)
Taken(E, skip, take) ==
    {P \in SUBSET E :
        \E before \in SUBSET (E \ P) :
           LET after == E \ (P \union before)
           IN  /\ Cardinality(before) = Min({skip, Cardinality(E)})
               /\ Cardinality(P) = Min({take, Cardinality(E) - Cardinality(before)})
               /\ \A x \in before, y \in P \union after : x.at >= y.at
               /\ \A x \in P, y \in after : x.at >= y.at}

Listing(found, counted, page, limit) ==
    {[data |-> P, total |-> Cardinality(counted),
      totalPages |-> (Cardinality(counted) + limit - 1) \div limit] :
        P \in Taken(found, (page - 1) * limit, limit)}

(* Payments: another wallet's provider has none.                           *)
findAll(found, counted, owned, filter, page, limit) ==
    LET where(E) == {x \in Matching(E, filter) : x.provider \in owned}
    IN  Listing(where(found), where(counted), page, limit)

(* Audit entries, some of no provider: another wallet's provider does not  *)
(* exist.                                                                  *)
getAuditLogs(found, counted, owned, filter, page, limit) ==
    IF "provider" \in DOMAIN filter /\ filter["provider"] \notin owned THEN {NotFound}
    ELSE findAll(found, counted, owned, filter, page, limit)

(* Payouts: the same.                                                      *)
listPayouts(found, counted, owned, filter, page, limit) ==
    IF "provider" \in DOMAIN filter /\ filter["provider"] \notin owned THEN {NotFound}
    ELSE findAll(found, counted, owned, filter, page, limit)

-------------------------------------------------------------------------------
(* Whatever is not confirmed counts as failed, a pending payment as well.  *)
Confirmed(E) == Matching(E, [status |-> "confirmed"])

getStats(payments, owned, p) ==
    IF p \notin owned THEN NotFound
    ELSE LET E == Matching(payments, [provider |-> p])
         IN  [totalPayments |-> Cardinality(E),
              confirmedPayments |-> Cardinality(Confirmed(E)),
              failedPayments |-> Cardinality(E) - Cardinality(Confirmed(E)),
              totalRevenue |-> MapThenSumSet(LAMBDA x : x.amount, Confirmed(E))]

(* The same over all of a wallet's providers.                              *)
getGatewayStats(payments, routesOf, owned) ==
    LET E == {x \in payments : x.provider \in owned}
    IN  [providers |-> Cardinality(owned),
         routes |-> MapThenSumSet(LAMBDA p : routesOf[p], owned),
         totalPayments |-> Cardinality(E),
         confirmedPayments |-> Cardinality(Confirmed(E)),
         failedPayments |-> Cardinality(E) - Cardinality(Confirmed(E))]

===============================================================================
