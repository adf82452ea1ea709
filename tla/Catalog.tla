-------------------------------- MODULE Catalog --------------------------------
(***************************************************************************)
(* What wallets manage in the console: their providers, the routes of      *)
(* those and the notifications they receive (providers.service.ts,         *)
(* routes.service.ts, notifications.service.ts).  Every request comes      *)
(* through the guard of module Sessions.  Most look a row up under the     *)
(* caller's wallet first, may resolve a host name while others go on, and  *)
(* write the row by its id alone: "act" is the look-up, and the pc after   *)
(* it names the write.                                                     *)
(* A row's columns are reduced to what decides who may change it and       *)
(* whether paying clients are sent to it.                                  *)
(***************************************************************************)
EXTENDS Sessions

CONSTANTS
    Provider, Route, Note,  \* ids of rows, each given once
    ApprovalRequired        \* PROVIDER_APPROVAL_REQUIRED

VARIABLES providers, routes, notes

rows == <<providers, routes, notes>>
vars == <<boot, signIn, rows>>

(* Functions from the ids in use; deleted rows leave their id used up.     *)
Used(table) == DOMAIN table
Rows(table) == {i \in DOMAIN table : table[i].kept}
Insert(table, i, row) == [j \in DOMAIN table \union {i} |-> IF j = i THEN row ELSE table[j]]

owner(p) == providers[p].owner
Mine(s) == {p \in Rows(providers) : owner(p) = ask[s].who}
MyRoutes(s) == {r \in Rows(routes) : routes[r].provider \in Mine(s)}
MyNotes(s) == {n \in Rows(notes) : notes[n].provider \in Mine(s)}

Init == BootInit /\ SignInInit /\ providers = << >> /\ routes = << >> /\ notes = << >>

Done(s) == Finish(s) /\ UNCHANGED <<store, past>>

(* The request names a row: a look-up that finds it goes on, one that does *)
(* not answers 404.                                                        *)
LookUp(s, ids, table, write) ==
    /\ At(s, "act")
    /\ \E i \in ids : IF i \in table
                     THEN ask' = [ask EXCEPT ![s].pc = write, ![s].row = i]
                     ELSE Finish(s)
    /\ UNCHANGED <<store, past, rows>>

(* An UPDATE of that row; one that is gone throws.                         *)
Update(s, table, change(_)) ==
    IF ask[s].row \in Rows(table)
    THEN table' = [table EXCEPT ![ask[s].row] = change(@)]
    ELSE UNCHANGED table

-------------------------------------------------------------------------------
(* Providers.                                                              *)

createProvider(s) ==
    /\ At(s, "act")
    /\ \E p \in Provider \ Used(providers) :
          providers' = Insert(providers, p, [owner |-> ask[s].who, kept |-> TRUE,
                                             active |-> ~ApprovalRequired])
    /\ Done(s)
    /\ UNCHANGED <<routes, notes>>

(* The look-up of an update that forgets the wallet.                       *)
findProvider_ById(s) == LookUp(s, Provider, Rows(providers), "update provider")
findProvider(s) == LookUp(s, Provider, Mine(s), "update provider")

(* The owner may set active as well, approved or not.                      *)
updateProvider(s) ==
    /\ At(s, "update provider")
    /\ \E b \in BOOLEAN : Update(s, providers, LAMBDA p : [p EXCEPT !.active = b])
    /\ Done(s)
    /\ UNCHANGED <<routes, notes>>

(* Any wallet that is signed in may approve.                               *)
findUnapproved(s) == LookUp(s, Provider, Rows(providers), "approve")

approve(s) ==
    /\ At(s, "approve")
    /\ Update(s, providers, LAMBDA p : [p EXCEPT !.active = TRUE])
    /\ Done(s)
    /\ UNCHANGED <<routes, notes>>

(* deleteMany under the caller's wallet; the database takes the routes and *)
(* the notifications along.                                                *)
deleteProvider(s) ==
    /\ At(s, "act")
    /\ \E p \in Provider :
          LET Cascade(table) == [i \in DOMAIN table |->
                                    [table[i] EXCEPT !.kept = @ /\ table[i].provider # p]]
          IN IF p \in Mine(s)
             THEN /\ providers' = [providers EXCEPT ![p].kept = FALSE]
                  /\ routes' = Cascade(routes) /\ notes' = Cascade(notes)
             ELSE UNCHANGED rows
    /\ Done(s)

-------------------------------------------------------------------------------
(* Routes.                                                                 *)

(* The look-up of a new route's provider; the upstream's host is resolved  *)
(* next.                                                                   *)
findTarget(s) == LookUp(s, Provider, Mine(s), "create route")

(* The insertion that relies on the look-up having seen the provider.      *)
createRoute_NoForeignKey(s) ==
    /\ At(s, "create route")
    /\ \E r \in Route \ Used(routes) :
          routes' = Insert(routes, r, [provider |-> ask[s].row, kept |-> TRUE, active |-> TRUE])
    /\ Done(s)
    /\ UNCHANGED <<providers, notes>>

createRoute(s) ==
    /\ At(s, "create route")
    /\ IF ask[s].row \in Rows(providers)
       THEN \E r \in Route \ Used(routes) :
               routes' = Insert(routes, r, [provider |-> ask[s].row, kept |-> TRUE, active |-> TRUE])
       ELSE UNCHANGED routes
    /\ Done(s)
    /\ UNCHANGED <<providers, notes>>

findRoute(s) == LookUp(s, Route, MyRoutes(s), "update route")

updateRoute(s) ==
    /\ At(s, "update route")
    /\ \E b \in BOOLEAN : Update(s, routes, LAMBDA r : [r EXCEPT !.active = b])
    /\ Done(s)
    /\ UNCHANGED <<providers, notes>>

deleteRoute(s) ==
    /\ At(s, "act")
    /\ \E r \in Route :
          routes' = IF r \in MyRoutes(s) THEN [routes EXCEPT ![r].kept = FALSE] ELSE routes
    /\ Done(s)
    /\ UNCHANGED <<providers, notes>>

-------------------------------------------------------------------------------
(* Notifications.                                                          *)

(* A payment for a route is stored in its provider's feed, unless the      *)
(* database fails or the provider is gone by then; the route was selected  *)
(* some time ago, and may be.                                              *)
persistInAppNotification(r) ==
    /\ r \in Used(routes) /\ routes[r].provider \in Rows(providers)
    /\ \E n \in Note \ Used(notes) :
          notes' = Insert(notes, n, [provider |-> routes[r].provider, kept |-> TRUE,
                                     read |-> FALSE])
    /\ UNCHANGED <<signIn, providers, routes>>

findNote(s) == LookUp(s, Note, MyNotes(s), "mark read")

markRead(s) ==
    /\ At(s, "mark read")
    /\ Update(s, notes, LAMBDA n : [n EXCEPT !.read = TRUE])
    /\ Done(s)
    /\ UNCHANGED <<providers, routes>>

(* One statement over all providers read before.                           *)
markAllRead(s) ==
    /\ At(s, "act")
    /\ notes' = [n \in DOMAIN notes |-> [notes[n] EXCEPT !.read = @ \/ n \in MyNotes(s)]]
    /\ Done(s)
    /\ UNCHANGED <<providers, routes>>

-------------------------------------------------------------------------------
Manage(s) ==
    \/ createProvider(s) \/ findProvider(s) \/ updateProvider(s)
    \/ findUnapproved(s) \/ approve(s) \/ deleteProvider(s)
    \/ findTarget(s) \/ createRoute(s) \/ findRoute(s) \/ updateRoute(s) \/ deleteRoute(s)
    \/ findNote(s) \/ markRead(s) \/ markAllRead(s)

Serve ==
    \/ SignInNext /\ UNCHANGED rows
    \/ \E s \in Slot : Manage(s)
    \/ \E r \in Route : persistInAppNotification(r)

(* A process that dies once it listens leaves its requests as Throw does.  *)
Next ==
    \/ Boot /\ UNCHANGED <<signIn, rows>>
    \/ listening /\ Serve /\ UNCHANGED boot

Spec == Init /\ [][Next]_vars

-------------------------------------------------------------------------------
(* providers.service.ts, routes.service.ts, notifications.service.ts: a    *)
(* row is added, changed and deleted only by a request of the wallet that  *)
(* owns its provider, whatever happened between the request's look-up and  *)
(* its write; an approval may set a provider active.                       *)
Ends(s, p) == ~At(s, "idle") /\ ask'[s] = Idle /\ ask[s].who = owner(p)

Changed(old, new) == {i \in DOMAIN new : i \notin DOMAIN old \/ new[i] # old[i]}

OwnersOnly ==
    [][/\ \A p \in Changed(providers, providers') \intersect DOMAIN providers :
             \/ providers'[p] = [providers[p] EXCEPT !.active = TRUE]
             \/ \E s \in Slot : Ends(s, p)
       /\ \A r \in Changed(routes, routes') :
             \E s \in Slot : Ends(s, routes'[r].provider)
       /\ \A n \in Changed(notes, notes') \intersect DOMAIN notes :
             \E s \in Slot : Ends(s, notes'[n].provider)
      ]_vars

(* schema.prisma's cascades against the services' read-then-write: no route *)
(* and no notification is left behind, or added, when its provider goes,   *)
(* so that a paying client is never sent to a provider that is not there.  *)
NoOrphans ==
    /\ \A r \in Rows(routes) : routes[r].provider \in Rows(providers)
    /\ \A n \in Rows(notes) : notes[n].provider \in Rows(providers)

===============================================================================
