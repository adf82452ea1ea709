----------------------------- MODULE CatalogProofs -----------------------------
(***************************************************************************)
(* The console's properties, from a process's start to a request's last    *)
(* write, for any sets of environments, wallets, challenges, sessions and  *)
(* rows and any number of requests in flight.                              *)
(***************************************************************************)
EXTENDS Catalog, TLAPS

-------------------------------------------------------------------------------
(* Starting.                                                               *)

(* What a mainnet environment that passes the checks is configured to.     *)
LEMMA MainnetConfig ==
    ASSUME NEW e \in Environment, mainnetConsistent(e), e.STELLAR_NETWORK = "mainnet"
    PROVE  /\ "marked" \notin {loadConfig(e).horizonUrl, loadConfig(e).sorobanRpcUrl}
           /\ loadConfig(e).networkPassphrase = "main" /\ loadConfig(e).usdcIssuer = "circle"
<1>1. e.HORIZON_URL # "marked" /\ e.SOROBAN_RPC_URL # "marked"
  BY DEF mainnetConsistent, isTestNetworkUrl
<1>2. networkDefaults(e) = [url |-> "main", passphrase |-> "main", issuer |-> "circle"]
  BY DEF networkDefaults
<1>3. \A url : url # "marked" => Or(url, "main") # "marked"
  BY DEF Or
<1>4. Or(e.USDC_ISSUER, "circle") = "circle"
  BY <1>2 DEF mainnetConsistent
<1>5. /\ loadConfig(e).horizonUrl = Or(e.HORIZON_URL, "main")
      /\ loadConfig(e).sorobanRpcUrl = Or(e.SOROBAN_RPC_URL, "main")
      /\ loadConfig(e).networkPassphrase = "main"
      /\ loadConfig(e).usdcIssuer = Or(e.USDC_ISSUER, "circle")
  BY <1>2 DEF loadConfig
<1> QED
  BY <1>1, <1>3, <1>4, <1>5

ProcessType ==
    [pc : {"down", "history", "tables", "create", "ping", "listening"},
     env : {Down.env} \union Environments, checked : 0 .. 3, managed : BOOLEAN]

Seen == \A i \in 1 .. process.checked : REQUIRED_SCHEMA_TABLES[i] \in relations

(* What a process that is still starting has seen stays true, as nothing   *)
(* in the schema is dropped.                                               *)
BootInv ==
    /\ process \in ProcessType
    /\ process.pc \in {"history", "tables", "create", "ping"} =>
          process.env \in Environments /\ validateEnv(process.env)
    /\ Seen
    /\ process.managed => MIGRATIONS_TABLE \in relations
    /\ process.pc \in {"create", "ping"} =>
          process.checked = 3 /\ (process.managed \/ ~Production(process.env))
    /\ Reached("ping") => loadable(process.env) /\ config = loadConfig(process.env)
    /\ listening => BootIsSafe /\ (config.production => ~config.authDevMode)

(* A process that is gone, and one that has begun, has seen nothing.       *)
LEMMA DownIsFresh ==
    /\ Down \in ProcessType
    /\ Down.pc = "down" /\ Down.checked = 0 /\ ~Down.managed
    /\ [Down EXCEPT !.pc = "listening"] \in ProcessType
    /\ [Down EXCEPT !.pc = "listening"].pc = "listening"
    /\ [Down EXCEPT !.pc = "listening"].checked = 0
    /\ ~[Down EXCEPT !.pc = "listening"].managed
<1> DEFINE up == [Down EXCEPT !.pc = "listening"]
<1>1. Down = [pc |-> "down", env |-> << >>, checked |-> 0, managed |-> FALSE]
  BY DEF Down
<1>2. Down \in ProcessType
  <2>1. PICK none : Down = [pc |-> "down", env |-> none, checked |-> 0, managed |-> FALSE]
    BY <1>1
  <2>2. Down.env = none
    BY <2>1
  <2> QED
    BY <2>1, <2>2 DEF ProcessType
<1>3. up \in ProcessType
  BY <1>2 DEF ProcessType
<1>4. Down.pc = "down" /\ Down.checked = 0 /\ up.pc = "listening" /\ up.checked = 0
  BY <1>1
<1>5. ~Down.managed /\ ~up.managed
  BY <1>1
<1> QED
  BY <1>2, <1>3, <1>4, <1>5

(* Nothing runs, so nothing has been seen.                                 *)
LEMMA InitBoot == Init => BootInv
<1> SUFFICES ASSUME Init PROVE BootInv
  OBVIOUS
<1>1. /\ process \in ProcessType /\ process.pc = "down"
      /\ process.checked = 0 /\ ~process.managed
  BY DownIsFresh DEF Init, BootInit
<1> QED
  BY <1>1 DEF BootInv, Seen, Reached, listening

LEMMA GoneIsSafe ==
    ASSUME process' = Down
    PROVE  BootInv'
BY DownIsFresh DEF BootInv, Seen, Reached, listening

LEMMA NextBoot == BootInv /\ [Next]_vars => BootInv'
<1> SUFFICES ASSUME BootInv, [Next]_vars PROVE BootInv'
  OBVIOUS
<1>1. CASE UNCHANGED boot
  BY <1>1 DEF BootInv, boot, Seen, Reached, listening, BootIsSafe
<1>2. CASE Deploy
  <2>1. UNCHANGED <<relations, config>> /\ Reached("down")
    BY <1>2 DEF Deploy
  <2>2. PICK e \in Environments :
           process' = IF validateEnv(e) THEN [Down EXCEPT !.pc = "history", !.env = e] ELSE Down
    BY <1>2 DEF Deploy
  <2>3. CASE ~validateEnv(e)
    BY <2>2, <2>3, GoneIsSafe
  <2>4. CASE validateEnv(e)
    <3>1. /\ process' = [Down EXCEPT !.pc = "history", !.env = e]
          /\ Down \in ProcessType /\ Down.checked = 0 /\ ~Down.managed
      BY <2>2, <2>4, DownIsFresh
    <3>2. /\ process' \in ProcessType /\ process'.pc = "history" /\ process'.env = e
          /\ process'.checked = 0 /\ ~process'.managed
      BY <3>1 DEF ProcessType
    <3> QED
      BY <2>4, <3>2 DEF BootInv, Seen, Reached, listening
  <2> QED
    BY <2>3, <2>4
<1>3. CASE probeHistory
  <2>1. UNCHANGED <<relations, config>> /\ process.pc = "history"
    BY <1>3 DEF probeHistory, Reached
  <2>2. CASE process' = Down
    BY <2>2, GoneIsSafe
  <2>3. CASE process' = [process EXCEPT !.pc = "tables", !.managed = relationExists(MIGRATIONS_TABLE)]
    <3>1. relationExists(MIGRATIONS_TABLE) \in BOOLEAN
      BY DEF relationExists
    <3>2. /\ process' \in ProcessType /\ process'.pc = "tables" /\ process'.env = process.env
          /\ process'.checked = process.checked
      BY <2>3, <3>1 DEF BootInv, ProcessType
    <3>3. process'.managed = relationExists(MIGRATIONS_TABLE)
      BY <2>3 DEF BootInv, ProcessType
    <3>4. process'.managed => MIGRATIONS_TABLE \in relations
      BY <3>3 DEF relationExists
    <3> QED
      BY <2>1, <3>2, <3>4 DEF BootInv, Seen, Reached, listening
  <2> QED
    BY <1>3, <2>2, <2>3 DEF probeHistory, Exit
<1>4. CASE probeTables
  <2>1. UNCHANGED <<relations, config>> /\ process.pc = "tables"
    BY <1>4 DEF probeTables, Reached
  <2>2. CASE process' = Down
    BY <2>2, GoneIsSafe
  <2>3. CASE /\ process.checked < 3
             /\ REQUIRED_SCHEMA_TABLES[process.checked + 1] \in relations
             /\ process' = [process EXCEPT !.checked = @ + 1]
    <3>1. /\ process.checked \in 0 .. 3 /\ process'.checked = process.checked + 1
          /\ process' \in ProcessType /\ process'.pc = process.pc
          /\ process'.env = process.env /\ process'.managed = process.managed
      BY <2>3 DEF BootInv, ProcessType
    <3>2. Seen'
      BY <2>1, <2>3, <3>1 DEF BootInv, Seen
    <3> QED
      BY <2>1, <2>3, <3>1, <3>2 DEF BootInv, Reached, listening
  <2>4. CASE /\ process.checked = 3 /\ (process.managed \/ ~Production(process.env))
             /\ process' = [process EXCEPT !.pc = "create"]
    <3>1. /\ process' \in ProcessType /\ process'.pc = "create"
          /\ process'.env = process.env /\ process'.managed = process.managed
          /\ process'.checked = process.checked
      BY <2>4 DEF BootInv, ProcessType
    <3> QED
      BY <2>1, <2>4, <3>1 DEF BootInv, Seen, Reached, listening
  <2>5. Len(REQUIRED_SCHEMA_TABLES) = 3
    BY DEF REQUIRED_SCHEMA_TABLES
  <2> QED
    BY <1>4, <2>2, <2>3, <2>4, <2>5 DEF probeTables, relationExists, Exit, Proceed
<1>5. CASE create
  <2>1. relations' = relations /\ process.pc = "create"
    BY <1>5 DEF create, Reached
  <2>2. CASE process' = Down
    BY <2>2, GoneIsSafe
  <2>3. CASE /\ loadable(process.env) /\ config' = loadConfig(process.env)
             /\ process' = [process EXCEPT !.pc = "ping"]
    <3>1. /\ process' \in ProcessType /\ process'.pc = "ping"
          /\ process'.env = process.env /\ process'.managed = process.managed
          /\ process'.checked = process.checked
      BY <2>3 DEF BootInv, ProcessType
    <3>2. loadable(process'.env) /\ config' = loadConfig(process'.env)
      BY <2>3, <3>1
    <3> QED
      BY <2>1, <3>1, <3>2 DEF BootInv, Seen, Reached, listening
  <2> QED
    BY <1>5, <2>2, <2>3 DEF create, Exit, Proceed
<1>6. CASE onModuleInit
  <2>1. relations' = relations /\ process.pc = "ping"
    BY <1>6 DEF onModuleInit, Reached
  <2>2. CASE process' = Down
    BY <2>2, GoneIsSafe
  <2>3. CASE process' = [Down EXCEPT !.pc = "listening"] /\ config' = config
    <3>1. /\ process.env \in Environment /\ loadable(process.env)
          /\ config = loadConfig(process.env)
      BY <2>1, StartupAssumption DEF BootInv, Reached
    <3>2. config.network = "mainnet" =>
              /\ "marked" \notin {config.horizonUrl, config.sorobanRpcUrl}
              /\ config.networkPassphrase = "main" /\ config.usdcIssuer = "circle"
      <4>1. config.network = process.env.STELLAR_NETWORK
        BY <3>1 DEF loadConfig
      <4> QED
        BY <3>1, <4>1, MainnetConfig DEF loadable
    <3>3. \A i \in DOMAIN REQUIRED_SCHEMA_TABLES : REQUIRED_SCHEMA_TABLES[i] \in relations
      <4>1. DOMAIN REQUIRED_SCHEMA_TABLES = 1 .. 3
        BY DEF REQUIRED_SCHEMA_TABLES
      <4> QED
        BY <2>1, <4>1 DEF BootInv, Seen
    <3>4. config.production => MIGRATIONS_TABLE \in relations /\ ~config.authDevMode
      BY <2>1, <3>1 DEF BootInv, loadConfig, loadable, noDevAuthInProduction, Production
    <3>5. BootIsSafe' /\ (config.production => ~config.authDevMode)'
      BY <2>1, <2>3, <3>2, <3>3, <3>4 DEF BootIsSafe
    <3>6. /\ process' \in ProcessType /\ process'.pc = "listening"
          /\ process'.checked = 0 /\ ~process'.managed
      BY <2>3, DownIsFresh
    <3> QED
      BY <3>5, <3>6 DEF BootInv, Seen, Reached, listening
  <2> QED
    BY <1>6, <2>2, <2>3 DEF onModuleInit, Exit
<1>7. CASE migrate
  <2>1. /\ ~listening /\ UNCHANGED <<process, config>>
        /\ \A table \in relations : table \in relations'
    BY <1>7 DEF migrate, listening
  <2>2. Seen'
    BY <2>1 DEF BootInv, Seen
  <2> QED
    BY <2>1, <2>2 DEF BootInv, Reached, listening
<1> QED
  BY <1>1, <1>2, <1>3, <1>4, <1>5, <1>6, <1>7 DEF Next, vars, Boot

(* A gateway that listens on the main network uses no URL that names a     *)
(* test network and runs on the tables its guard names, for any set of     *)
(* environments it is deployed in and any interruption of the migrations   *)
(* (BootIsSafe).                                                           *)
THEOREM BootIsSafeAlways == Spec => []BootIsSafe
<1>1. BootInv => BootIsSafe
  BY DEF BootInv, BootIsSafe
<1> QED
  BY <1>1, InitBoot, NextBoot, PTL DEF Spec

-------------------------------------------------------------------------------
(* Signing in.                                                             *)

Writes == {"update provider", "approve", "create route", "update route", "mark read"}

RequestType ==
    [pc : {"idle", "read", "consume", "create", "guard", "act"} \union Writes,
     challenge : Challenge \union {NoChallenge},
     token : Session \union {NoSession}, who : Address \union {Nobody},
     row : Provider \union Route \union Note \union {NoRow}, late : BOOLEAN]

TokenType == [address : Address \union {Nobody}, over : BOOLEAN]

Buys(s) == ask[s].pc \in {"consume", "create"}
Named(s) == ask[s].pc \notin {"idle", "read", "consume", "create"}
Signed(a, c) == <<a, c>> \in signed

(* What the store agrees on: a session that was signed out of, or whose    *)
(* token is over, is not live, and a challenge that was spent, and so      *)
(* signed, is gone for good.                                               *)
StoreInv ==
    /\ issued \in [DOMAIN issued -> TokenType] /\ DOMAIN issued \subseteq Session
    /\ live \subseteq DOMAIN issued /\ ended \subseteq DOMAIN issued \ live
    /\ \A t \in live : ~issued[t].over
    /\ \A c \in spent : c \notin challenges /\ \E a : Signed(a, c)
    /\ listening /\ config.production =>
          \A t \in DOMAIN issued : \E c \in spent : Signed(issued[t].address, c)

(* What a request in flight relies on between its calls.                   *)
RequestInv(s) ==
    /\ At(s, "idle") => ask[s].token = NoSession
    /\ At(s, "read") => ask[s].challenge \in Challenge /\ (ask[s].late => ask[s].challenge \in spent)
    /\ Buys(s) => /\ ~ask[s].late
                  /\ \/ ask[s].challenge \in Challenge /\ Signed(ask[s].who, ask[s].challenge)
                     \/ At(s, "create") /\ ask[s].challenge = NoChallenge /\ config.authDevMode
    /\ At(s, "create") => ask[s].challenge \notin challenges \/ ask[s].challenge = NoChallenge
    /\ Named(s) => ask[s].token \in DOMAIN issued
    /\ At(s, "guard") /\ ask[s].late => ask[s].token \notin live
    /\ ask[s].token # NoSession /\ ~At(s, "guard") => ~ask[s].late

SessionInv ==
    /\ StoreInv
    /\ ask \in [Slot -> RequestType]
    /\ \A s \in Slot : RequestInv(s)
    /\ ~listening => DOMAIN issued = {} /\ \A s \in Slot : At(s, "idle")

(* What every step keeps of what other requests rely on.                   *)
Lasts ==
    /\ config' = config
    /\ signed \subseteq signed' /\ spent \subseteq spent'
    /\ DOMAIN issued \subseteq DOMAIN issued' /\ live' \intersect DOMAIN issued \subseteq live
    /\ \A c \in challenges' \ challenges : \A a : ~Signed(a, c)

LEMMA OthersGoOn ==
    ASSUME NEW r \in Slot, SessionInv, Lasts, ask'[r] = ask[r]
    PROVE  RequestInv(r)'
BY DEF SessionInv, RequestInv, Lasts, At, Buys, Named, Signed

(* A request that is answered leaves an idle slot.                         *)
LEMMA IdleType == Idle \in RequestType /\ Idle.pc = "idle" /\ Idle.token = NoSession
<1>1. Idle \in RequestType
  BY DEF Idle, RequestType
<1>2. Idle.pc = "idle" /\ Idle.token = NoSession
  BY DEF Idle
<1> QED
  BY <1>1, <1>2

LEMMA AnsweredIsIdle ==
    ASSUME NEW r \in Slot, ask'[r] = Idle
    PROVE  RequestInv(r)'
BY IdleType DEF RequestInv, At, Buys, Named

(* So a step that changes one request need only look at that one.          *)
LEMMA OneRequest ==
    ASSUME SessionInv, Lasts, listening, listening', StoreInv', NEW s \in Slot, NEW q,
           ask' = [ask EXCEPT ![s] = q], q \in RequestType, RequestInv(s)'
    PROVE  SessionInv'
<1>1. ask' \in [Slot -> RequestType] /\ \A r \in Slot : r # s => ask'[r] = ask[r]
  BY DEF SessionInv
<1>2. \A r \in Slot : RequestInv(r)'
  BY <1>1, OthersGoOn
<1> QED
  BY <1>1, <1>2 DEF SessionInv

LEMMA NoRequest ==
    ASSUME SessionInv, Lasts, listening, listening', StoreInv', ask' = ask
    PROVE  SessionInv'
<1>1. \A r \in Slot : RequestInv(r)'
  BY OthersGoOn
<1> QED
  BY <1>1 DEF SessionInv

(* Steps of the store and of wallets.                                      *)
LEMMA NextStore ==
    ASSUME SessionInv, BootInv, listening, UNCHANGED boot,
           \/ \E c \in Challenge :
                 ChallengeExpires(c) \/ createChallenge(c) \/ \E a \in Address : Sign(a, c)
           \/ \E t \in Session : SessionExpires(t)
    PROVE  SessionInv'
<1>1. listening' /\ config' = config /\ StoreInv
  BY DEF boot, listening, Reached, SessionInv
<1>2. ASSUME NEW c \in Challenge, ChallengeExpires(c) PROVE SessionInv'
  <2>1. /\ challenges' \subseteq challenges
        /\ UNCHANGED <<issued, live, ask, signed, spent, ended>>
    BY <1>2 DEF ChallengeExpires, past
  <2>2. Lasts /\ StoreInv'
    BY <1>1, <2>1 DEF Lasts, StoreInv, Signed
  <2> QED
    BY <1>1, <2>1, <2>2, NoRequest
<1>3. ASSUME NEW c \in Challenge, createChallenge(c) PROVE SessionInv'
  <2>1. /\ challenges' = challenges \union {c} /\ \A p \in signed : p[2] # c
        /\ UNCHANGED <<issued, live, ask, signed, spent, ended>>
    BY <1>3 DEF createChallenge, past
  <2>2. \A a : ~Signed(a, c)
    <3> SUFFICES ASSUME NEW a, <<a, c>> \in signed PROVE FALSE
      BY DEF Signed
    <3> QED
      BY <2>1
  <2>3. Lasts /\ StoreInv'
    BY <1>1, <2>1, <2>2 DEF Lasts, StoreInv, Signed
  <2> QED
    BY <1>1, <2>1, <2>3, NoRequest
<1>4. ASSUME NEW c \in Challenge, NEW a \in Address, Sign(a, c) PROVE SessionInv'
  <2>1. /\ signed' = signed \union {<<a, c>>}
        /\ UNCHANGED <<challenges, issued, live, ask, spent, ended>>
    BY <1>4 DEF Sign, store
  <2>2. Lasts /\ StoreInv'
    BY <1>1, <2>1 DEF Lasts, StoreInv, Signed
  <2> QED
    BY <1>1, <2>1, <2>2, NoRequest
<1>5. ASSUME NEW t \in Session, SessionExpires(t) PROVE SessionInv'
  <2>1. /\ t \in live /\ live' = live \ {t}
        /\ UNCHANGED <<challenges, ask, signed, spent, ended>>
    BY <1>5 DEF SessionExpires, past
  <2>2. PICK b \in BOOLEAN : issued' = [issued EXCEPT ![t].over = b]
    BY <1>5 DEF SessionExpires
  <2>3. /\ DOMAIN issued' = DOMAIN issued /\ t \in DOMAIN issued
        /\ issued' \in [DOMAIN issued -> TokenType]
        /\ issued'[t].address = issued[t].address
        /\ \A u \in DOMAIN issued : u # t => issued'[u] = issued[u]
    BY <1>1, <2>1, <2>2 DEF StoreInv, TokenType
  <2>4. \A u \in live' : ~issued'[u].over
    BY <1>1, <2>1, <2>3 DEF StoreInv
  <2>5. Lasts
    BY <1>1, <2>1, <2>3 DEF Lasts
  <2>6. StoreInv'
    BY <1>1, <2>1, <2>3, <2>4 DEF StoreInv, Signed
  <2> QED
    BY <1>1, <2>1, <2>5, <2>6, NoRequest
<1> QED
  BY <1>2, <1>3, <1>4, <1>5

(* A request that ends and leaves the store as it is.                      *)
LEMMA RequestEnds ==
    ASSUME SessionInv, listening, UNCHANGED boot, NEW s \in Slot, Finish(s),
           UNCHANGED <<store, past>>
    PROVE  SessionInv'
<1>1. /\ listening' /\ config' = config /\ StoreInv /\ ask \in [Slot -> RequestType]
      /\ UNCHANGED <<challenges, issued, live, signed, spent, ended>>
  BY DEF boot, listening, Reached, SessionInv, store, past
<1>2. Lasts /\ StoreInv'
  BY <1>1 DEF Lasts, StoreInv, Signed
<1>3. ask' = [ask EXCEPT ![s] = Idle] /\ ask'[s] = Idle
  BY <1>1 DEF Finish
<1> QED
  BY <1>1, <1>2, <1>3, IdleType, AnsweredIsIdle, OneRequest

(* A request that goes on to another call, with what it has learnt.        *)
LEMMA RequestGoesOn ==
    ASSUME SessionInv, listening, UNCHANGED boot, NEW s \in Slot, NEW q \in RequestType,
           ask' = [ask EXCEPT ![s] = q], UNCHANGED <<store, past>>, RequestInv(s)'
    PROVE  SessionInv'
<1>1. /\ listening' /\ config' = config /\ StoreInv
      /\ UNCHANGED <<challenges, issued, live, signed, spent, ended>>
  BY DEF boot, listening, Reached, SessionInv, store, past
<1>2. Lasts /\ StoreInv'
  BY <1>1 DEF Lasts, StoreInv, Signed
<1> QED
  BY <1>1, <1>2, OneRequest

LEMMA NextSignIn ==
    ASSUME SessionInv, BootInv, listening, UNCHANGED boot, NEW s \in Slot, SignIn(s)
    PROVE  SessionInv'
<1>1. /\ listening' /\ config' = config /\ StoreInv /\ ask \in [Slot -> RequestType]
      /\ ask[s] \in RequestType /\ RequestInv(s)
  BY DEF boot, listening, Reached, SessionInv
<1>2. ASSUME NEW a \in Address, StartVerifyDev(s, a) PROVE SessionInv'
  <2> DEFINE q == [Idle EXCEPT !.pc = "create", !.who = a]
  <2>1. /\ q \in RequestType /\ q.pc = "create" /\ q.token = NoSession
        /\ q.challenge = NoChallenge /\ ~q.late
    BY DEF Idle, RequestType
  <2>2. ask' = [ask EXCEPT ![s] = q] /\ config.authDevMode /\ UNCHANGED <<store, past>>
    BY <1>2 DEF StartVerifyDev
  <2> HIDE DEF q
  <2>3. ask'[s] = q
    BY <1>1, <2>2
  <2>4. RequestInv(s)'
    BY <1>1, <2>1, <2>2, <2>3 DEF RequestInv, At, Buys, Named
  <2> QED
    BY <2>1, <2>2, <2>4, RequestGoesOn
<1>3. ASSUME NEW a \in Address, NEW c \in Challenge, StartVerify(s, a, c) PROVE SessionInv'
  <2> DEFINE late == c \in spent
             q == [Idle EXCEPT !.pc = "read", !.who = a, !.challenge = c, !.late = late]
  <2>1. late \in BOOLEAN /\ (late => c \in spent)
    OBVIOUS
  <2>2. ask' = [ask EXCEPT ![s] = q] /\ UNCHANGED <<store, past>>
    BY <1>3 DEF StartVerify
  <2> HIDE DEF late
  <2>3. /\ q \in RequestType /\ q.pc = "read" /\ q.token = NoSession
        /\ q.challenge = c /\ q.late = late
    BY <2>1, IdleType DEF RequestType
  <2> HIDE DEF q
  <2>4. ask'[s] = q /\ spent' = spent
    BY <1>1, <2>2 DEF past
  <2>5. RequestInv(s)'
    BY <2>1, <2>3, <2>4 DEF RequestInv, At, Buys, Named
  <2> QED
    BY <2>2, <2>3, <2>5, RequestGoesOn
<1>4. CASE ReadChallenge(s)
  <2>1. /\ UNCHANGED <<store, past>> /\ At(s, "read")
        /\ \/ Finish(s)
           \/ /\ ask[s].challenge \in challenges /\ Signed(ask[s].who, ask[s].challenge)
              /\ Goto(s, "consume")
    BY <1>4 DEF ReadChallenge, verifyChallenge, Signed
  <2>2. CASE Finish(s)
    BY <2>1, <2>2, RequestEnds
  <2>3. CASE /\ ask[s].challenge \in challenges /\ Signed(ask[s].who, ask[s].challenge)
             /\ Goto(s, "consume")
    <3> DEFINE q == [ask[s] EXCEPT !.pc = "consume"]
    <3>1. /\ q \in RequestType /\ q.pc = "consume" /\ q.token = ask[s].token
          /\ q.challenge = ask[s].challenge /\ q.who = ask[s].who /\ q.late = ask[s].late
      BY <1>1 DEF RequestType
    <3>2. ask' = [ask EXCEPT ![s] = q]
      BY <2>3 DEF Goto
    <3> HIDE DEF q
    <3>3. ask'[s] = q /\ signed' = signed
      BY <1>1, <2>1, <3>2 DEF past
    <3>4. ~q.late /\ q.challenge \in Challenge
      BY <1>1, <2>1, <2>3, <3>1 DEF RequestInv, StoreInv, At
    <3>5. RequestInv(s)'
      BY <2>3, <3>1, <3>3, <3>4 DEF RequestInv, At, Buys, Named, Signed
    <3> QED
      BY <2>1, <3>1, <3>2, <3>5, RequestGoesOn
  <2> QED
    BY <2>1, <2>2, <2>3
<1>5. CASE ConsumeChallenge(s)
  <2> DEFINE q == [ask[s] EXCEPT !.pc = "create"]
  <2>1. /\ challenges' = challenges \ {ask[s].challenge} /\ At(s, "consume")
        /\ UNCHANGED <<issued, live, signed, spent, ended>> /\ ask' = [ask EXCEPT ![s] = q]
    BY <1>5 DEF ConsumeChallenge, Goto, past
  <2>2. /\ q \in RequestType /\ q.pc = "create" /\ q.token = ask[s].token
        /\ q.challenge = ask[s].challenge /\ q.who = ask[s].who /\ q.late = ask[s].late
    BY <1>1 DEF RequestType
  <2> HIDE DEF q
  <2>3. ask'[s] = q
    BY <1>1, <2>1
  <2>4. Lasts /\ StoreInv'
    BY <1>1, <2>1 DEF Lasts, StoreInv, Signed
  <2>5. RequestInv(s)'
    BY <1>1, <2>1, <2>2, <2>3 DEF RequestInv, At, Buys, Named, Signed
  <2> QED
    BY <1>1, <2>1, <2>2, <2>4, <2>5, OneRequest
<1>6. ASSUME NEW t \in Session, createSession(s, t) PROVE SessionInv'
  <2>1. /\ At(s, "create") /\ t \notin DOMAIN issued
        /\ issued' = [u \in DOMAIN issued \union {t} |->
                         IF u = t THEN NewSession(ask[s].who) ELSE issued[u]]
        /\ live' = live \union {t}
        /\ spent' = spent \union ({ask[s].challenge} \ {NoChallenge})
        /\ Finish(s) /\ UNCHANGED <<challenges, signed, ended>>
    BY <1>6 DEF createSession
  <2>2. /\ NewSession(ask[s].who) \in TokenType
        /\ NewSession(ask[s].who).address = ask[s].who
        /\ ~NewSession(ask[s].who).over
    <3>1. ask[s].who \in Address \union {Nobody}
      BY <1>1 DEF RequestType
    <3>2. NewSession(ask[s].who) \in TokenType
      BY <3>1 DEF NewSession, TokenType
    <3>3. NewSession(ask[s].who).address = ask[s].who
      BY DEF NewSession
    <3>4. ~NewSession(ask[s].who).over
      BY DEF NewSession
    <3> QED
      BY <3>2, <3>3, <3>4
  <2> DEFINE new == NewSession(ask[s].who)
  <2> HIDE DEF new
  <2>3. /\ DOMAIN issued' = DOMAIN issued \union {t} /\ issued'[t] = new
        /\ \A u \in DOMAIN issued : u # t /\ issued'[u] = issued[u]
    BY <2>1 DEF new
  <2>4. issued' \in [DOMAIN issued' -> TokenType]
    BY <1>1, <2>1, <2>2, <2>3 DEF new, StoreInv
  <2>5. Lasts
    BY <1>1, <2>1, <2>3 DEF Lasts, StoreInv
  <2>6. \A u \in live' : ~issued'[u].over
    BY <1>1, <2>1, <2>2, <2>3 DEF new, StoreInv
  <2>7. \A c \in spent' : c \notin challenges' /\ \E a : Signed(a, c)
    BY <1>1, <2>1 DEF StoreInv, RequestInv, At, Buys
  <2>8. config.production =>
           \A u \in DOMAIN issued' : \E c \in spent' : Signed(issued'[u].address, c)
    <3> SUFFICES ASSUME config.production, NEW u \in DOMAIN issued'
                 PROVE  \E c \in spent' : Signed(issued'[u].address, c)
      OBVIOUS
    <3>1. CASE u \in DOMAIN issued
      BY <1>1, <2>1, <2>3, <3>1 DEF StoreInv
    <3>2. CASE u = t
      <4>1. ~config.authDevMode
        BY DEF BootInv
      <4>2. ask[s].challenge \in Challenge /\ Signed(ask[s].who, ask[s].challenge)
        BY <1>1, <2>1, <4>1 DEF RequestInv, Buys, At
      <4>3. ask[s].challenge \in spent'
        BY <2>1, <4>2, SessionsAssumption
      <4> QED
        BY <2>2, <2>3, <3>2, <4>2, <4>3 DEF new
    <3> QED
      BY <2>3, <3>1, <3>2
  <2>9. StoreInv'
    BY <1>1, <2>1, <2>3, <2>4, <2>6, <2>7, <2>8 DEF StoreInv, Signed
  <2> QED
    <3>1. ask' = [ask EXCEPT ![s] = Idle] /\ ask'[s] = Idle
      BY <1>1, <2>1 DEF Finish
    <3> QED
      BY <1>1, <2>5, <2>9, <3>1, IdleType, AnsweredIsIdle, OneRequest
<1>7. ASSUME NEW t \in Session, Present(s, t) PROVE SessionInv'
  <2> DEFINE late == t \in ended \/ issued[t].over
             q == [Idle EXCEPT !.pc = "guard", !.token = t, !.late = late]
  <2>1. ask' = [ask EXCEPT ![s] = q] /\ UNCHANGED <<store, past>> /\ t \in DOMAIN issued
    BY <1>7 DEF Present
  <2>2. late \in BOOLEAN /\ (late => t \notin live)
    BY <1>1, <2>1 DEF StoreInv, TokenType
  <2> HIDE DEF late
  <2>3. q \in RequestType /\ q.pc = "guard" /\ q.token = t /\ q.late = late
    BY <2>2, IdleType DEF RequestType
  <2> HIDE DEF q
  <2>4. ask'[s] = q /\ live' = live /\ issued' = issued
    BY <1>1, <2>1 DEF store
  <2>5. RequestInv(s)'
    BY <2>1, <2>2, <2>3, <2>4 DEF RequestInv, At, Buys, Named
  <2> QED
    BY <2>1, <2>3, <2>5, RequestGoesOn
<1>8. CASE Authorize(s)
  <2>1. /\ UNCHANGED <<store, past>> /\ At(s, "guard")
        /\ \/ Finish(s)
           \/ /\ ask[s].token \in live
              /\ ask' = [ask EXCEPT ![s].pc = "act",
                                    ![s].who = issued[ask[s].token].address]
    BY <1>8 DEF Authorize, validateToken, validateSession
  <2>2. CASE Finish(s)
    BY <2>1, <2>2, RequestEnds
  <2>3. CASE /\ ask[s].token \in live
             /\ ask' = [ask EXCEPT ![s].pc = "act",
                                   ![s].who = issued[ask[s].token].address]
    <3> DEFINE address == issued[ask[s].token].address
               q == [ask[s] EXCEPT !.pc = "act", !.who = address]
    <3>1. address \in Address \union {Nobody}
      BY <1>1, <2>3 DEF StoreInv, TokenType
    <3>2. ask' = [ask EXCEPT ![s] = q]
      BY <1>1, <2>3
    <3> HIDE DEF address
    <3>3. /\ q \in RequestType /\ q.pc = "act" /\ q.token = ask[s].token
          /\ q.late = ask[s].late
      BY <1>1, <3>1 DEF RequestType
    <3> HIDE DEF q
    <3>4. ask'[s] = q /\ ~q.late /\ q.token \in DOMAIN issued /\ issued' = issued
      BY <1>1, <2>1, <2>3, <3>2, <3>3 DEF RequestInv, At, Named, store
    <3>5. RequestInv(s)'
      BY <3>3, <3>4 DEF RequestInv, At, Buys, Named
    <3> QED
      BY <2>1, <3>2, <3>3, <3>5, RequestGoesOn
  <2> QED
    BY <2>1, <2>2, <2>3
<1>9. CASE destroySession(s)
  <2>1. /\ live' = live \ {ask[s].token} /\ ended' = ended \union {ask[s].token}
        /\ Finish(s) /\ UNCHANGED <<challenges, issued, signed, spent>>
    BY <1>9 DEF destroySession, Destroyed
  <2>2. ask[s].token \in DOMAIN issued
    BY <1>9, <1>1 DEF destroySession, RequestInv, At, Named
  <2>3. Lasts /\ StoreInv'
    BY <1>1, <2>1, <2>2 DEF Lasts, StoreInv, Signed
  <2>4. ask' = [ask EXCEPT ![s] = Idle] /\ ask'[s] = Idle
    BY <1>1, <2>1 DEF Finish
  <2> QED
    BY <1>1, <2>3, <2>4, IdleType, AnsweredIsIdle, OneRequest
<1>10. CASE Throw(s)
  BY <1>10, RequestEnds DEF Throw
<1> QED
  BY <1>2, <1>3, <1>4, <1>5, <1>6, <1>7, <1>8, <1>9, <1>10 DEF SignIn

(* Managing rows touches no session: it looks a row up, or it is done.     *)
LEMMA LookUpKeeps ==
    ASSUME SessionInv, listening, UNCHANGED boot, NEW s \in Slot,
           NEW ids, ids \subseteq Provider \union Route \union Note,
           NEW table, NEW write \in Writes, LookUp(s, ids, table, write)
    PROVE  SessionInv'
<1>1. UNCHANGED <<store, past>> /\ At(s, "act")
  BY DEF LookUp
<1>2. PICK i \in ids : IF i \in table
                     THEN ask' = [ask EXCEPT ![s].pc = write, ![s].row = i]
                     ELSE Finish(s)
  BY DEF LookUp
<1>3. CASE i \notin table
  BY <1>1, <1>2, <1>3, RequestEnds
<1>4. CASE i \in table
  <2> DEFINE q == [ask[s] EXCEPT !.pc = write, !.row = i]
  <2>1. /\ ask \in [Slot -> RequestType] /\ ask[s] \in RequestType /\ RequestInv(s)
    BY DEF SessionInv
  <2>2. ask' = [ask EXCEPT ![s] = q]
    BY <1>2, <1>4, <2>1
  <2>3. /\ q \in RequestType /\ q.pc = write /\ q.token = ask[s].token /\ q.late = ask[s].late
    BY <1>2, <2>1 DEF RequestType
  <2> HIDE DEF q
  <2>4. ask'[s] = q /\ issued' = issued
    BY <1>1, <2>1, <2>2 DEF store
  <2>5. write \notin {"idle", "read", "consume", "create", "guard"}
    BY DEF Writes
  <2>6. RequestInv(s)'
    BY <1>1, <2>1, <2>3, <2>4, <2>5 DEF RequestInv, At, Buys, Named
  <2> QED
    BY <1>1, <2>2, <2>3, <2>6, RequestGoesOn
<1> QED
  BY <1>3, <1>4

LEMMA NextManage ==
    ASSUME SessionInv, listening, UNCHANGED boot, NEW s \in Slot, Manage(s)
    PROVE  SessionInv'
<1>1. CASE Done(s)
  BY <1>1, RequestEnds DEF Done
<1>2. CASE \/ findProvider(s) \/ findUnapproved(s) \/ findTarget(s)
           \/ findRoute(s) \/ findNote(s)
  BY <1>2, LookUpKeeps DEF findProvider, findUnapproved, findTarget, findRoute, findNote, Writes
<1> QED
  BY <1>1, <1>2 DEF Manage, createProvider, updateProvider, approve, deleteProvider,
       createRoute, updateRoute, deleteRoute, markRead, markAllRead

LEMMA InitSession == Init => SessionInv
<1> SUFFICES ASSUME Init PROVE SessionInv
  OBVIOUS
<1>1. /\ issued = << >> /\ live = {} /\ spent = {} /\ ended = {}
      /\ ask = [s \in Slot |-> Idle] /\ ~listening
  BY DownIsFresh DEF Init, SignInInit, BootInit, listening, Reached
<1>2. DOMAIN issued = {} /\ issued \in [DOMAIN issued -> TokenType]
  BY <1>1
<1>3. StoreInv
  BY <1>1, <1>2 DEF StoreInv
<1>4. ask \in [Slot -> RequestType] /\ \A s \in Slot : RequestInv(s) /\ At(s, "idle")
  BY <1>1, IdleType DEF RequestInv, At, Buys, Named
<1> QED
  BY <1>2, <1>3, <1>4 DEF SessionInv

LEMMA NextSession == SessionInv /\ BootInv /\ [Next]_vars => SessionInv'
<1> SUFFICES ASSUME SessionInv, BootInv, [Next]_vars PROVE SessionInv'
  OBVIOUS
<1>1. CASE UNCHANGED <<signIn, boot>>
  BY <1>1 DEF signIn, store, past, boot, SessionInv, StoreInv, RequestInv, At, Buys, Named,
       Signed, listening, Reached
<1>2. CASE Boot /\ UNCHANGED signIn
  <2>1. ~listening
    BY <1>2 DEF Boot, Deploy, probeHistory, probeTables, create, onModuleInit, migrate,
         listening, Reached
  <2>2. /\ UNCHANGED <<challenges, issued, live, ask, signed, spent, ended>>
        /\ DOMAIN issued = {} /\ \A s \in Slot : At(s, "idle")
    BY <1>2, <2>1 DEF SessionInv, signIn, store, past
  <2>3. StoreInv'
    BY <2>2 DEF SessionInv, StoreInv, Signed
  <2>4. \A s \in Slot : RequestInv(s)' /\ At(s, "idle")'
    BY <2>2 DEF SessionInv, RequestInv, At, Buys, Named
  <2> QED
    BY <2>2, <2>3, <2>4 DEF SessionInv
<1>3. ASSUME listening, UNCHANGED boot, NEW s \in Slot, Manage(s) PROVE SessionInv'
  BY <1>3, NextManage
<1>4. ASSUME listening, UNCHANGED boot, SignInNext PROVE SessionInv'
  BY <1>4, NextStore, NextSignIn DEF SignInNext
<1>5. ASSUME UNCHANGED boot, NEW r \in Route, persistInAppNotification(r) PROVE SessionInv'
  BY <1>1, <1>5 DEF persistInAppNotification
<1> QED
  BY <1>1, <1>2, <1>3, <1>4, <1>5 DEF Next, Serve, vars

(* A token names a wallet that signed a challenge, and a spent challenge   *)
(* buys nothing in a verification that begins later, for any wallets,      *)
(* challenges and requests (SessionsAreSigned).                            *)
THEOREM SessionsAreSignedAlways == Spec => []SessionsAreSigned
<1>1. SessionInv => SessionsAreSigned
  BY DEF SessionInv, StoreInv, RequestInv, SessionsAreSigned, Signed, Buys
<1> QED
  BY <1>1, InitBoot, InitSession, NextBoot, NextSession, PTL DEF Spec

(* No request acts that arrived after its session's sign-out was answered  *)
(* or its token's expiry (ActsWhileSignedIn).                              *)
THEOREM ActsWhileSignedInAlways == Spec => []ActsWhileSignedIn
<1>1. SessionInv => ActsWhileSignedIn
  BY DEF SessionInv, RequestInv, ActsWhileSignedIn
<1> QED
  BY <1>1, InitBoot, InitSession, NextBoot, NextSession, PTL DEF Spec

-------------------------------------------------------------------------------
(* The rows.                                                               *)

Keeper == Address \union {Nobody}
ProviderRow == [owner : Keeper, kept : BOOLEAN, active : BOOLEAN]
RouteRow == [provider : DOMAIN providers, kept : BOOLEAN, active : BOOLEAN]
NoteRow == [provider : DOMAIN providers, kept : BOOLEAN, read : BOOLEAN]

(* What a request's look-up has found stays so until its write.            *)
WriteInv(s) ==
    /\ ask[s].pc \in {"update provider", "create route"} =>
          ask[s].row \in DOMAIN providers /\ owner(ask[s].row) = ask[s].who
    /\ At(s, "update route") =>
          ask[s].row \in DOMAIN routes /\ owner(routes[ask[s].row].provider) = ask[s].who
    /\ At(s, "mark read") =>
          ask[s].row \in DOMAIN notes /\ owner(notes[ask[s].row].provider) = ask[s].who

RowsInv ==
    /\ providers \in [DOMAIN providers -> ProviderRow]
    /\ routes \in [DOMAIN routes -> RouteRow]
    /\ notes \in [DOMAIN notes -> NoteRow]
    /\ NoOrphans

CatalogInv == RowsInv /\ \A s \in Slot : WriteInv(s)

(* No id is given twice, and no row changes hands.                         *)
SameHands ==
    /\ \A p \in DOMAIN providers :
          p \in DOMAIN providers' /\ providers'[p].owner = providers[p].owner
    /\ \A r \in DOMAIN routes :
          r \in DOMAIN routes' /\ routes'[r].provider = routes[r].provider
    /\ \A n \in DOMAIN notes :
          n \in DOMAIN notes' /\ notes'[n].provider = notes[n].provider

LEMMA WriteGoesOn ==
    ASSUME NEW r \in Slot, CatalogInv, SameHands, ask'[r] = ask[r]
    PROVE  WriteInv(r)'
<1>1. /\ routes \in [DOMAIN routes -> RouteRow] /\ notes \in [DOMAIN notes -> NoteRow]
      /\ WriteInv(r)
  BY DEF CatalogInv, RowsInv
<1>2. /\ \A i \in DOMAIN routes : routes[i].provider \in DOMAIN providers
      /\ \A n \in DOMAIN notes : notes[n].provider \in DOMAIN providers
  BY <1>1 DEF RouteRow, NoteRow
<1>3. ask[r].pc \in {"update provider", "create route"} =>
         ask[r].row \in DOMAIN providers' /\ owner(ask[r].row)' = ask[r].who
  BY <1>1 DEF WriteInv, SameHands, owner
<1>4. At(r, "update route") =>
         /\ ask[r].row \in DOMAIN routes'
         /\ providers'[routes'[ask[r].row].provider].owner = ask[r].who
  BY <1>1, <1>2 DEF WriteInv, SameHands, owner
<1>5. At(r, "mark read") =>
         /\ ask[r].row \in DOMAIN notes'
         /\ providers'[notes'[ask[r].row].provider].owner = ask[r].who
  BY <1>1, <1>2 DEF WriteInv, SameHands, owner
<1> QED
  BY <1>3, <1>4, <1>5 DEF WriteInv, At, owner

(* A step of one request that writes what it may.                          *)
Rightful(s) ==
    /\ \A p \in Changed(providers, providers') \intersect DOMAIN providers :
          \/ providers'[p] = [providers[p] EXCEPT !.active = TRUE]
          \/ Ends(s, p)
    /\ \A r \in Changed(routes, routes') : Ends(s, routes'[r].provider)
    /\ \A n \in Changed(notes, notes') \intersect DOMAIN notes : Ends(s, notes'[n].provider)

(* One that is done leaves nothing to write.                               *)
LEMMA DoneWrites ==
    ASSUME CatalogInv, SessionInv, NEW s \in Slot, Done(s), SameHands, RowsInv'
    PROVE  CatalogInv'
<1>1. ask' = [ask EXCEPT ![s] = Idle] /\ ask \in [Slot -> RequestType]
  BY DEF Done, Finish, SessionInv
<1>2. ask'[s] = Idle /\ \A r \in Slot : r # s => ask'[r] = ask[r]
  BY <1>1
<1>3. WriteInv(s)'
  BY <1>2, IdleType DEF WriteInv, At
<1> QED
  BY <1>2, <1>3, WriteGoesOn DEF CatalogInv

(* A look-up changes no row, and finds what is the caller's.               *)
LEMMA LooksOnly ==
    ASSUME CatalogInv, SessionInv, NEW s \in Slot, NEW ids, NEW table, NEW write \in Writes,
           LookUp(s, ids, table, write),
           write \in {"update provider", "create route"} => table \subseteq Mine(s),
           write = "update route" => table \subseteq MyRoutes(s),
           write = "mark read" => table \subseteq MyNotes(s)
    PROVE  CatalogInv' /\ Rightful(s)
<1>1. /\ UNCHANGED <<providers, routes, notes>>
      /\ \/ ask' = [ask EXCEPT ![s] = Idle]
         \/ \E i \in table : ask' = [ask EXCEPT ![s].pc = write, ![s].row = i]
  BY DEF LookUp, rows, Finish
<1>2. ask \in [Slot -> RequestType] /\ ask[s] \in RequestType
  BY DEF SessionInv
<1>3. SameHands /\ Rightful(s) /\ RowsInv'
  BY <1>1 DEF SameHands, Rightful, Changed, CatalogInv, RowsInv, NoOrphans, Rows,
       ProviderRow, RouteRow, NoteRow
<1>4. \A r \in Slot : r # s => ask'[r] = ask[r]
  BY <1>1, <1>2
<1>5. WriteInv(s)'
  <2>1. CASE ask' = [ask EXCEPT ![s] = Idle]
    BY <1>2, <2>1, IdleType DEF WriteInv, At
  <2>2. ASSUME NEW i \in table, ask' = [ask EXCEPT ![s].pc = write, ![s].row = i]
        PROVE  WriteInv(s)'
    <3>1. ask'[s].pc = write /\ ask'[s].row = i /\ ask'[s].who = ask[s].who
      BY <1>2, <2>2 DEF RequestType
    <3>2. write \in {"update provider", "create route"} =>
             i \in DOMAIN providers /\ owner(i) = ask[s].who
      BY DEF Mine, Rows
    <3>3. write = "update route" =>
             i \in DOMAIN routes /\ owner(routes[i].provider) = ask[s].who
      BY DEF MyRoutes, Mine, Rows
    <3>4. write = "mark read" =>
             i \in DOMAIN notes /\ owner(notes[i].provider) = ask[s].who
      BY DEF MyNotes, Mine, Rows
    <3> QED
      BY <1>1, <3>1, <3>2, <3>3, <3>4 DEF WriteInv, At, owner
  <2> QED
    BY <1>1, <2>1, <2>2
<1> QED
  BY <1>3, <1>4, <1>5, WriteGoesOn DEF CatalogInv

LEMMA DoneEnds ==
    ASSUME SessionInv, NEW s \in Slot, Done(s), ~At(s, "idle")
    PROVE  \A p : ask[s].who = owner(p) => Ends(s, p)
BY DEF Done, Finish, SessionInv, Ends

(* Writing a provider's row.                                               *)
LEMMA CreatesProvider ==
    ASSUME CatalogInv, SessionInv, NEW s \in Slot, createProvider(s)
    PROVE  CatalogInv' /\ Rightful(s)
<1> DEFINE new == [owner |-> ask[s].who, kept |-> TRUE, active |-> ~ApprovalRequired]
<1>1. PICK p \in Provider \ Used(providers) : providers' = Insert(providers, p, new)
  BY DEF createProvider
<1>2. Done(s) /\ UNCHANGED <<routes, notes>> /\ p \notin DOMAIN providers /\ RowsInv
  BY <1>1 DEF createProvider, Used, CatalogInv
<1>3. new \in ProviderRow
  <2>1. ask[s].who \in Keeper /\ (~ApprovalRequired) \in BOOLEAN
    BY DEF SessionInv, RequestType, Keeper
  <2> QED
    BY <2>1 DEF ProviderRow
<1> HIDE DEF new
<1>4. /\ DOMAIN providers' = DOMAIN providers \union {p}
      /\ providers' \in [DOMAIN providers' -> ProviderRow]
      /\ \A i \in DOMAIN providers : i # p /\ providers'[i] = providers[i]
  BY <1>1, <1>2, <1>3 DEF Insert, RowsInv
<1>5. SameHands /\ Rightful(s)
  BY <1>2, <1>4 DEF SameHands, Rightful, Changed
<1>6. RowsInv'
  <2>1. routes' \in [DOMAIN routes' -> RouteRow'] /\ notes' \in [DOMAIN notes' -> NoteRow']
    BY <1>2, <1>4 DEF RowsInv, RouteRow, NoteRow
  <2>2. NoOrphans'
    BY <1>2, <1>4 DEF RowsInv, NoOrphans, Rows
  <2>3. ProviderRow' = ProviderRow
    BY DEF ProviderRow, Keeper
  <2> QED
    BY <1>4, <2>1, <2>2, <2>3 DEF RowsInv
<1> QED
  BY <1>2, <1>5, <1>6, DoneWrites

(* A provider's row whose status changes, if it is still there.            *)
LEMMA SetsActive ==
    ASSUME CatalogInv, SessionInv, NEW s \in Slot, NEW b \in BOOLEAN, Done(s),
           UNCHANGED <<routes, notes>>, ~At(s, "idle"),
           \/ UNCHANGED providers
           \/ /\ ask[s].row \in Rows(providers)
              /\ providers' = [providers EXCEPT ![ask[s].row] = [@ EXCEPT !.active = b]],
           b = TRUE \/ ask[s].who = owner(ask[s].row)
    PROVE  CatalogInv' /\ Rightful(s)
<1> DEFINE p == ask[s].row
<1>1. RowsInv
  BY DEF CatalogInv
<1>2. CASE UNCHANGED providers
  <2>1. SameHands /\ Rightful(s)
    BY <1>2 DEF SameHands, Rightful, Changed
  <2>2. RowsInv'
    BY <1>1, <1>2 DEF RowsInv, NoOrphans, Rows, ProviderRow, RouteRow, NoteRow
  <2> QED
    BY <2>1, <2>2, DoneWrites
<1>3. CASE /\ p \in Rows(providers)
           /\ providers' = [providers EXCEPT ![p] = [@ EXCEPT !.active = b]]
  <2>1. p \in DOMAIN providers /\ providers[p] \in ProviderRow /\ providers[p].kept
    BY <1>1, <1>3 DEF Rows, RowsInv
  <2> DEFINE row == [providers[p] EXCEPT !.active = b]
  <2>2. /\ row \in ProviderRow /\ row.owner = providers[p].owner /\ row.kept = providers[p].kept
    BY <2>1 DEF ProviderRow
  <2>3. providers' = [providers EXCEPT ![p] = row]
    BY <1>3
  <2>4. b = TRUE => row = [providers[p] EXCEPT !.active = TRUE]
    OBVIOUS
  <2> HIDE DEF row, p
  <2>5. /\ DOMAIN providers' = DOMAIN providers /\ providers'[p] = row
        /\ providers' \in [DOMAIN providers' -> ProviderRow]
        /\ \A i \in DOMAIN providers : i # p => providers'[i] = providers[i]
    BY <1>1, <2>1, <2>2, <2>3 DEF RowsInv
  <2>6. SameHands
    BY <2>2, <2>5 DEF SameHands
  <2>7. \A i \in Changed(providers, providers') : i = p
    BY <2>5 DEF Changed
  <2>8. Rightful(s)
    <3>1. Changed(routes, routes') = {} /\ Changed(notes, notes') = {}
      BY DEF Changed
    <3>2. b = TRUE => providers'[p] = [providers[p] EXCEPT !.active = TRUE]
      BY <2>4, <2>5
    <3>3. ask[s].who = owner(p) => Ends(s, p)
      BY DoneEnds
    <3> QED
      BY <2>7, <3>1, <3>2, <3>3 DEF Rightful, p
  <2>9. RowsInv'
    <3>1. Rows(providers') = Rows(providers)
      BY <2>1, <2>2, <2>5 DEF Rows
    <3>2. routes' \in [DOMAIN routes' -> RouteRow'] /\ notes' \in [DOMAIN notes' -> NoteRow']
      BY <1>1, <2>5 DEF RowsInv, RouteRow, NoteRow
    <3>3. NoOrphans'
      BY <1>1, <2>5, <3>1 DEF RowsInv, NoOrphans, Rows
    <3>4. ProviderRow' = ProviderRow
      BY DEF ProviderRow, Keeper
    <3> QED
      BY <2>5, <3>2, <3>3, <3>4 DEF RowsInv
  <2> QED
    BY <2>6, <2>8, <2>9, DoneWrites
<1> QED
  BY <1>2, <1>3

LEMMA WritesProvider ==
    ASSUME CatalogInv, SessionInv, NEW s \in Slot, updateProvider(s) \/ approve(s)
    PROVE  CatalogInv' /\ Rightful(s)
<1>1. CASE updateProvider(s)
  <2>1. /\ At(s, "update provider") /\ Done(s) /\ UNCHANGED <<routes, notes>>
        /\ ~At(s, "idle") /\ ask[s].who = owner(ask[s].row)
    BY <1>1 DEF updateProvider, CatalogInv, WriteInv, At
  <2>2. PICK b \in BOOLEAN : Update(s, providers, LAMBDA p : [p EXCEPT !.active = b])
    BY <1>1 DEF updateProvider
  <2>3. \/ UNCHANGED providers
        \/ /\ ask[s].row \in Rows(providers)
           /\ providers' = [providers EXCEPT ![ask[s].row] = [@ EXCEPT !.active = b]]
    BY <2>2 DEF Update
  <2> QED
    BY <2>1, <2>3, SetsActive
<1>2. CASE approve(s)
  <2>1. At(s, "approve") /\ Done(s) /\ UNCHANGED <<routes, notes>> /\ ~At(s, "idle")
    BY <1>2 DEF approve, At
  <2>2. \/ UNCHANGED providers
        \/ /\ ask[s].row \in Rows(providers)
           /\ providers' = [providers EXCEPT ![ask[s].row] = [@ EXCEPT !.active = TRUE]]
    BY <1>2 DEF approve, Update
  <2> QED
    BY <2>1, <2>2, SetsActive
<1> QED
  BY <1>1, <1>2

(* The database's cascade.                                                 *)
LEMMA DeletesProvider ==
    ASSUME CatalogInv, SessionInv, NEW s \in Slot, deleteProvider(s)
    PROVE  CatalogInv' /\ Rightful(s)
<1> DEFINE Cascade(table, p) ==
        [i \in DOMAIN table |-> [table[i] EXCEPT !.kept = @ /\ table[i].provider # p]]
<1>1. Done(s) /\ ~At(s, "idle") /\ RowsInv
  BY DEF deleteProvider, At, CatalogInv
<1>2. PICK p \in Provider :
         IF p \in Mine(s)
         THEN /\ providers' = [providers EXCEPT ![p].kept = FALSE]
              /\ routes' = Cascade(routes, p) /\ notes' = Cascade(notes, p)
         ELSE UNCHANGED rows
  BY DEF deleteProvider
<1>3. CASE p \notin Mine(s)
  <2>1. UNCHANGED <<providers, routes, notes>>
    BY <1>2, <1>3 DEF rows
  <2>2. SameHands /\ Rightful(s)
    BY <2>1 DEF SameHands, Rightful, Changed
  <2>3. RowsInv'
    BY <1>1, <2>1 DEF RowsInv, NoOrphans, Rows, ProviderRow, RouteRow, NoteRow
  <2> QED
    BY <1>1, <2>2, <2>3, DoneWrites
<1>4. CASE p \in Mine(s)
  <2>1. /\ providers' = [providers EXCEPT ![p].kept = FALSE]
        /\ routes' = Cascade(routes, p) /\ notes' = Cascade(notes, p)
        /\ p \in DOMAIN providers /\ ask[s].who = owner(p)
    BY <1>2, <1>4 DEF Mine, Rows
  <2>2. /\ DOMAIN providers' = DOMAIN providers
        /\ providers' \in [DOMAIN providers' -> ProviderRow]
        /\ ~providers'[p].kept /\ providers'[p].owner = providers[p].owner
        /\ \A i \in DOMAIN providers : i # p => providers'[i] = providers[i]
    BY <1>1, <2>1 DEF RowsInv, ProviderRow
  <2>3. /\ DOMAIN routes' = DOMAIN routes
        /\ \A r \in DOMAIN routes :
              /\ routes'[r] = [routes[r] EXCEPT !.kept = @ /\ routes[r].provider # p]
              /\ routes[r] \in RouteRow
    BY <1>1, <2>1 DEF RowsInv
  <2>4. /\ DOMAIN notes' = DOMAIN notes
        /\ \A n \in DOMAIN notes :
              /\ notes'[n] = [notes[n] EXCEPT !.kept = @ /\ notes[n].provider # p]
              /\ notes[n] \in NoteRow
    BY <1>1, <2>1 DEF RowsInv
  <2>5. ASSUME NEW r \in DOMAIN routes
        PROVE  /\ routes'[r] \in RouteRow /\ routes'[r].provider = routes[r].provider
               /\ routes'[r].kept => routes[r].kept /\ routes[r].provider # p
               /\ routes[r].provider # p => routes'[r] = routes[r]
    <3> DEFINE kept == routes[r].kept /\ routes[r].provider # p
    <3>1. routes'[r] = [routes[r] EXCEPT !.kept = kept] /\ routes[r] \in RouteRow
      BY <2>3
    <3>2. kept \in BOOLEAN /\ (routes[r].provider # p => kept = routes[r].kept)
      BY <2>3 DEF RouteRow
    <3>3. kept => routes[r].kept /\ routes[r].provider # p
      OBVIOUS
    <3> HIDE DEF kept
    <3>4. /\ routes'[r] \in RouteRow /\ routes'[r].provider = routes[r].provider
          /\ routes'[r].kept = kept
          /\ kept = routes[r].kept => routes'[r] = routes[r]
      BY <3>1, <3>2 DEF RouteRow
    <3> QED
      BY <3>2, <3>3, <3>4
  <2>6. ASSUME NEW n \in DOMAIN notes
        PROVE  /\ notes'[n] \in NoteRow /\ notes'[n].provider = notes[n].provider
               /\ notes'[n].kept => notes[n].kept /\ notes[n].provider # p
               /\ notes[n].provider # p => notes'[n] = notes[n]
    <3> DEFINE kept == notes[n].kept /\ notes[n].provider # p
    <3>1. notes'[n] = [notes[n] EXCEPT !.kept = kept] /\ notes[n] \in NoteRow
      BY <2>4
    <3>2. kept \in BOOLEAN /\ (notes[n].provider # p => kept = notes[n].kept)
      BY <2>4 DEF NoteRow
    <3>3. kept => notes[n].kept /\ notes[n].provider # p
      OBVIOUS
    <3> HIDE DEF kept
    <3>4. /\ notes'[n] \in NoteRow /\ notes'[n].provider = notes[n].provider
          /\ notes'[n].kept = kept
          /\ kept = notes[n].kept => notes'[n] = notes[n]
      BY <3>1, <3>2 DEF NoteRow
    <3> QED
      BY <3>2, <3>3, <3>4
  <2> HIDE DEF Cascade
  <2>7. SameHands
    BY <2>2, <2>3, <2>4, <2>5, <2>6 DEF SameHands
  <2>8. Rightful(s)
    <3>1. Ends(s, p)
      BY <1>1, <2>1, DoneEnds
    <3>2. \A i \in Changed(providers, providers') : i = p
      BY <2>2 DEF Changed
    <3>3. \A r \in Changed(routes, routes') : routes'[r].provider = p
      BY <2>3, <2>5 DEF Changed
    <3>4. \A n \in Changed(notes, notes') : notes'[n].provider = p
      BY <2>4, <2>6 DEF Changed
    <3> QED
      BY <3>1, <3>2, <3>3, <3>4 DEF Rightful
  <2>9. RowsInv'
    <3>1. /\ RouteRow' = RouteRow /\ NoteRow' = NoteRow /\ ProviderRow' = ProviderRow
      BY <2>2 DEF RouteRow, NoteRow, ProviderRow, Keeper
    <3>2. /\ routes' \in [DOMAIN routes' -> RouteRow] /\ notes' \in [DOMAIN notes' -> NoteRow]
      <4>1. routes' = [r \in DOMAIN routes' |-> routes'[r]]
        BY <2>1, <2>3 DEF Cascade
      <4>2. notes' = [n \in DOMAIN notes' |-> notes'[n]]
        BY <2>1, <2>4 DEF Cascade
      <4> QED
        BY <2>3, <2>4, <2>5, <2>6, <4>1, <4>2
    <3>3. NoOrphans'
      BY <1>1, <2>2, <2>3, <2>4, <2>5, <2>6 DEF RowsInv, NoOrphans, Rows
    <3> QED
      BY <2>2, <3>1, <3>2, <3>3 DEF RowsInv
  <2> QED
    BY <1>1, <2>7, <2>8, <2>9, DoneWrites
<1> QED
  BY <1>3, <1>4

(* A step that only writes routes, keeping their providers.                 *)
LEMMA OnlyRoutes ==
    ASSUME RowsInv, UNCHANGED <<providers, notes>>,
           routes' \in [DOMAIN routes' -> RouteRow],
           \A i \in DOMAIN routes :
              i \in DOMAIN routes' /\ routes'[i].provider = routes[i].provider,
           \A i \in DOMAIN routes' : routes'[i].kept => routes'[i].provider \in Rows(providers)
    PROVE  RowsInv' /\ SameHands
<1>1. SameHands
  BY DEF SameHands
<1>2. ProviderRow' = ProviderRow /\ RouteRow' = RouteRow /\ NoteRow' = NoteRow
  BY DEF ProviderRow, RouteRow, NoteRow, Keeper
<1>3. NoOrphans'
  BY DEF RowsInv, NoOrphans, Rows
<1> QED
  BY <1>1, <1>2, <1>3 DEF RowsInv


(* A step that only writes notes, keeping their providers.                  *)
LEMMA OnlyNotes ==
    ASSUME RowsInv, UNCHANGED <<providers, routes>>,
           notes' \in [DOMAIN notes' -> NoteRow],
           \A i \in DOMAIN notes :
              i \in DOMAIN notes' /\ notes'[i].provider = notes[i].provider,
           \A i \in DOMAIN notes' : notes'[i].kept => notes'[i].provider \in Rows(providers)
    PROVE  RowsInv' /\ SameHands
<1>1. SameHands
  BY DEF SameHands
<1>2. ProviderRow' = ProviderRow /\ RouteRow' = RouteRow /\ NoteRow' = NoteRow
  BY DEF ProviderRow, RouteRow, NoteRow, Keeper
<1>3. NoOrphans'
  BY DEF RowsInv, NoOrphans, Rows
<1> QED
  BY <1>1, <1>2, <1>3 DEF RowsInv

LEMMA CreatesRoute ==
    ASSUME CatalogInv, SessionInv, NEW s \in Slot, createRoute(s)
    PROVE  CatalogInv' /\ Rightful(s)
<1>1. /\ RowsInv /\ Done(s) /\ At(s, "create route") /\ ~At(s, "idle")
      /\ UNCHANGED <<providers, notes>>
      /\ ask[s].row \in DOMAIN providers /\ owner(ask[s].row) = ask[s].who
  BY DEF createRoute, CatalogInv, WriteInv, At
<1>2. CASE UNCHANGED routes
  <2>1. SameHands /\ Rightful(s)
    BY <1>1, <1>2 DEF SameHands, Rightful, Changed
  <2>2. RowsInv'
    BY <1>1, <1>2 DEF RowsInv, NoOrphans, Rows, ProviderRow, RouteRow, NoteRow
  <2> QED
    BY <1>1, <2>1, <2>2, DoneWrites
<1> DEFINE new == [provider |-> ask[s].row, kept |-> TRUE, active |-> TRUE]
<1>3. ASSUME ask[s].row \in Rows(providers), NEW r \in Route \ Used(routes),
             routes' = Insert(routes, r, new)
      PROVE  CatalogInv' /\ Rightful(s)
  <2>1. new \in RouteRow /\ new.provider = ask[s].row
    BY <1>1 DEF RouteRow
  <2>2. routes \in [DOMAIN routes -> RouteRow] /\ r \notin DOMAIN routes
    BY <1>1, <1>3 DEF RowsInv, Used
  <2> HIDE DEF new
  <2>3. /\ DOMAIN routes' = DOMAIN routes \union {r} /\ routes'[r] = new
        /\ routes' \in [DOMAIN routes' -> RouteRow]
        /\ \A i \in DOMAIN routes : routes'[i] = routes[i]
    BY <1>3, <2>1, <2>2 DEF Insert
  <2>4. \A i \in DOMAIN routes' : routes'[i].kept => routes'[i].provider \in Rows(providers)
    <3> SUFFICES ASSUME NEW i \in DOMAIN routes', routes'[i].kept
                 PROVE  routes'[i].provider \in Rows(providers)
      OBVIOUS
    <3>1. CASE i = r
      BY <1>3, <2>1, <2>3, <3>1
    <3>2. CASE i \in DOMAIN routes
      BY <1>1, <2>3, <3>2 DEF RowsInv, NoOrphans, Rows
    <3> QED
      BY <2>3, <3>1, <3>2
  <2>5. RowsInv' /\ SameHands
    BY <1>1, <2>3, <2>4, OnlyRoutes
  <2>6. \A i \in Changed(routes, routes') : i = r
    BY <2>3 DEF Changed
  <2>7. Ends(s, ask[s].row)
    BY <1>1, DoneEnds
  <2>8. Changed(providers, providers') = {} /\ Changed(notes, notes') = {}
    BY <1>1 DEF Changed
  <2>9. Rightful(s)
    BY <2>1, <2>3, <2>6, <2>7, <2>8 DEF Rightful
  <2> QED
    BY <1>1, <2>5, <2>9, DoneWrites
<1> QED
  BY <1>2, <1>3 DEF createRoute

(* The owner of a provider writes one of its routes.                       *)
LEMMA SetsRoute ==
    ASSUME CatalogInv, SessionInv, NEW s \in Slot, Done(s), ~At(s, "idle"),
           UNCHANGED <<providers, notes>>, NEW r \in DOMAIN routes, NEW row \in RouteRow,
           routes' = [routes EXCEPT ![r] = row], row.provider = routes[r].provider,
           row.kept => routes[r].kept, owner(routes[r].provider) = ask[s].who
    PROVE  CatalogInv' /\ Rightful(s)
<1>1. RowsInv
  BY DEF CatalogInv
<1>2. /\ DOMAIN routes' = DOMAIN routes /\ routes'[r] = row
      /\ routes' \in [DOMAIN routes' -> RouteRow]
      /\ \A i \in DOMAIN routes : i # r => routes'[i] = routes[i]
  BY <1>1 DEF RowsInv
<1>3. \A i \in DOMAIN routes' : routes'[i].kept => routes'[i].provider \in Rows(providers)
  BY <1>1, <1>2 DEF RowsInv, NoOrphans, Rows
<1>4. RowsInv' /\ SameHands
  BY <1>1, <1>2, <1>3, OnlyRoutes
<1>5. \A i \in Changed(routes, routes') : i = r
  BY <1>2 DEF Changed
<1>6. Ends(s, routes[r].provider)
  BY DoneEnds
<1>7. Changed(providers, providers') = {} /\ Changed(notes, notes') = {}
  BY DEF Changed
<1>8. Rightful(s)
  BY <1>2, <1>5, <1>6, <1>7 DEF Rightful
<1> QED
  BY <1>4, <1>8, DoneWrites

LEMMA NothingWritten ==
    ASSUME CatalogInv, SessionInv, NEW s \in Slot, Done(s), UNCHANGED <<providers, routes, notes>>
    PROVE  CatalogInv' /\ Rightful(s)
<1>1. SameHands /\ Rightful(s)
  BY DEF SameHands, Rightful, Changed
<1>2. RowsInv'
  BY DEF CatalogInv, RowsInv, NoOrphans, Rows, ProviderRow, RouteRow, NoteRow
<1> QED
  BY <1>1, <1>2, DoneWrites

LEMMA WritesRoute ==
    ASSUME CatalogInv, SessionInv, NEW s \in Slot, updateRoute(s) \/ deleteRoute(s)
    PROVE  CatalogInv' /\ Rightful(s)
<1>1. RowsInv /\ routes \in [DOMAIN routes -> RouteRow]
  BY DEF CatalogInv, RowsInv
<1>2. CASE updateRoute(s)
  <2>1. /\ Done(s) /\ ~At(s, "idle") /\ UNCHANGED <<providers, notes>>
        /\ ask[s].row \in DOMAIN routes /\ owner(routes[ask[s].row].provider) = ask[s].who
    BY <1>2 DEF updateRoute, CatalogInv, WriteInv, At
  <2>2. PICK b \in BOOLEAN : Update(s, routes, LAMBDA r : [r EXCEPT !.active = b])
    BY <1>2 DEF updateRoute
  <2> DEFINE row == [routes[ask[s].row] EXCEPT !.active = b]
  <2>3. row \in RouteRow /\ row.provider = routes[ask[s].row].provider
        /\ row.kept = routes[ask[s].row].kept
    BY <1>1, <2>1 DEF RouteRow
  <2>4. UNCHANGED routes \/ routes' = [routes EXCEPT ![ask[s].row] = row]
    BY <2>2 DEF Update
  <2> HIDE DEF row
  <2> QED
    BY <2>1, <2>3, <2>4, SetsRoute, NothingWritten
<1>3. CASE deleteRoute(s)
  <2>1. Done(s) /\ ~At(s, "idle") /\ UNCHANGED <<providers, notes>>
    BY <1>3 DEF deleteRoute, At
  <2>2. PICK r \in Route :
           routes' = IF r \in MyRoutes(s) THEN [routes EXCEPT ![r].kept = FALSE] ELSE routes
    BY <1>3 DEF deleteRoute
  <2>3. CASE r \notin MyRoutes(s)
    BY <2>1, <2>2, <2>3, NothingWritten
  <2>4. CASE r \in MyRoutes(s)
    <3> DEFINE row == [routes[r] EXCEPT !.kept = FALSE]
    <3>1. r \in DOMAIN routes /\ owner(routes[r].provider) = ask[s].who
      BY <2>4 DEF MyRoutes, Mine, Rows
    <3>2. row \in RouteRow /\ row.provider = routes[r].provider /\ ~row.kept
      BY <1>1, <3>1 DEF RouteRow
    <3>3. routes' = [routes EXCEPT ![r] = row]
      BY <2>2, <2>4
    <3> HIDE DEF row
    <3> QED
      BY <2>1, <3>1, <3>2, <3>3, SetsRoute
  <2> QED
    BY <2>3, <2>4
<1> QED
  BY <1>2, <1>3

(* Reading a feed.                                                         *)
LEMMA WritesNotes ==
    ASSUME CatalogInv, SessionInv, NEW s \in Slot, markRead(s) \/ markAllRead(s)
    PROVE  CatalogInv' /\ Rightful(s)
<1>1. /\ RowsInv /\ notes \in [DOMAIN notes -> NoteRow]
      /\ Done(s) /\ ~At(s, "idle") /\ UNCHANGED <<providers, routes>>
  BY DEF CatalogInv, RowsInv, markRead, markAllRead, At
<1>2. CASE UNCHANGED notes
  BY <1>1, <1>2, NothingWritten
<1>3. SUFFICES ASSUME notes' \in [DOMAIN notes -> NoteRow],
                      \A n \in DOMAIN notes :
                         /\ notes'[n].provider = notes[n].provider
                         /\ notes'[n].kept = notes[n].kept
                         /\ notes'[n] # notes[n] => owner(notes[n].provider) = ask[s].who
               PROVE  CatalogInv' /\ Rightful(s)
  <2>1. CASE markRead(s)
    <3> DEFINE n == ask[s].row
               row == [notes[n] EXCEPT !.read = TRUE]
    <3>1. n \in DOMAIN notes /\ owner(notes[n].provider) = ask[s].who
      BY <2>1 DEF markRead, CatalogInv, WriteInv, At
    <3>2. row \in NoteRow /\ row.provider = notes[n].provider /\ row.kept = notes[n].kept
      BY <1>1, <3>1 DEF NoteRow
    <3>3. UNCHANGED notes \/ notes' = [notes EXCEPT ![n] = row]
      BY <2>1 DEF markRead, Update
    <3> HIDE DEF row
    <3> QED
      BY <1>1, <1>2, <1>3, <3>1, <3>2, <3>3
  <2>2. CASE markAllRead(s)
    <3>1. notes' = [n \in DOMAIN notes |-> [notes[n] EXCEPT !.read = @ \/ n \in MyNotes(s)]]
      BY <2>2 DEF markAllRead
    <3>2. ASSUME NEW n \in DOMAIN notes
          PROVE  /\ notes'[n] \in NoteRow /\ notes'[n].provider = notes[n].provider
                 /\ notes'[n].kept = notes[n].kept
                 /\ notes'[n] # notes[n] => owner(notes[n].provider) = ask[s].who
      <4> DEFINE read == notes[n].read \/ n \in MyNotes(s)
      <4>1. notes'[n] = [notes[n] EXCEPT !.read = read] /\ notes[n] \in NoteRow
        BY <1>1, <3>1
      <4>2. read \in BOOLEAN /\ (n \notin MyNotes(s) => read = notes[n].read)
        BY <4>1 DEF NoteRow
      <4>3. n \in MyNotes(s) => owner(notes[n].provider) = ask[s].who
        BY DEF MyNotes, Mine
      <4> HIDE DEF read
      <4> QED
        BY <4>1, <4>2, <4>3 DEF NoteRow
    <3>3. notes' \in [DOMAIN notes -> NoteRow]
      <4>1. \A n \in DOMAIN notes : notes'[n] \in NoteRow
        BY <3>2
      <4>2. DOMAIN notes' = DOMAIN notes /\ notes' = [n \in DOMAIN notes |-> notes'[n]]
        BY <3>1
      <4> QED
        BY <4>1, <4>2
    <3> QED
      BY <1>3, <3>2, <3>3
  <2> QED
    BY <2>1, <2>2
<1>4. \A i \in DOMAIN notes' : notes'[i].kept => notes'[i].provider \in Rows(providers)
  BY <1>1, <1>3 DEF RowsInv, NoOrphans, Rows
<1>5. RowsInv' /\ SameHands
  BY <1>1, <1>3, <1>4, OnlyNotes
<1>6. Rightful(s)
  <2>1. Changed(providers, providers') = {} /\ Changed(routes, routes') = {}
    BY <1>1 DEF Changed
  <2>2. \A n \in Changed(notes, notes') : Ends(s, notes'[n].provider)
    BY <1>1, <1>3, DoneEnds DEF Changed
  <2> QED
    BY <2>1, <2>2 DEF Rightful
<1> QED
  BY <1>1, <1>5, <1>6, DoneWrites

(* A payment's notice, stored while the provider is there.                 *)
LEMMA StoresNotice ==
    ASSUME CatalogInv, SessionInv, NEW r \in Route, persistInAppNotification(r)
    PROVE  CatalogInv' /\ UNCHANGED <<providers, routes>> /\ Changed(notes, notes') \intersect DOMAIN notes = {}
<1> DEFINE new == [provider |-> routes[r].provider, kept |-> TRUE, read |-> FALSE]
<1>1. PICK n \in Note \ Used(notes) : notes' = Insert(notes, n, new)
  BY DEF persistInAppNotification
<1>2. /\ RowsInv /\ notes \in [DOMAIN notes -> NoteRow] /\ n \notin DOMAIN notes
      /\ routes[r].provider \in Rows(providers) /\ UNCHANGED <<providers, routes, ask>>
  BY <1>1 DEF persistInAppNotification, CatalogInv, RowsInv, Used, signIn
<1>3. new \in NoteRow /\ new.provider = routes[r].provider
  BY <1>2 DEF NoteRow, Rows
<1> HIDE DEF new
<1>4. /\ DOMAIN notes' = DOMAIN notes \union {n} /\ notes'[n] = new
      /\ notes' \in [DOMAIN notes' -> NoteRow]
      /\ \A i \in DOMAIN notes : notes'[i] = notes[i]
  BY <1>1, <1>2, <1>3 DEF Insert
<1>5. \A i \in DOMAIN notes' : notes'[i].kept => notes'[i].provider \in Rows(providers)
  BY <1>2, <1>3, <1>4 DEF RowsInv, NoOrphans, Rows
<1>6. RowsInv' /\ SameHands
  BY <1>2, <1>4, <1>5, OnlyNotes
<1>7. \A s \in Slot : WriteInv(s)'
  BY <1>2, <1>6, WriteGoesOn
<1> QED
  BY <1>2, <1>4, <1>6, <1>7 DEF CatalogInv, Changed

(* Signing in and out, and starting, leave the rows and the look-ups.      *)
LEMMA RowsUntouched ==
    ASSUME CatalogInv, SessionInv, UNCHANGED rows,
           \A r \in Slot : ask'[r] = ask[r] \/ ask'[r].pc \notin Writes
    PROVE  CatalogInv' /\ UNCHANGED <<providers, routes, notes>>
<1>1. RowsInv' /\ SameHands /\ UNCHANGED <<providers, routes, notes>>
  BY DEF rows, CatalogInv, RowsInv, NoOrphans, Rows, ProviderRow, RouteRow, NoteRow, SameHands
<1>2. ASSUME NEW r \in Slot PROVE WriteInv(r)'
  <2>1. CASE ask'[r] = ask[r]
    BY <1>1, <2>1, WriteGoesOn
  <2>2. CASE ask'[r].pc \notin Writes
    BY <2>2 DEF WriteInv, At, Writes
  <2> QED
    BY <2>1, <2>2
<1> QED
  BY <1>1, <1>2 DEF CatalogInv

LEMMA SignInWritesNothing ==
    ASSUME SessionInv, SignInNext, NEW r \in Slot
    PROVE  ask'[r] = ask[r] \/ ask'[r].pc \notin Writes
<1>1. ask \in [Slot -> RequestType]
  BY DEF SessionInv
<1>2. CASE UNCHANGED ask
  BY <1>2
<1>3. ASSUME NEW s \in Slot, SignIn(s)
      PROVE  ask'[r] = ask[r] \/ ask'[r].pc \notin Writes
  <2>1. ask[s] \in RequestType
    BY <1>1
  <2>2. CASE Finish(s)
    BY <1>1, <2>2, IdleType DEF Finish, Writes
  <2>3. ASSUME NEW pc \in {"consume", "create"}, Goto(s, pc)
        PROVE  ask'[r] = ask[r] \/ ask'[r].pc \notin Writes
    BY <1>1, <2>1, <2>3 DEF Goto, Writes, RequestType
  <2>4. ASSUME NEW a \in Address, StartVerifyDev(s, a)
        PROVE  ask'[r] = ask[r] \/ ask'[r].pc \notin Writes
    BY <1>1, <2>4 DEF StartVerifyDev, Idle, Writes
  <2>5. ASSUME NEW a \in Address, NEW c \in Challenge, StartVerify(s, a, c)
        PROVE  ask'[r] = ask[r] \/ ask'[r].pc \notin Writes
    BY <1>1, <2>5 DEF StartVerify, Idle, Writes
  <2>6. ASSUME NEW t \in Session, Present(s, t)
        PROVE  ask'[r] = ask[r] \/ ask'[r].pc \notin Writes
    BY <1>1, <2>6 DEF Present, Idle, Writes
  <2>7. CASE ask' = [ask EXCEPT ![s].pc = "act", ![s].who = issued[ask[s].token].address]
    BY <1>1, <2>1, <2>7 DEF Writes, RequestType
  <2> QED
    BY <1>3, <2>2, <2>3, <2>4, <2>5, <2>6, <2>7
    DEF SignIn, ReadChallenge, ConsumeChallenge, createSession, Authorize, destroySession, Throw
<1> QED
  BY <1>2, <1>3 DEF SignInNext, ChallengeExpires, createChallenge, Sign, SessionExpires

LEMMA InitCatalog == Init => CatalogInv
<1> SUFFICES ASSUME Init PROVE CatalogInv
  OBVIOUS
<1>1. /\ providers = << >> /\ routes = << >> /\ notes = << >>
      /\ ask = [s \in Slot |-> Idle]
  BY DEF Init, SignInInit
<1>2. /\ providers \in [DOMAIN providers -> ProviderRow] /\ DOMAIN routes = {} /\ DOMAIN notes = {}
      /\ routes \in [DOMAIN routes -> RouteRow] /\ notes \in [DOMAIN notes -> NoteRow]
  BY <1>1
<1>3. NoOrphans
  BY <1>2 DEF NoOrphans, Rows
<1>4. \A s \in Slot : WriteInv(s)
  BY <1>1, IdleType DEF WriteInv, At
<1> QED
  BY <1>2, <1>3, <1>4 DEF CatalogInv, RowsInv

(* Every step keeps the invariant, and whoever changes a row may.          *)
LEMMA NextCatalog ==
    ASSUME CatalogInv, SessionInv, [Next]_vars
    PROVE  /\ CatalogInv'
           /\ \/ UNCHANGED <<providers, routes, notes>>
              \/ \E s \in Slot : Rightful(s)
              \/ UNCHANGED <<providers, routes>> /\ Changed(notes, notes') \intersect DOMAIN notes = {}
<1>1. CASE UNCHANGED <<signIn, rows>>
  BY <1>1, RowsUntouched DEF signIn
<1>2. ASSUME SignInNext, UNCHANGED rows PROVE CatalogInv' /\ UNCHANGED <<providers, routes, notes>>
  BY <1>2, RowsUntouched, SignInWritesNothing
<1>3. ASSUME NEW s \in Slot, Manage(s) PROVE CatalogInv' /\ Rightful(s)
  <2>1. CASE \/ createProvider(s) \/ updateProvider(s) \/ approve(s) \/ deleteProvider(s)
             \/ createRoute(s) \/ updateRoute(s) \/ deleteRoute(s)
             \/ markRead(s) \/ markAllRead(s)
    BY <2>1, CreatesProvider, WritesProvider, DeletesProvider, CreatesRoute, WritesRoute,
       WritesNotes
  <2>2. CASE findProvider(s) \/ findTarget(s)
    BY <2>2, LooksOnly DEF findProvider, findTarget, Writes
  <2>3. CASE findUnapproved(s)
    BY <2>3, LooksOnly DEF findUnapproved, Writes
  <2>4. CASE findRoute(s) \/ findNote(s)
    BY <2>4, LooksOnly DEF findRoute, findNote, Writes
  <2> QED
    BY <1>3, <2>1, <2>2, <2>3, <2>4 DEF Manage
<1>4. CASE \E r \in Route : persistInAppNotification(r)
  BY <1>4, StoresNotice
<1> QED
  BY <1>1, <1>2, <1>3, <1>4 DEF Next, Serve, vars

(* No route and no notice outlives its provider, for any number of         *)
(* requests between their look-ups and their writes (NoOrphans).           *)
THEOREM NoOrphansAlways == Spec => []NoOrphans
<1>1. CatalogInv => NoOrphans
  BY DEF CatalogInv, RowsInv
<1>2. CatalogInv /\ SessionInv /\ [Next]_vars => CatalogInv'
  BY NextCatalog
<1> QED
  BY <1>1, <1>2, InitBoot, InitSession, InitCatalog, NextBoot, NextSession, PTL DEF Spec

(* A row changes by a request of its provider's owner or by an approval,   *)
(* whatever came between the request's look-up and its write (OwnersOnly). *)
THEOREM OwnersOnlyAlways == Spec => OwnersOnly
<1> DEFINE Rights ==
       /\ \A p \in Changed(providers, providers') \intersect DOMAIN providers :
             \/ providers'[p] = [providers[p] EXCEPT !.active = TRUE]
             \/ \E s \in Slot : Ends(s, p)
       /\ \A r \in Changed(routes, routes') :
             \E s \in Slot : Ends(s, routes'[r].provider)
       /\ \A n \in Changed(notes, notes') \intersect DOMAIN notes :
             \E s \in Slot : Ends(s, notes'[n].provider)
<1>1. ASSUME CatalogInv, SessionInv, [Next]_vars PROVE CatalogInv' /\ [Rights]_vars
  <2>1. ASSUME UNCHANGED <<providers, routes, notes>> PROVE Rights
    BY <2>1 DEF Changed
  <2>2. ASSUME NEW s \in Slot, Rightful(s) PROVE Rights
    BY <2>2 DEF Rightful
  <2>3. ASSUME UNCHANGED <<providers, routes>>, Changed(notes, notes') \intersect DOMAIN notes = {}
        PROVE  Rights
    BY <2>3 DEF Changed
  <2> QED
    BY <1>1, <2>1, <2>2, <2>3, NextCatalog
<1>2. CatalogInv /\ SessionInv /\ [Next]_vars => CatalogInv' /\ [Rights]_vars
  BY <1>1
<1> QED
  BY <1>2, InitBoot, InitSession, InitCatalog, NextBoot, NextSession, PTL DEF Spec, OwnersOnly

===============================================================================
