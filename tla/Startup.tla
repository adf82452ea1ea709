-------------------------------- MODULE Startup --------------------------------
(***************************************************************************)
(* How a gateway process comes to listen (apps/gateway/src/main.ts): the   *)
(* checks of its environment (packages/config), the schema guard, the      *)
(* configuration, and the ping of Redis.  A process that fails a check     *)
(* exits and is deployed again, in this environment or another.  Other     *)
(* processes, a container's entrypoint or a migration job, change the      *)
(* database's schema meanwhile.                                            *)
(*                                                                         *)
(* A variable of the environment is reduced to what the checks tell apart: *)
(* a URL belongs to the main network, or to a test network that its text   *)
(* names ("marked") or not ("unmarked").                                   *)
(***************************************************************************)
EXTENDS Naturals, Sequences

CONSTANT Environments   \* the environments a process is deployed with

REQUIRED_SCHEMA_TABLES == <<"Provider", "Route", "Payment">>
MIGRATIONS_TABLE == "_prisma_migrations"
Unset == "unset"

VARIABLES
    relations,  \* the relations that exist in the database
    process,    \* [pc, env, checked, managed]: how far the process has come
    config      \* getConfig(), of a process that has loaded it

boot == <<relations, process, config>>

Environment ==
    [NODE_ENV : {"development", "production", "test"},
     STELLAR_NETWORK : {"testnet", "futurenet", "mainnet"},
     HORIZON_URL : {Unset, "main", "marked", "unmarked"},
     SOROBAN_RPC_URL : {Unset, "main", "marked", "unmarked"},
     NETWORK_PASSPHRASE : {Unset, "main", "test"}, USDC_ISSUER : {Unset, "circle", "other"},
     JWT_SECRET : {Unset, "placeholder", "random"}, AUTH_DEV_MODE : BOOLEAN,
     DATABASE_URL : {Unset, "set"}, REDIS_URL : {Unset, "template", "localhost", "remote"},
     TRUST_PROXY : {Unset, "valid", "invalid"}, CONTRACTS : {Unset, "main", "test"}]

ASSUME StartupAssumption == Environments \subseteq Environment

-------------------------------------------------------------------------------
(* packages/config.                                                        *)

Production(e) == e.NODE_ENV = "production"

networkDefaults(e) ==
    IF e.STELLAR_NETWORK = "mainnet"
    THEN [url |-> "main", passphrase |-> "main", issuer |-> "circle"]
    ELSE [url |-> "marked", passphrase |-> "test", issuer |-> "other"]

Or(value, default) == IF value = Unset THEN default ELSE value

(* The deployed addresses that are kept in the repository, and the ones    *)
(* written into the code, are the test network's on every network.         *)
deployedAddresses == "test"

goodSecret(e) == e.JWT_SECRET = "random"

noDevAuthInProduction(e) == ~(Production(e) /\ e.AUTH_DEV_MODE)

(* A search for "testnet" and "futurenet": any other URL is let through,   *)
(* whatever network it leads to.                                           *)
isTestNetworkUrl(url) == url = "marked"

(* The check with the Soroban RPC left out.                                *)
mainnetConsistent_HorizonOnly(e) ==
    e.STELLAR_NETWORK = "mainnet" =>
        /\ ~isTestNetworkUrl(e.HORIZON_URL)
        /\ e.NETWORK_PASSPHRASE \in {Unset, "main"}
        /\ Or(e.USDC_ISSUER, networkDefaults(e).issuer) = "circle"

mainnetConsistent(e) ==
    e.STELLAR_NETWORK = "mainnet" =>
        /\ ~isTestNetworkUrl(e.HORIZON_URL)
        /\ ~isTestNetworkUrl(e.SOROBAN_RPC_URL)
        /\ e.NETWORK_PASSPHRASE \in {Unset, "main"}
        /\ Or(e.USDC_ISSUER, networkDefaults(e).issuer) = "circle"

(* Nothing is required of a test run.                                      *)
validateEnv(e) ==
    e.NODE_ENV # "test" =>
        /\ goodSecret(e) /\ noDevAuthInProduction(e) /\ mainnetConsistent(e)
        /\ e.DATABASE_URL # Unset /\ e.REDIS_URL # Unset
        /\ Production(e) => e.REDIS_URL = "remote"

parseTrustProxy(e) == e.TRUST_PROXY # "invalid"

(* What loadConfig throws at, which no test run is spared but the secret.  *)
loadable(e) ==
    /\ e.NODE_ENV # "test" => goodSecret(e)
    /\ noDevAuthInProduction(e) /\ mainnetConsistent(e) /\ parseTrustProxy(e)

(* NETWORK_PASSPHRASE is checked and not used.                             *)
loadConfig(e) ==
    [production |-> Production(e), network |-> e.STELLAR_NETWORK,
     horizonUrl |-> Or(e.HORIZON_URL, networkDefaults(e).url),
     sorobanRpcUrl |-> Or(e.SOROBAN_RPC_URL, networkDefaults(e).url),
     networkPassphrase |-> networkDefaults(e).passphrase,
     usdcIssuer |-> Or(e.USDC_ISSUER, networkDefaults(e).issuer),
     contracts |-> Or(e.CONTRACTS, deployedAddresses),
     authDevMode |-> e.AUTH_DEV_MODE]

-------------------------------------------------------------------------------
(* main.ts, schema-guard.ts, redis.module.ts.                              *)

NoConfig == << >>
Down == [pc |-> "down", env |-> << >>, checked |-> 0, managed |-> FALSE]
Reached(pc) == process.pc = pc
Proceed(pc) == process' = [process EXCEPT !.pc = pc]
Exit == process' = Down

BootInit == relations = {} /\ process = Down /\ config = NoConfig

Deploy ==
    /\ Reached("down")
    /\ \E e \in Environments :
          process' = IF validateEnv(e) THEN [Down EXCEPT !.pc = "history", !.env = e] ELSE Down
    /\ UNCHANGED <<relations, config>>

(* SELECT 1 FROM a table: any error but its absence ends the process.      *)
relationExists(table) == table \in relations

probeHistory ==
    /\ Reached("history")
    /\ \/ process' = [process EXCEPT !.pc = "tables", !.managed = relationExists(MIGRATIONS_TABLE)]
       \/ Exit
    /\ UNCHANGED <<relations, config>>

(* The required tables, one after another; a schema without a history of   *)
(* migrations is refused in production.                                    *)
probeTables ==
    LET n == Len(REQUIRED_SCHEMA_TABLES)
    IN  /\ Reached("tables")
        /\ \/ /\ process.checked < n
              /\ relationExists(REQUIRED_SCHEMA_TABLES[process.checked + 1])
              /\ process' = [process EXCEPT !.checked = @ + 1]
           \/ /\ process.checked = n
              /\ process.managed \/ ~Production(process.env)
              /\ Proceed("create")
           \/ Exit
        /\ UNCHANGED <<relations, config>>

(* NestFactory.create with getConfig, then RedisModule's ping.             *)
create ==
    /\ Reached("create")
    /\ \/ /\ loadable(process.env)
          /\ config' = loadConfig(process.env)
          /\ Proceed("ping")
       \/ Exit /\ UNCHANGED config
    /\ UNCHANGED relations

onModuleInit ==
    /\ Reached("ping")
    /\ \/ process' = [Down EXCEPT !.pc = "listening"] /\ UNCHANGED config
       \/ Exit /\ config' = NoConfig
    /\ UNCHANGED relations

(* prisma migrate deploy, which starts with its history, or prisma db      *)
(* push, which has none; either may be interrupted, and go on later.       *)
migrate ==
    /\ ~Reached("listening")
    /\ \/ relations' = relations \union {MIGRATIONS_TABLE}
       \/ \E i \in DOMAIN REQUIRED_SCHEMA_TABLES :
             /\ \A j \in 1 .. i - 1 : REQUIRED_SCHEMA_TABLES[j] \in relations
             /\ relations' = relations \union {REQUIRED_SCHEMA_TABLES[i]}
    /\ relations' # relations
    /\ UNCHANGED <<process, config>>

listening == Reached("listening")

Boot == Deploy \/ probeHistory \/ probeTables \/ create \/ onModuleInit \/ migrate

-------------------------------------------------------------------------------
(* config/src/index.ts: no URL of a gateway on the main network names a    *)
(* test network, it signs for the main network and takes Circle's USDC,    *)
(* whichever of its settings come from the environment and which from the  *)
(* defaults.  schema-guard.ts: it runs on the tables the guard names, and  *)
(* in production on ones that migrations made, though others were changing *)
(* the schema while the guard looked.  (A URL that leads to a test network *)
(* without naming it is let through, and nothing is said of the contracts: *)
(* without a variable they are the test network's.)                        *)
BootIsSafe ==
    listening =>
        /\ config.network = "mainnet" =>
              /\ "marked" \notin {config.horizonUrl, config.sorobanRpcUrl}
              /\ config.networkPassphrase = "main" /\ config.usdcIssuer = "circle"
        /\ \A i \in DOMAIN REQUIRED_SCHEMA_TABLES : REQUIRED_SCHEMA_TABLES[i] \in relations
        /\ config.production => MIGRATIONS_TABLE \in relations

===============================================================================
