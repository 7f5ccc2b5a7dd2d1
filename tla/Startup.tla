------------------------------ MODULE Startup ------------------------------
(***************************************************************************)
(* The start of the API process, src/apps/api/src/main.rs: configuration,  *)
(* verification of the nodes, storage, services, wallets, and then the     *)
(* wait for readiness while the synchronization, submission and readiness  *)
(* tasks already run and any of them, or a signal, may end it.             *)
(***************************************************************************)
EXTENDS Integers, Sequences, FiniteSets, FiniteSetsExt, SequencesExt

CONSTANT None

-----------------------------------------------------------------------------
(***************************************************************************)
(* The configuration: what Config::validate accepts, and what the          *)
(* constructors that later take the values accept again.  Texts are        *)
(* records of the properties that the checks look at.                      *)
(***************************************************************************)

Chains == <<"bitcoin", "ethereum", "solana">>

Blank(text) == text = "blank"

\* SyncConfig::validate, of all chains.
ValidSync(sync) == sync.depth > 0 /\ sync.retention > 0 /\ sync.poll > 0 /\ sync.batch > 0

\* RpcConfig::validate.
ValidRpc(rpc) ==
    /\ rpc.endpoints # <<>> /\ \A e \in ToSet(rpc.endpoints) : ~Blank(e)
    /\ rpc.timeout > 0 /\ rpc.response > 0
    /\ \A name \in rpc.headers : ~Blank(name)

\* A hash text: its prefix, whether its digits are hexadecimal, their case and number.
HashBytes(hash) == IF hash.hex THEN hash.bytes ELSE -1

\* BitcoinConfig::validate: 32 bytes in lower case.
ValidBitcoin(c) ==
    ValidRpc(c.rpc) /\ ValidSync(c.sync) /\ HashBytes(c.genesis) = 32 /\ c.genesis.lower /\ ~c.genesis.prefix

\* Limits::new.
ValidLimits(limits) ==
    /\ limits.input > 0 /\ limits.margin <= 10000 /\ limits.gas > 0
    /\ limits.fee > 0 /\ limits.total > 0 /\ limits.priority <= limits.fee

\* UsdcConfig: one spelling, and not zero.
ValidUsdc(usdc) == usdc = None \/ (usdc.address /\ usdc.lower /\ ~usdc.zero)

\* EthereumConfig::validate.
ValidEthereum(c) ==
    /\ ValidRpc(c.rpc) /\ ValidSync(c.sync)
    /\ ~Blank(c.network) /\ c.chainId # 0
    /\ c.usdc = None \/ Len(c.rpc.endpoints) = 1
    /\ c.genesis.prefix /\ HashBytes(c.genesis) = 32
    /\ ValidLimits(c.limits) /\ ValidUsdc(c.usdc)

\* SolanaConfig::validate: one endpoint.
ValidSolana(c) ==
    ~Blank(c.network) /\ c.genesis.base58 /\ Len(c.rpc.endpoints) = 1 /\ ValidRpc(c.rpc) /\ ValidSync(c.sync)

\* PostgresConfig::validate; pool_for_schema checks the same of the schema.
ValidSchema(schema) ==
    /\ schema.length \in 1..63 /\ schema.first = "lower"
    /\ schema.rest \subseteq {"lower", "digit", "underscore"} /\ ~schema.pg

ValidPostgres(p) == ~Blank(p.urlEnv) /\ ValidSchema(p.schema) /\ p.connections > 0

Supports(config, asset) ==
    CASE asset = "Btc"  -> config.bitcoin # None
      [] asset = "Eth"  -> config.ethereum # None
      [] asset = "Usdc" -> config.ethereum # None /\ config.ethereum.usdc # None
      [] asset = "Sol"  -> config.solana # None

ValidWallets(config) ==
    LET ws == config.wallets
    IN  /\ \A i \in DOMAIN ws :
             ~Blank(ws[i].id) /\ ~Blank(ws[i].secretEnv) /\ Supports(config, ws[i].asset)
        /\ \A i, j \in DOMAIN ws : ws[i].id = ws[j].id => i = j

Configured(config) == {c \in ToSet(Chains) : config[c] # None}

\* Config::validate.
ValidConfig(config) ==
    /\ ~Blank(config.bearerTokenEnv) /\ ValidPostgres(config.postgres)
    /\ Configured(config) # {}
    /\ config.bitcoin # None => ValidBitcoin(config.bitcoin)
    /\ config.ethereum # None => ValidEthereum(config.ethereum)
    /\ config.solana # None => ValidSolana(config.solana)
    /\ ValidWallets(config)

\* BearerToken::new and the server's Config::validate: strict, with a token.
ValidServer(config, token) ==
    token \notin {None, "empty", "spaced"} /\ (config.loopback \/ config.tls)

-----------------------------------------------------------------------------
\* The settings made of a chain's configuration, and the constructors they go to.

Settings(c, network) ==
    [endpoints |-> c.rpc.endpoints, headers |-> c.rpc.headers, timeout |-> c.rpc.timeout, response |-> c.rpc.response,
     network |-> network, genesis |-> c.genesis,
     confirmations |-> c.sync.depth, retention |-> c.sync.retention, batch |-> c.sync.batch]

\* Bitcoin names its network itself, the others by a slug.
BitcoinSettings(c) == Settings(c, "canonical")
EthereumSettings(c) == Settings(c, c.network)
SolanaSettings(c) == Settings(c, c.network)

\* json_rpc::Http::new: its bounds, and headers and endpoints that can be read.
HttpNew(s) ==
    /\ s.endpoints # <<>> /\ \A e \in ToSet(s.endpoints) : e = "url"
    /\ s.timeout > 0 /\ s.response > 0
    /\ s.headers \subseteq {"name"}

\* IndexerSettings::client and transport of Bitcoin; the hash is read first.
BitcoinClient(s) == HashBytes(s.genesis) = 32 /\ ~s.genesis.prefix /\ HttpNew(s)

\* Ethereum's, where the prefix of the hash is optional.
EthereumClient(s) == HttpNew(s) /\ HashBytes(s.genesis) = 32

SolanaClient(s) == Len(s.endpoints) = 1 /\ HttpNew(s) /\ s.genesis.base58

\* indexing::SyncConfig::new.
SyncConfigNew(s) == s.confirmations > 0 /\ s.retention > 0 /\ s.batch > 0

\* Repository::new.
RepositoryNew(s) == ~Blank(s.network)

\* IndexerSettings::build of each chain: the source, the interpreter and the
\* synchronizer check the scope and the bounds once more.
BitcoinBuild(s) == s.network = "canonical" /\ HashBytes(s.genesis) = 32 /\ SyncConfigNew(s)
EthereumBuild(s) == ~Blank(s.network) /\ HashBytes(s.genesis) = 32 /\ SyncConfigNew(s)
SolanaBuild(s) == ~Blank(s.network) /\ SyncConfigNew(s)

\* The node is the one of the configuration and has what the process needs: Bitcoin
\* its transaction index, Solana the memo program, Ethereum the USDC contract if one
\* is configured.
BitcoinNode(node) == node = "right"
EthereumNode(c, node) == node = "right" \/ (node = "incomplete" /\ c.usdc = None)
SolanaNode(node) == node = "right"

\* ConfiguredWallet::decode_secret: the bytes of the secret, or None.
DecodeSecret(asset, secret) ==
    IF secret = None THEN None
    ELSE IF asset = "Sol" /\ (secret.length # 64 \/ ~secret.hex \/ ~secret.lower) THEN None
    ELSE IF ~secret.hex \/ secret.length # 64 THEN None
    ELSE secret.bytes

-----------------------------------------------------------------------------

-----------------------------------------------------------------------------
(***************************************************************************)
(* A configuration with every chain, the ones that differ from it in one   *)
(* value, and worlds that differ in one respect from one where all goes    *)
(* well.                                                                   *)
(***************************************************************************)

Rpc == [endpoints |-> <<"url">>, timeout |-> 1, response |-> 1, headers |-> {"name"}]
Sync == [depth |-> 1, retention |-> 1, poll |-> 1, batch |-> 1]
Limits == [input |-> 1, margin |-> 2000, gas |-> 1, fee |-> 2, priority |-> 1, total |-> 1]
Schema == [length |-> 3, first |-> "lower", rest |-> {"lower"}, pg |-> FALSE]
Hash == [prefix |-> FALSE, hex |-> TRUE, lower |-> TRUE, bytes |-> 32, base58 |-> FALSE]
Usdc == [address |-> TRUE, lower |-> TRUE, zero |-> FALSE]

Wallet(id, asset, secret) == [id |-> id, asset |-> asset, secretEnv |-> secret]

Base ==
    [bearerTokenEnv |-> "TOKEN", tls |-> FALSE, loopback |-> TRUE,
     postgres |-> [urlEnv |-> "URL", schema |-> Schema, connections |-> 1],
     bitcoin |-> [genesis |-> Hash, rpc |-> Rpc, sync |-> Sync],
     ethereum |-> [network |-> "slug", chainId |-> 1, genesis |-> [Hash EXCEPT !.prefix = TRUE], rpc |-> Rpc,
                   sync |-> [Sync EXCEPT !.poll = 2], usdc |-> Usdc, limits |-> Limits],
     solana |-> [network |-> "slug", genesis |-> [Hash EXCEPT !.hex = FALSE, !.base58 = TRUE], rpc |-> Rpc, sync |-> Sync],
     wallets |-> <<Wallet("w1", "Eth", "S1"), Wallet("w2", "Btc", "S1"), Wallet("w3", "Sol", "S2")>>]

World ==
    [token |-> "secret", url |-> TRUE, schema |-> TRUE,
     secret |-> [S1 |-> [hex |-> TRUE, lower |-> TRUE, length |-> 64, bytes |-> "one"],
                 S2 |-> [hex |-> TRUE, lower |-> TRUE, length |-> 64, bytes |-> "two"]],
     node |-> [c \in ToSet(Chains) |-> "right"],
     stored |-> <<[id |-> "r1", asset |-> "Btc", address |-> <<"Btc", "b">>], [id |-> "r2", asset |-> "Eth", address |-> <<"ethereum", "e">>]>>]

\* The values of one chain's RPC, synchronization and genesis that the checks refuse,
\* and some they do not.
Rpcs == {[Rpc EXCEPT !.endpoints = es] : es \in {<<>>, <<"blank">>, <<"unreadable">>, <<"url", "url">>, <<"url", "blank">>}}
        \cup {[Rpc EXCEPT !.timeout = 0], [Rpc EXCEPT !.response = 0], [Rpc EXCEPT !.headers = {"blank"}],
              [Rpc EXCEPT !.headers = {"unreadable"}]}
Syncs == {[Sync EXCEPT ![f] = 0] : f \in DOMAIN Sync}
Hashes == {[Hash EXCEPT !.prefix = TRUE], [Hash EXCEPT !.lower = FALSE], [Hash EXCEPT !.bytes = 31], [Hash EXCEPT !.hex = FALSE],
           [Hash EXCEPT !.prefix = TRUE, !.lower = FALSE], [Hash EXCEPT !.prefix = TRUE, !.bytes = 31]}

ChainConfigs ==
    UNION {{[Base EXCEPT ![c].rpc = r] : r \in Rpcs} \cup {[Base EXCEPT ![c].sync = s] : s \in Syncs}
           \cup {[Base EXCEPT ![c].genesis = h] : h \in Hashes} \cup {[Base EXCEPT ![c] = None]} : c \in ToSet(Chains)}

EthereumConfigs ==
    {[Base EXCEPT !.ethereum.limits = l] :
        l \in {[Limits EXCEPT ![f] = 0] : f \in DOMAIN Limits} \cup {[Limits EXCEPT !.margin = 10001], [Limits EXCEPT !.priority = 3]}}
    \cup {[Base EXCEPT !.ethereum.usdc = u] : u \in {None, [Usdc EXCEPT !.zero = TRUE], [Usdc EXCEPT !.lower = FALSE]}}
    \cup {[Base EXCEPT !.ethereum.network = "blank"], [Base EXCEPT !.ethereum.chainId = 0], [Base EXCEPT !.solana.network = "blank"]}

OtherConfigs ==
    {[Base EXCEPT !.bitcoin = None, !.ethereum = None, !.solana = None], [Base EXCEPT !.bearerTokenEnv = "blank"],
     [Base EXCEPT !.loopback = FALSE], [Base EXCEPT !.loopback = FALSE, !.tls = TRUE],
     [Base EXCEPT !.postgres.urlEnv = "blank"], [Base EXCEPT !.postgres.connections = 0]}
    \cup {[Base EXCEPT !.postgres.schema = s] : s \in {[Schema EXCEPT !.length = 64], [Schema EXCEPT !.pg = TRUE], [Schema EXCEPT !.first = "digit"]}}

WalletConfigs ==
    {[Base EXCEPT !.wallets = ws] :
        ws \in {<<>>, <<Wallet("w1", "Eth", "S1"), Wallet("w2", "Eth", "S1"), Wallet("w3", "Usdc", "S2")>>,
                <<Wallet("w1", "Eth", "S1"), Wallet("w2", "Usdc", "S1")>>,
                <<Wallet("w1", "Eth", "S1"), Wallet("w2", "Eth", "S2"), Wallet("w3", "Usdc", "S1")>>,
                <<Wallet("w1", "Eth", "S1"), Wallet("w1", "Btc", "S1")>>, <<Wallet("r1", "Eth", "S1")>>, <<Wallet("blank", "Eth", "S1")>>}}
    \cup {[Base EXCEPT !.ethereum.usdc = None, !.wallets = <<Wallet("w1", "Usdc", "S1")>>]}

Secret == World.secret.S1

Worlds ==
    {[World EXCEPT !.token = t] : t \in {None, "empty", "spaced"}} \cup {[World EXCEPT !.url = FALSE], [World EXCEPT !.schema = FALSE]}
    \cup {[World EXCEPT !.node[c] = n] : c \in ToSet(Chains), n \in {"other", "incomplete"}}
    \cup {[World EXCEPT !.secret[s] = x] : s \in {"S1", "S2"},
             x \in {None, [Secret EXCEPT !.bytes = "zero"], [Secret EXCEPT !.lower = FALSE], [Secret EXCEPT !.length = 62], [Secret EXCEPT !.hex = FALSE]}}
    \cup {[World EXCEPT !.stored = <<>>], [World EXCEPT !.stored = @ \o <<[id |-> "r1", asset |-> "Eth", address |-> <<"ethereum", "e">>]>>]}

Starts == {[config |-> c, world |-> World] : c \in {Base} \cup ChainConfigs \cup EthereumConfigs \cup OtherConfigs \cup WalletConfigs}
            \cup {[config |-> Base, world |-> w] : w \in Worlds}
            \cup {[config |-> [Base EXCEPT !.ethereum.usdc = None], world |-> [World EXCEPT !.node["ethereum"] = "incomplete"]]}

-----------------------------------------------------------------------------
VARIABLES
    config, world,
    pc,          \* where main is
    verified,    \* chains whose node was verified
    pool,        \* whether the connection pool was opened
    values,      \* the wallets of the collection: id -> asset, address, how it came in
    imports,     \* configured wallets still to be imported
    task,        \* the spawned tasks: none, running, ok or failed
    shutdown,    \* the signal for synchronization to end
    ready, state,
    exit         \* how main returned

vars == <<config, world, pc, verified, pool, values, imports, task, shutdown, ready, state, exit>>

Tasks == {"synchronization", "submissions", "readiness"}

Init ==
    /\ \E s \in Starts : config = s.config /\ world = s.world
    /\ pc = "read" /\ verified = {} /\ pool = FALSE /\ values = <<>> /\ imports = <<>>
    /\ task = [t \in Tasks |-> "none"]
    /\ shutdown = FALSE /\ ready = FALSE /\ state = "CatchingUp" /\ exit = None

built == <<pool, values, imports>>
running == <<task, shutdown, ready, state>>

Fail(reason) ==
    /\ pc' = "exited" /\ exit' = reason
    /\ UNCHANGED <<config, world, verified, built, running>>

Go(next) == pc' = next /\ UNCHANGED <<config, world, exit>>

-----------------------------------------------------------------------------
\* Configuration and verification.

Read ==
    /\ pc = "read"
    /\ IF ~ValidConfig(config) THEN Fail("config")
       ELSE Go("server") /\ UNCHANGED <<verified, built, running>>

Server ==
    /\ pc = "server"
    /\ IF ~ValidServer(config, world.token) THEN Fail("server")
       ELSE Go("verify") /\ UNCHANGED <<verified, built, running>>

\* The chain to verify next.
Pending == SelectSeq(Chains, LAMBDA c : c \in Configured(config) \ verified)

\* The settings are built, and the node is asked for its identity.
VerifyChain(c, client, node) ==
    /\ pc = "verify" /\ Pending # <<>> /\ Head(Pending) = c
    /\ IF ~client THEN Fail("settings")
       ELSE IF ~node THEN Fail("node")
       ELSE verified' = verified \cup {c} /\ Go("verify") /\ UNCHANGED <<built, running>>

VerifyBitcoin ==
    VerifyChain("bitcoin", BitcoinClient(BitcoinSettings(config.bitcoin)), BitcoinNode(world.node["bitcoin"]))

VerifyEthereum ==
    VerifyChain("ethereum", EthereumClient(EthereumSettings(config.ethereum)) /\ ValidLimits(config.ethereum.limits),
                EthereumNode(config.ethereum, world.node["ethereum"]))

VerifySolana ==
    VerifyChain("solana", SolanaClient(SolanaSettings(config.solana)), SolanaNode(world.node["solana"]))

\* Any of the requests may fail.
VerifyFails == pc = "verify" /\ Pending # <<>> /\ Fail("node")

\* verify_then_open.
Verified == Pending = <<>>

Open ==
    /\ pc = "verify" /\ Verified
    /\ IF ~world.url THEN Fail("url")
       ELSE IF ~ValidSchema(config.postgres.schema) \/ config.postgres.connections = 0 THEN Fail("settings")
       ELSE pool' = TRUE /\ Go("schema") /\ UNCHANGED <<verified, values, imports, running>>

\* validate_schema and every later query may fail.
DatabaseFails == pc \in {"schema", "build", "restore"} /\ Fail("database")

ValidateSchema ==
    /\ pc = "schema"
    /\ IF ~world.schema THEN Fail("database")
       ELSE Go("build") /\ UNCHANGED <<verified, built, running>>

\* A repository and a service for each chain.
Builds(c) ==
    LET s == CASE c = "bitcoin"  -> BitcoinSettings(config.bitcoin)
               [] c = "ethereum" -> EthereumSettings(config.ethereum)
               [] c = "solana"   -> SolanaSettings(config.solana)
    IN  /\ RepositoryNew(s)
        /\ CASE c = "bitcoin"  -> BitcoinBuild(s)
             [] c = "ethereum" -> EthereumBuild(s)
             [] c = "solana"   -> SolanaBuild(s)

\* The checkpoint of each is read, and they are composed.
Build ==
    /\ pc = "build"
    /\ IF \E c \in Configured(config) : ~Builds(c) THEN Fail("settings")
       ELSE Go("restore") /\ UNCHANGED <<verified, built, running>>

-----------------------------------------------------------------------------
\* Wallets.

Entry(w, how) == [asset |-> w.asset, address |-> w.address, how |-> how]

\* Families are registered in order; only Bitcoin's and native Ethereum's have a
\* registry, and what it holds is restored.
Restorable == SelectSeq(world.stored, LAMBDA w : w.asset \in {"Btc", "Eth"} /\ Supports(config, w.asset))

Restore ==
    /\ pc = "restore"
    /\ LET ws == Restorable
           ids == {ws[i].id : i \in DOMAIN ws}
       IN  IF Cardinality(ids) # Len(ws) THEN Fail("wallets")
           ELSE /\ values' = [i \in ids |-> Entry(CHOOSE w \in ToSet(ws) : w.id = i, "restored")]
                /\ imports' = config.wallets
                /\ Go("import") /\ UNCHANGED <<verified, pool, running>>

\* remember_imported_ethereum_asset.
Remembered(address, asset) ==
    \A i \in DOMAIN values :
        values[i].how = "imported" /\ values[i].asset \in {"Eth", "Usdc"} /\ values[i].address = address
            => values[i].asset = asset

\* Wallets::store refuses an id that is in use.
Taken(id) == id \in DOMAIN values

\* Each configured wallet in turn: its secret, its key, its place in the collection.
Import ==
    /\ pc = "import" /\ imports # <<>>
    /\ LET w == Head(imports)
           secret == DecodeSecret(w.asset, world.secret[w.secretEnv])
           address == <<IF w.asset \in {"Eth", "Usdc"} THEN "ethereum" ELSE w.asset, secret>>
       IN  IF secret = None THEN Fail("secret")
           ELSE IF secret = "zero" /\ w.asset # "Sol" THEN Fail("secret")
           ELSE IF Taken(w.id) THEN Fail("wallets")
           ELSE IF w.asset \in {"Eth", "Usdc"} /\ ~Remembered(address, w.asset) THEN Fail("wallets")
           ELSE /\ values' = [i \in DOMAIN values \cup {w.id} |->
                                IF i = w.id THEN Entry([asset |-> w.asset, address |-> address], "imported") ELSE values[i]]
                /\ imports' = Tail(imports)
                /\ Go("import") /\ UNCHANGED <<verified, pool, running>>

-----------------------------------------------------------------------------
\* The tasks, and the wait for readiness.

Spawn ==
    /\ pc = "import" /\ imports = <<>>
    /\ task' = [t \in Tasks |-> "running"]
    /\ Go("wait") /\ UNCHANGED <<verified, built, shutdown, ready, state>>

\* indexing_runtime::run: a round ends in a new state, or the run ends.
Synchronize ==
    /\ task["synchronization"] = "running"
    /\ \/ /\ ~shutdown
          /\ \/ state' \in {"Ready", "CatchingUp", "Retrying"} /\ UNCHANGED task
             \/ state' = "Retrying" /\ task' = [task EXCEPT !["synchronization"] = "failed"]
       \/ shutdown /\ task' = [task EXCEPT !["synchronization"] = "ok"] /\ UNCHANGED state
    /\ UNCHANGED <<config, world, pc, verified, built, shutdown, ready, exit>>

\* readiness::publish: the last state it saw, until synchronization is gone.
Publish ==
    /\ task["readiness"] = "running"
    /\ ready' = (state = "Ready")
    /\ task' = IF task["synchronization"] = "running" THEN task ELSE [task EXCEPT !["readiness"] = "ok"]
    /\ UNCHANGED <<config, world, pc, verified, built, shutdown, state, exit>>

\* The supervisor ends when it is closed, ...
SubmissionsEnd ==
    /\ task["submissions"] = "running" /\ pc = "close"
    /\ task' = [task EXCEPT !["submissions"] = "ok"]
    /\ UNCHANGED <<config, world, pc, verified, built, shutdown, ready, state, exit>>

\* ... or when one of its tasks fails.
SubmissionsFail ==
    /\ task["submissions"] = "running"
    /\ task' = [task EXCEPT !["submissions"] = "failed"]
    /\ UNCHANGED <<config, world, pc, verified, built, shutdown, ready, state, exit>>

\* The loop ends when readiness is seen, ...
SeesReady ==
    /\ pc = "wait" /\ ready
    /\ Go("bind") /\ UNCHANGED <<verified, built, running>>

\* ... when a task has ended, whose handle is then gone, ...
Stopping(t) == task[t] \in {"ok", "failed"}

TaskEnds(t) ==
    /\ pc = "wait" /\ Stopping(t)
    /\ pc' = "cleanup" /\ exit' = "stopped"
    /\ ready' = FALSE /\ task' = [task EXCEPT ![t] = "none"]
    /\ UNCHANGED <<config, world, verified, built, shutdown, state>>

\* ... or on a signal.
Signal ==
    /\ pc = "wait"
    /\ pc' = "cleanup" /\ exit' = "signal"
    /\ ready' = FALSE
    /\ UNCHANGED <<config, world, verified, built, task, shutdown, state>>

\* Registration is closed and the supervisor joined, ...
CloseSubmissions ==
    /\ pc = "cleanup"
    /\ IF task["submissions"] = "none"
       THEN Go("stop") /\ UNCHANGED <<verified, built, running>>
       ELSE IF task["submissions"] = "failed" THEN Fail("join")
       ELSE Go("close") /\ UNCHANGED <<verified, built, running>>

JoinSubmissions ==
    /\ pc = "close" /\ task["submissions"] # "running"
    /\ IF task["submissions"] = "failed" THEN Fail("join")
       ELSE Go("stop") /\ UNCHANGED <<verified, built, running>>

\* ... synchronization is told to end and joined, ...
StopSynchronization ==
    /\ pc = "stop"
    /\ shutdown' = (task["synchronization"] # "none")
    /\ Go("join") /\ UNCHANGED <<verified, built, task, ready, state>>

JoinSynchronization ==
    /\ pc = "join" /\ task["synchronization"] # "running"
    /\ IF task["synchronization"] = "failed" THEN Fail("join")
       ELSE Go("last") /\ UNCHANGED <<verified, built, running>>

\* ... and so is the readiness task.
JoinReadiness ==
    /\ pc = "last" /\ task["readiness"] # "running"
    /\ pc' = "exited"
    /\ UNCHANGED <<config, world, verified, built, running, exit>>

\* The listener; when it cannot be bound main returns at once.
Bind ==
    /\ pc = "bind"
    /\ \/ Fail("bind")
       \/ Go("serving") /\ UNCHANGED <<verified, built, running>>

Done == pc \in {"exited", "serving"} /\ UNCHANGED vars

Main ==
    \/ Read \/ Server \/ VerifyBitcoin \/ VerifyEthereum \/ VerifySolana \/ VerifyFails \/ Open \/ DatabaseFails \/ ValidateSchema
    \/ Build \/ Restore \/ Import \/ Spawn \/ SeesReady
    \/ \E t \in Tasks : TaskEnds(t)
    \/ CloseSubmissions \/ JoinSubmissions \/ StopSynchronization \/ JoinSynchronization \/ JoinReadiness \/ Bind

\* Tasks and signals die with the process; what serves is the subject of
\* SolanaSubmission.
Alive == pc \notin {"exited", "serving"}

Next == Main \/ (Alive /\ (Synchronize \/ Publish \/ SubmissionsEnd \/ SubmissionsFail)) \/ Signal \/ Done

\* main runs, and each task is run to its next await.
Spec ==
    /\ Init /\ [][Next]_vars
    /\ WF_vars(Main) /\ WF_vars(Alive /\ Synchronize) /\ WF_vars(Alive /\ Publish) /\ WF_vars(Alive /\ SubmissionsEnd)

-----------------------------------------------------------------------------

\* Storage is opened only once every configured chain was verified, against a node
\* that is the one configured (verify_then_open).
VerifiedBeforeStorage ==
    pool => \A c \in Configured(config) : 
        /\ c \in verified /\ world.node[c] # "other"
        /\ world.node[c] = "incomplete" => c = "ethereum" /\ config.ethereum.usdc = None

\* What Config::validate accepts, the constructors accept: once storage is open no
\* constructor refuses a value of the configuration any more.
BuildsWhatItAccepted == pool => exit # "settings"

\* An Ethereum address that the configuration imports stands for one asset, however
\* many wallets of it there are.
OneAssetPerAddress ==
    \A i, j \in DOMAIN values :
        /\ values[i].how = "imported" /\ values[j].how = "imported"
        /\ {values[i].asset, values[j].asset} \subseteq {"Eth", "Usdc"} /\ values[i].address = values[j].address
        => values[i].asset = values[j].asset

\* A process that serves holds every wallet it was configured with and every wallet
\* of the registries, each under its own id.
ServesEveryWallet ==
    pc = "serving" =>
        /\ DOMAIN values = {w.id : w \in ToSet(config.wallets) \cup ToSet(Restorable)}
        /\ \A w \in ToSet(config.wallets) : values[w.id].how = "imported" /\ values[w.id].asset = w.asset
        /\ \A w \in ToSet(Restorable) : values[w.id].how = "restored"

\* A start that ends in an orderly stop leaves no task running.
OrderlyStop ==
    pc = "exited" /\ exit \in {"signal", "stopped"} => \A t \in Tasks : task[t] # "running"

\* A start that is asked to stop, or that loses a task, ends.
Cleaning == pc \in {"cleanup", "close", "stop", "join", "last"}

\* A start whose synchronization fails does not go on waiting.
Failed == task["synchronization"] = "failed"

Settled == pc \in {"exited", "serving"}

=============================================================================
