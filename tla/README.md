# TLA+ models of the Payment SDK

The models follow the code of the Payment SDK part by part: the indexing core
(how blocks are applied and reverted while wallets are published), the
repositories below it, the block sources and interpreters of Bitcoin, Ethereum
and Solana, the coordinators that send transactions, the wallets, the JSON-RPC
client, the storage engine, the API process with its start and shutdown, and the
design linter. TLC checks them on small instances. TLAPS proves the safety of
six of them, in which most can go wrong, for every instance.

## The system and its models

A *scope* (one chain on one network) has a source, a repository and a wallet
collection. The synchronizer fetches blocks, has them interpreted for the
registered addresses and applies them to the repository; it competes with
`generate` and `adopt`, which publish new addresses, for the scope's admission
lock. Wallets prepare and sign transfers; the coordinators keep two sends of one
account from getting in each other's way and remember what may still land. The
API process starts all of this, serves requests and shuts it down in order.

| Part | Source (below `src/`) | Modules |
|---|---|---|
| Admission lock, wallet collection, registry | `sdk/indexing/src/admission.rs`, `sdk/wallets/src`, `sdk/indexing/postgres/src/registry.rs` | `Wallets` |
| Block tree and connection rule | `sdk/chains/base`, `sdk/indexing/src` | `Chain` |
| Repositories, as one step per transition | `sdk/indexing/postgres`, `sdk/indexing/redb` | `Repository` |
| Synchronizer and loop, cut at every await | `sdk/indexing/src/synchronizer.rs`, `sdk/indexing/runtime` | `Indexing` |
| PostgreSQL, statement by statement, and its schema | `sdk/indexing/postgres` | `Postgres` |
| redb repository, read by read | `sdk/indexing/redb` | `RedbRepository`, keys in `StorageCodec` |
| redb engine: owner thread, commits, crashes | `packages/storage/redb` | `RedbStore`, frames in `StorageCodec` |
| Composer, services, loop state | `sdk/indexing/src/composer.rs`, `runtime` | `Composer` |
| History and confirmation reads | `sdk/indexing/src`, both repositories, `apps/api` | `HistoryView` |
| Ethereum coordinator | `sdk/chains/ethereum/src/transaction` | `EthereumCoordinator`, abstract: `NonceLedger` |
| Ethereum preparation, wallet, token | `sdk/chains/ethereum/src` | `EthereumPreparation`, `EthereumWallet`, `EthereumToken` |
| Ethereum source and interpreter | `sdk/chains/ethereum/src/indexer` | `EthereumSource`, `EthereumInterpret` |
| Bitcoin building, sends, wallet | `sdk/chains/bitcoin/src` | `BitcoinBuild`, `BitcoinSend`, `BitcoinWallet` |
| Bitcoin source and interpreter | `sdk/chains/bitcoin/src/indexer` | `BitcoinSource`, `BitcoinInterpret` |
| Solana sends, supervisor, shutdown | `sdk/chains/solana/src/transaction`, `apps/api/src` | `SolanaSubmission` |
| Solana preparation, wallet | `sdk/chains/solana/src` | `SolanaPreparation`, `SolanaWallet` |
| Solana source and interpreter | `sdk/chains/solana/src/indexer` | `SolanaSource`, `SolanaInterpret` |
| JSON-RPC client and its adapters | `packages/json-rpc`, `sdk/chains/*/src/rpc` | `JsonRpc` |
| Amounts, keys | `sdk/chains/base/src/decimal.rs`, `packages/crypto` | `Decimals`, `Signing` |
| Configuration, start, readiness | `apps/api/src` | `Startup` |
| HTTP API | `apps/api/src/api` | `HttpApi` |
| Design linter | `packages/design-lint` | `Lint`, `CaseReports` |

`PROJECT.json` maps every definition to the lines it models.

How state and actions correspond. A variable is a field of a shared structure, a
local of a call that lives across an await, or a row of a store; comments at the
declarations say which. An action is what a handler does between two awaits, or
one critical section. Errors, timeouts and dropped futures are alternatives of
the action they strike, a lost answer is the step with a failure reported. A few
variables only record what happened (`published` in `Wallets`, `sent` in the
coordinators, `log` in `RedbStore`, `seen` in the sources): they are what the
properties speak about. Amounts, widths and byte strings keep their arithmetic
under small constants; hashes and signatures are values.

Operators commented as a *variant* are wrong versions of the operator below
them, and show that the properties can fail.

## Instances and runs

`MCWallets`, `MCRepository` and `MCIndexing` instantiate one module each; the
run `sends` checks `SolanaSubmission` itself, with the batches of `Overlapping`
for `Jobs`. `MCAlgorithms`, `MCProtocols` and `MCLiveness` are suites: the variable
`part` names the one component that a behaviour runs, whose variables are bound
to registers `x1`, `x2`, ... by `INSTANCE ... WITH`. The state spaces of the parts
add up, they do not multiply, and each conjunct `part = "p" => P` is checked for
its own part.

| Run | What it shows |
|---|---|
| `wallets` | Two publishers and a pass compete for the admission lock, with failures, cancellations and restarts: a commit covers every published address, birthdays are pinned, no wakeup is lost, what was published stays observed |
| `repository` | Blocks of two forks are applied and reverted in any order: the history is a path, the live outputs are what a replay leaves (PostgreSQL rules; `reorg` uses redb's) |
| `reorg` | Two callers of `sync` over a source that reorganizes: the store never refuses the holder of a permit, imported wallets have no gap, the index catches up |
| `publish` | A wallet is published while passes run: blocks are committed with it, `Indexing` implements the passes `Wallets` allows, the publication ends |
| `sends` | Two SOL sends that share a wallet, with failures, a panic and a shutdown: one owner and one undecided envelope per wallet, absence only when final, definite failures were never sent, nothing is dispatched unsupervised |
| `algorithms` | Pure algorithms against reference definitions over bounded inputs: amounts, coin selection and fees, keys and frames, interpreters, signing, the linter's decisions |
| `protocols` | Ethereum coordinator (envelopes kept, admission sound, refinement of `NonceLedger`), preparation, JSON-RPC, Bitcoin sends, sources, token, wallets, HTTP API, history pages, both repositories as refinements of `Repository`'s steps |
| `liveness` | redb engine, composer loop, start, case reports; under fairness every call returns and every shutdown ends |
| `stale_publication`, `registry_disagreement`, `tracked_spends` | the three findings below |

**Bounds.** They are chosen so that each case happens at least once more than
the smallest way. `wallets`: three wallets of which two share an address, a
revision that is exhausted. `repository`: seven blocks, a journal of two rows
under a chain of five. `reorg`: batches of 2 and retention 3, so that rollbacks
cross batches and may run out of journal. `publish`: four blocks with a fork.
Positions are sparse, as on Solana. `sends`: a batch of two wallets against a
single transfer of one of them; a command queue of one; a blockhash that is
valid for one of two blocks, so that an envelope lands, expires or is overtaken
by the index; pages of one entry; one panic. Ethereum coordinator: two senders,
two tasks, batches that overlap and repeat a sender, two calls each, three
nonces. redb engine: two clients, two commands in the queue, two faults, a crash
and four versions. Composer: an address of a composed chain and one of a chain
that is not, three blocks in batches of two. In the suites the widths of integers are scaled down with
every limit that depends on them, so that overflow is reached. Symmetry is used
for publishers and passes in `wallets` and for tasks in `protocols`; none of
these runs has a liveness property.

**Fairness.** `FairIndexingSpec` is weakly fair to each pass's and each
publication's own steps: the loop calls `sync` again and every awaited call ends
by an answer or a timeout. `MCLiveness` is weakly fair to the steps of tasks
that the runtime polls, to the redb owner thread (it serves its queue and then
returns to the drop that joins it), to the node that produces blocks and to the
index.
Failures, cancellations, moves of a chain, signals and crashes are never fair.
`CatchesUp` and `PublicationSettles` assume that such steps eventually cease
(`Calm`); `CallsReturn` assumes it of failures of the Ethereum coordinator's
calls only. `CatchesUp` lets the loop stop on an error that no retry repairs: a
reorganization deeper than the journal or a required spend of an output that was
never indexed.

## Findings

Three runs show that the code does something else than the repository says.

1. `stale_publication`: `store` reads the checkpoint (`wallets.rs:343`) before it
   asks for the publication permit, and a free lock adopts that value. A commit
   in between makes the new birthday too low: `docs/CONTRACTS.md:348` promises
   the persisted checkpoint's successor. `Composer` has the same two steps
   (`ReadCheckpoint`, `Admit`), so the blocks committed between them may be skipped
   there too; its `NothingSkipped` is stated for the blocks after the admission.
2. `registry_disagreement`: `adopt` forgets the wallet on any error of `register`
   (`wallets.rs:377`), also when the row was written and only the answer was lost.
3. `tracked_spends`: `SPEND_OUTPUTS` (`projection.rs:49`) qualifies columns with
   a name that its FROM list does not declare. This is read from the statement,
   no server was run. `SpendsRun` is FALSE in this run and TRUE in all others,
   which show the design with a statement that works.

Others were met while modelling and are kept out of the bounds or the statements
of the passing runs, each where noted:

- A retry of a signed Ethereum transaction whose record another call settled is
  told Rejected (`coordinator_state.rs:151`); `RejectedNeverSent` is about batch
  items and first submissions.
- A grouped Bitcoin batch that could pay its fee without change is refused
  (`build.rs:225`); that selection is complete is stated for one sender.
- A wallet whose registration failed after its row was written is restored by the
  next start with its old birthday (`wallets.rs:195`); `Indexing` has no registry,
  so the blocks that were committed without it are not checked.
- redb's page of outputs compares checkpoints by value (`outputs.rs:27`), so a
  block applied before and removed after the scan goes unnoticed;
  `PagesAreOneList` excepts a reader whose checkpoint left and came back.
- A header or receipts asked of an endpoint that is a block behind stop indexing
  (`bitcoin rpc/blocks.rs:40`, `ethereum source/mod.rs:206`); `AnswersWereTrue`
  is checked with one endpoint that moves, calls over two in `liveness`.
- A plus sign before a hexadecimal digit is taken as part of an address
  (`ethereum address.rs:46`); the text properties allow for it.
- A refused second Solana wallet of an address drops the key batches sign with
  (`solana wallet/provider.rs:226`); in the run only imports, which are not refused, share a secret.
- The migration creates tables under other names than the ones validation asks
  for (`postgres schema.rs:187`); `Initializer` is one of the catalogs, and refused.

## Proofs

Each proof module extends its component and proves, for all values of the
constants, an inductive invariant and from it the listed properties.

| Module | Invariant | Results |
|---|---|---|
| `WalletsProofs` | `AdmissionInv` | `TypeOK`, `Exclusive`, `CommitCoversPublished`, `BirthdayPinned`, `NoLostWakeup`, `PublishedObserved` |
| `RepositoryProofs` | `RepositoryInv` | `HistoryIsPath`, `JournalLinked`, `OutputsAreReplay` |
| `IndexingProofs` | `IndexingInv` | refinement of `Wallets` and `Repository`, `InspectsPublished`, `StoreAgrees`, `NoGap` |
| `EthereumCoordinatorInv`, `EthereumCoordinatorProofs` | `IInv`, `OInv` | refinement of `NonceLedger`, `AdmissionSound`, `EnvelopesKept` |
| `RedbStoreProofs` | `IInv`, `SInv` | `StoreIsSafe`, `AcceptedIsDecided` |
| `SolanaSubmissionProofs` | `IInv` | `TypeOK`, `SendsAreSafe`, `SupervisedDispatch` |

**Wallets.** A plan captures its filters outside the lock, so `PlanFresh` says
that a plan whose revision is still current covers every published address.
`InFlightApart` and `IdsUnique` let a failed registration forget its own entry
only, `WaitersWait` carries `NoLostWakeup`. `FiltersCover` shows that merging
filters by least birthday loses nothing.

**Repository.** A removal restores from the journal what an addition replaced:
`HistoryOnChain` says that every applied block is on the chain of the checkpoint,
`JournalUndoes` that a row holds exactly the outputs its block created and spent.

**Indexing.** `IndexingInv` joins both with the locals of a pass: its plan is
covered by its permit, its queue is a chain above the checkpoint or above the
block it unwinds to. `StoreNeverDisagrees` needs
`Backend = "postgres" => SpendsRun`, the third finding. `ImportedIndexHasNoGap`
needs `Publisher = {}`, the first finding; `ImportsHaveNoGap` says without it
that imported wallets have none.

**Ethereum coordinator.** Why a claimed envelope has the lowest nonce of its
sender's records depends on who holds the sender, where the holder's batch stands
and what admission saw when it chose an envelope to recover; `IInv` says all of
that. `OInv` is about entries that are no longer recorded: for each task, what
its own steps establish and no other can undo. That nobody sleeps unblocked
follows from `Blocking`, which classifies the steps that let no sleeper go.

**redb engine.** `IInv` relates the data to the log of commits: a record is the
last commit of its key. `SInv` counts and numbers the commands, so that a reply
is about the commit of its own caller: whatever fails, crashes and reopens, an
acknowledged update is there, an error says truthfully whether something was
written, and a latched handle heals or stays closed. `AcceptedIsDecided` is proved
action by action: only the owner thread, which decides a commit, and a crash take
one out of the queue, and the thread returns with an empty queue.

**Solana sends.** The invariant is stated over the two records of a send, its
handler and its task, which is what lets a step of one send leave the others
alone. `Linked` says which positions of the two go together, `Carries` what the
task holds there, `Guards` that the leased and guarded sources are the union of
what the sends keep, without overlap; `Queues` that a registration is in the
queue exactly once until it is taken; `Envelopes` where each envelope on the wire
belongs and that what is undecided is current; `Absences` that what was given up
expired and was not in the index at a height that covers its lifetime;
`Supervision` what each stage of the shutdown leaves behind. `Calm` holds until a
task panics: an abort loses results, and the properties that need them say so.

**Assumptions** are the named ASSUMEs of the modules: types of the constants, a
block tree whose parents lie below, ledgers in which an output is created and
spent once, positive capacities, `None` and `Close` apart from real values. TLC
evaluates them in the runs.

**Only model-checked.** Liveness (`CatchesUp`, `PublicationSettles`,
`CallsReturn`, `WorkEnds`), which needs fairness and ENABLED. The `algorithms`
run, whose definitions recurse over sequences and digits: what they compute for
every input needs induction over data. And the parts of `protocols` and
`liveness` without a proof module: `PreparedIsPayable`, `OutcomesAreTrue`,
`AnswersWereTrue`, `KeptMeansTheSame`, `PagesAreHistory`, `StepsAreAtomic`,
`FailuresLoseNothing` and `ReportsAreTrue` state what one call or run promises on
its own, over folds and sequences that the prover cannot unfold by induction.
The inductive invariants were checked with TLC before they were proved;
`AdmissionInv`, `RepositoryInv` and `IndexingInv` are invariants of runs.

## Limits

- Not modelled: the linter's adopted rules, some forty stateless matches over
  Rust syntax trees whose reference would repeat the pattern, and the parameters
  of test networks.
- Left out of modelled parts: parsing of JSON, headers and environment, texts of
  errors and logs, the curves, RLP and script bytes, lock poisoning, pool and
  session settings, exporting a secret, the Solana `Cancellation` argument, which
  the application never triggers, and the order of observer announcements: a
  paused reconciliation may resume at any time.
- A redb batch of several mutations is one record in `RedbStore`; its parts are
  in `RedbRepository`. JSON-RPC batches are not split into their calls.
- The composed runs of `Indexing` have no registry: a restart that restores the
  row of a failed `adopt` is in `wallets` only, where no block is applied.
