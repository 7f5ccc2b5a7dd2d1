---------------------------- MODULE MCProtocols ----------------------------
(***************************************************************************)
(* The parts of the SDK in which several calls, nodes or writers meet: the *)
(* Ethereum coordinator, preparation, JSON-RPC, block sources, wallets,    *)
(* the HTTP API and the two repositories.  A behaviour is one of a single  *)
(* part, which `part` names, so their state spaces add up.  The            *)
(* coordinator has its own variables, every other part uses as many        *)
(* registers as it has variables.                                          *)
(***************************************************************************)
EXTENDS EthereumCoordinator, TLC

CONSTANTS s1, s2, Declined, Conflict, Native, Blank, ZeroToken

VARIABLES
    part,                                                        \* the part that runs
    x1, x2, x3, x4, x5, x6, x7, x8, x9, x10, x11, x12

registers == <<x1, x2, x3, x4, x5, x6, x7, x8, x9, x10, x11, x12>>

suiteVars == <<part, vars, registers>>

-----------------------------------------------------------------------------
\* Bounds of the coordinator: batches that overlap in both orders, one with a repeated
\* sender, and single calls.

Jobs == {[kind |-> "batch", items |-> <<s1, s1>>], [kind |-> "batch", items |-> <<s2, s1>>],
         [kind |-> "prepare", items |-> <<s1>>]}

\* The coordinator's tasks; two of them also stand for the clients of the API, the
\* writers of redb and the sessions of PostgreSQL, which are as interchangeable.
Symmetry == Permutations(Task)

SolPrepare == INSTANCE SolanaPreparation WITH
    a <- "a", b <- "b", x <- "x", Malformed <- "malformed", OffCurve <- "program", MaxTransfers <- 2,
    QueryLimit <- 3, MaxSlot <- 1, MaxFee <- 1, MaxLamport <- 3,
    request <- x1, at <- x2, floor <- x3, observed <- x4, fees <- x5, simulated <- x6, evidence <- x7, reply <- x8

EthPrepare == INSTANCE EthereumPreparation WITH
    a <- "a", b <- "b", Token <- "token", Native <- "native", WeiMax <- 6, GasMax <- 3, FeeWidth <- 2,
    MaxInput <- 1, Margin <- 1, Denominator <- 2, MaxGas <- 2, MaxFee <- 3, MaxPriority <- 1, MaxTotal <- 3,
    GasAnswer <- 0..3, FeeAnswer <- 0..2,
    batch <- x1, at <- x2, item <- x3, context <- x4, draft <- x5, observed <- x6, short <- x7, reply <- x8

\* The multiplication of the backoff overflows at the second wait.
Rpc == INSTANCE JsonRpc WITH
    Endpoints <- 2, MaxAttempts <- 3, Initial <- 2, MaxBackoff <- 3, ShiftCap <- 2, DurationMax <- 3,
    call <- x1, visits <- x2, waits <- x3, pools <- x4, told <- x5

BtcSend == INSTANCE BitcoinSend WITH
    U64Max <- 3000, ThisNet <- "regtest", NoTip <- None, PageSize <- 1, CoinbaseMaturity <- 3, MaxTransfers <- 3,
    MaxRate <- 1000, Rates <- {0, 500, 1000, 1001},
    tip <- x1, request <- x2, at <- x3, rate <- x4, unread <- x5, pin <- x6, pinned <- x7, after <- x8, found <- x9,
    envelope <- x10, held <- x11, reply <- x12

Http == INSTANCE HttpApi WITH
    Client <- Task, Families <- {"Btc", "Eth", "Sol"}, MaxTransfers <- 3,
    Stored <- [b1 |-> "Btc", b2 |-> "Btc", e1 |-> "Eth", e2 |-> "Eth", s1 |-> "Sol"],
    request <- x1, response <- x2, values <- x3, landed <- x4, mode <- x5, ready <- x6

-----------------------------------------------------------------------------
\* One node whose chain moves under a call.  Competing blocks share a transaction.

BtcSource == INSTANCE BitcoinSource WITH
    Label <- {"x", "y"}, Genesis <- "g", Endpoint <- {1}, MaxHeight <- 2, MaxMoves <- 2, FaultCodes <- {0, -28, -1},
    Parents <- [l \in {"g", "x", "y"} |-> IF l = "x" THEN {1, 2} ELSE {}],
    Info <- [e \in {1} |-> [core31 |-> TRUE, network |-> TRUE, pruned |-> FALSE, downloading |-> FALSE,
                            txindex |-> TRUE, genesis |-> TRUE]],
    best <- x1, known <- x2, moves <- x3, call <- x4, last <- x5, seen <- x6

EthSource == INSTANCE EthereumSource WITH
    Label <- {"x", "y"}, Genesis <- "g", Endpoint <- {1}, MaxHeight <- 2, MaxMoves <- 2,
    FaultCodes <- {0, -32000, -1}, Txs <- [g |-> <<>>, x |-> <<1, 2>>, y |-> <<1>>],
    Info <- [e \in {1} |-> [chain |-> TRUE, genesis |-> TRUE, blockReceipts |-> TRUE]],
    best <- x1, known <- x2, moves <- x3, mode <- x4, call <- x5, last <- x6, seen <- x7

SolSource == INSTANCE SolanaSource WITH
    MaxSlot <- 3, DescendingWindow <- 1, MaxForwardWindow <- 2, MaxEnumerations <- 3, MaxEnumerationSpan <- 2,
    produced <- x1, finalized <- x2, first <- x3, call <- x4, last <- x5

\* Contracts that differ from the expected token in one respect each.
Contract(code, high, low, balanceOf) ==
    [code |-> code, decimals |-> [high |-> high, low |-> low], balanceOf |-> balanceOf]

Token == INSTANCE EthereumToken WITH
    Tokens <- {Native, ZeroToken}, Expected <- 6, MaxMoves <- 2,
    Contracts <- {Contract(TRUE, 0, 6, TRUE), Contract(FALSE, 1, 0, FALSE), Contract(TRUE, 0, 7, TRUE),
                  Contract(TRUE, 1, 6, TRUE), Contract(TRUE, 0, 6, FALSE)},
    token <- x1, chain <- x2, past <- x3, right <- x4, moves <- x5, at <- x6, block <- x7, reply <- x8

-----------------------------------------------------------------------------
\* Wallets that share keys, address texts or networks.

EthWallet == INSTANCE EthereumWallet WITH
    Error <- Declined, ByteBase <- 16, MaxWidth <- 7, AddressBytes <- 1, WordBytes <- 3, EthDecimals <- 2, MaxDecimals <- 3,
    WeiMax <- 4095, Net <- "net", OtherNet <- "other",
    builder <- x1, saved <- x2, kept <- x3, reply <- x4, sent <- x5

BtcWallet == INSTANCE BitcoinWallet WITH
    Error <- Declined, ByteBase <- 16, MaxWidth <- 7, BtcDecimals <- 2, MaxSatoshi <- 255,
    builder <- x1, asked <- x2, saved <- x3, kept <- x4, reply <- x5, sent <- x6

SolWallet == INSTANCE SolanaWallet WITH
    Error <- Declined, ByteBase <- 16, MaxWidth <- 7, SolDecimals <- 2, MaxLamports <- 255, MaxKeys <- 4, Caller <- {"c1", "c2"},
    AddressOf <- [s1 |-> "a1", s2 |-> "a2", s3 |-> "a3"],
    ReadText <- [a1 |-> "a1", a2 |-> "a2", a3 |-> "a3", longer |-> "a2", program |-> "p", bad |-> Declined],
    WriteText <- [a1 |-> "a1", a2 |-> "a2", a3 |-> "a3", p |-> "program"], OnCurve <- {"a1", "a2", "a3"},
    call <- x1, keys <- x2, values <- x3, made <- x4, asked <- x5

View == INSTANCE HistoryView WITH
    Error <- Declined, ByteBase <- 8, MaxWidth <- 9, MaxHeight <- 1, Confirmations <- 2, MaxPage <- 2, Backend <- {"postgres", "redb"},
    home <- x1, chain <- x2, reader <- x3

-----------------------------------------------------------------------------
\* Two forks of block 0, which creates o1; the transaction that spends it and creates
\* o2 is in both 1 and 11; block 2 creates o3.

Tree == {0, 1, 2, 11}
TreeHeight == [b \in Tree |-> IF b = 11 THEN 1 ELSE b]
TreeParent == [b \in Tree |-> CASE b = 0 -> None [] b = 2 -> 1 [] OTHER -> 0]
TreeCreates == [b \in Tree |-> CASE b = 0 -> {"o1"} [] b = 2 -> {"o3"} [] OTHER -> {"o2"}]
TreeSpends == [b \in Tree |-> IF b \in {1, 11} THEN {"o1"} ELSE {}]

Rows == INSTANCE RedbRepository WITH
    Block <- Tree, Pos <- TreeHeight, Height <- TreeHeight, Parent <- TreeParent, Retention <- 2,
    Address <- {"a1", "a2"}, Output <- {"o1", "o2", "o3"}, Owner <- [o1 |-> "a1", o2 |-> "a2", o3 |-> "a1"],
    Creates <- TreeCreates, Spends <- TreeSpends, Tx <- [b \in Tree |-> IF b = 11 THEN 1 ELSE b],
    Rank <- [o1 |-> 1, o2 |-> 2, o3 |-> 3], Writer <- Task, Reader <- {},
    Filters <- {{"a1"}, {"a1", "a2"}}, First <- {0}, Limit <- 1, MaxVersion <- 3, MaxPages <- 0,
    store <- x1, version <- x2, writer <- x3, reader <- x4, inspected <- x5, again <- x6

Pages == INSTANCE RedbRepository WITH
    Block <- Tree, Pos <- TreeHeight, Height <- TreeHeight, Parent <- TreeParent, Retention <- 2,
    Address <- {"a1", "a2"}, Output <- {"o1", "o2", "o3"}, Owner <- [o1 |-> "a1", o2 |-> "a2", o3 |-> "a1"],
    Creates <- TreeCreates, Spends <- TreeSpends, Tx <- [b \in Tree |-> IF b = 11 THEN 1 ELSE b],
    Rank <- [o1 |-> 1, o2 |-> 2, o3 |-> 3], Writer <- {"w1"}, Reader <- {"r1"},
    Filters <- {{"a1", "a2"}}, First <- {0}, Limit <- 1, MaxVersion <- 4, MaxPages <- 3,
    store <- x1, version <- x2, writer <- x3, reader <- x4, inspected <- x5, again <- x6

Fork == {0, 1, 11}

Tables == INSTANCE Postgres WITH
    Block <- Fork, Pos <- [b \in Fork |-> 2 * TreeHeight[b]], Height <- TreeHeight, Parent <- TreeParent, Retention <- 2,
    Address <- {"a1"}, Output <- {"o1", "o2"}, Owner <- [o1 |-> "a1", o2 |-> "a1"],
    Creates <- TreeCreates, Spends <- TreeSpends, Session <- Task, Wallet <- {},
    SchemaName <- "payments",
    catalog <- x1, accepted <- x2, rows <- x3, session <- x4, refusal <- x5

Registry == INSTANCE Postgres WITH
    Block <- Fork, Pos <- [b \in Fork |-> 2 * TreeHeight[b]], Height <- TreeHeight, Parent <- TreeParent, Retention <- 2,
    Address <- {"a1"}, Output <- {"o1", "o2"}, Owner <- [o1 |-> "a1", o2 |-> "a1"],
    Creates <- TreeCreates, Spends <- TreeSpends, Session <- {"s1"}, Wallet <- {"w1", "w2"},
    SchemaName <- "payments",
    catalog <- x1, accepted <- x2, rows <- x3, session <- x4, refusal <- x5

-----------------------------------------------------------------------------
\* Registers after the k-th are not used, and stay so.

Free8 == x9 = None /\ x10 = None /\ x11 = None /\ x12 = None
Free7 == x8 = None /\ Free8
Free6 == x7 = None /\ Free7
Free5 == x6 = None /\ Free6
Free3 == x4 = None /\ x5 = None /\ Free5

Kept8 == UNCHANGED <<x9, x10, x11, x12>>
Kept7 == UNCHANGED <<x8>> /\ Kept8
Kept6 == UNCHANGED <<x7>> /\ Kept7
Kept5 == UNCHANGED <<x6>> /\ Kept6
Kept3 == UNCHANGED <<x4, x5>> /\ Kept5

NoRegisters == x1 = None /\ x2 = None /\ x3 = None /\ Free3

PartInit ==
    \/ part = "coordinator" /\ NoRegisters
    \/ /\ part = "eth_text" /\ x2 = None /\ x3 = None /\ Free3
       /\ x1 \in EthWallet!SeqOf({"0", "1", "x", "a", "B", "+", "g"}, 5)
    \/ part = "sol_prepare" /\ SolPrepare!Init /\ Free8
    \/ part = "eth_prepare" /\ EthPrepare!Init /\ Free8
    \/ part = "rpc" /\ Rpc!Init /\ Free5
    \/ part = "btc_send" /\ BtcSend!Init
    \/ part = "http" /\ Http!Init /\ Free6
    \/ part = "btc_source" /\ BtcSource!Init /\ Free6
    \/ part = "eth_source" /\ EthSource!Init /\ Free7
    \/ part = "sol_source" /\ SolSource!Init /\ Free5
    \/ part = "token" /\ Token!Init /\ Free8
    \/ part = "eth_wallet" /\ EthWallet!Init /\ Free5
    \/ part = "btc_wallet" /\ BtcWallet!Init /\ Free6
    \/ part = "sol_wallet" /\ SolWallet!Init /\ Free5
    \/ part = "view" /\ View!Init /\ Free3
    \/ part = "rows" /\ Rows!Init /\ Free6
    \/ part = "pages" /\ Pages!Init /\ Free6
    \/ part = "tables" /\ Tables!Init /\ Free5
    \/ part = "registry" /\ Registry!Init /\ Free5

SuiteInit == Init /\ PartInit

\* A text is read as an address and as an id of the same length.
ReadText ==
    /\ x2 = None
    /\ x2' = EthWallet!ParseAddressText(x1) /\ x3' = EthWallet!ParseId(x1, 1)
    /\ UNCHANGED x1 /\ Kept3

PartNext ==
    \/ part = "eth_text" /\ (ReadText \/ (x2 # None /\ UNCHANGED registers))
    \/ part = "sol_prepare" /\ SolPrepare!Next /\ Kept8
    \/ part = "eth_prepare" /\ EthPrepare!Next /\ Kept8
    \/ part = "rpc" /\ Rpc!Next /\ Kept5
    \/ part = "btc_send" /\ BtcSend!Next
    \/ part = "http" /\ Http!Next /\ Kept6
    \/ part = "btc_source" /\ BtcSource!Next /\ Kept6
    \/ part = "eth_source" /\ EthSource!Next /\ Kept7
    \/ part = "sol_source" /\ SolSource!Next /\ Kept5
    \/ part = "token" /\ Token!Next /\ Kept8
    \/ part = "eth_wallet" /\ EthWallet!Next /\ Kept5
    \/ part = "btc_wallet" /\ BtcWallet!Next /\ Kept6
    \/ part = "sol_wallet" /\ SolWallet!Next /\ Kept5
    \/ part = "view" /\ View!Next /\ Kept3
    \/ part = "rows" /\ Rows!Next /\ Kept6
    \/ part = "pages" /\ Pages!Next /\ Kept6
    \/ part = "tables" /\ Tables!Next /\ Kept5
    \/ part = "registry" /\ Registry!Next /\ Kept5
    \/ part \in {"rows", "pages"} /\ UNCHANGED registers   \* at the bound on commits

SuiteNext ==
    \/ part = "coordinator" /\ Next /\ UNCHANGED <<part, registers>>
    \/ PartNext /\ UNCHANGED <<part, vars>>

SuiteSpec == SuiteInit /\ [][SuiteNext]_suiteVars

-----------------------------------------------------------------------------
(* Properties.  Those of the coordinator are in its module; the modules of *)
(* the other parts state every conjunct in full.                           *)

\* Every variable of the part that runs holds a value of its type.
PartsTypeOK ==
    /\ part = "coordinator" => TypeOK
    /\ part = "sol_prepare" => SolPrepare!TypeOK
    /\ part = "eth_prepare" => EthPrepare!TypeOK
    /\ part = "rpc" => Rpc!TypeOK
    /\ part = "btc_send" => BtcSend!TypeOK
    /\ part = "rows" => Rows!TypeOK

\* What a caller is told of a submission agrees with what left the process: a failure called
\* definite was never sent (a Bitcoin send, the JSON-RPC client's single dispatch),
\* a response of the API accounts for each transfer of its batch, those that landed, the
\* first that did not and none of an unauthorized request or a second family.
OutcomesAreTrue ==
    /\ part = "btc_send" => BtcSend!DefiniteMeansUnsent
    /\ part = "rpc" => /\ Rpc!SentOnce
                       /\ Rpc!AllTried
                       /\ Rpc!BackoffMonotone
                       /\ Rpc!ToldTheTruth
    /\ part = "http" => /\ Http!ResponseAccounts
                        /\ Http!FailedIndexIsTruthful
                        /\ Http!OneFamilyPerBatch
                        /\ Http!OnlyAuthorizedActs

\* A transaction is prepared only from evidence that fits together, although balances, fees
\* and outputs are read one request after the other while the chain moves: it is payable, by
\* the wallets that sign it, within the configured ceilings, and a refusal names the first
\* item that is not.
PreparedIsPayable ==
    /\ part = "sol_prepare" => /\ SolPrepare!EvidenceOrdered
                               /\ SolPrepare!Solvent
                               /\ SolPrepare!OnlyPlainTransfers
    /\ part = "eth_prepare" => /\ EthPrepare!WithinCeilings
                               /\ EthPrepare!BatchPayable
                               /\ EthPrepare!FirstShortNamed
    /\ part = "btc_send" => /\ BtcSend!SpendsOneSnapshot
                            /\ BtcSend!OwnersSign
                            /\ BtcSend!BalanceIsWhole
                            /\ BtcSend!BatchIsPaid

\* What a source answers from several requests was true of the chain at one moment of the
\* call: the tip, a block with its prevouts or receipts, a range of slots without a hole, an
\* empty slot, a token contract.  A chain that moves under a call never causes an error that
\* stops the index; only pruned history does.
AnswersWereTrue ==
    /\ part = "btc_source" => BtcSource!AnswersWereTrue /\ BtcSource!MovingChainIsRetried
    /\ part = "eth_source" => /\ EthSource!AnswersWereTrue
                              /\ EthSource!ReceiptsAreOfTheirBlock
                              /\ EthSource!MovingChainIsRetried
    /\ part = "sol_source" => /\ SolSource!RangeIsExact
                              /\ SolSource!OmissionIsReal
                              /\ SolSource!OnlyPruningIsFinal
    /\ part = "token" => Token!TokenStoodAtOneBlock /\ Token!StandingTokenPasses

\* What a wallet keeps means the same when it comes back: a restored builder has the saved
\* transfers in the same account, network and asset, only signed bytes are handed on, a kept
\* envelope pays its transfers, every wallet of the collection can sign in a batch, and the
\* texts of addresses and ids name one thing each.
KeptMeansTheSame ==
    /\ part = "eth_wallet" => /\ EthWallet!RestoredIsSaved
                              /\ EthWallet!OwnSnapshotRestores
                              /\ EthWallet!OneMeaning
                              /\ EthWallet!EnvelopePaysTheTransfer
                              /\ EthWallet!SentWasSigned
    /\ part = "btc_wallet" => /\ BtcWallet!RestoredIsSaved
                              /\ BtcWallet!EveryTransferIsPaid
                              /\ BtcWallet!SentWasSigned
                              /\ BtcWallet!ShownAddressesParse
    /\ part = "sol_wallet" => SolWallet!BatchesSignForEveryWallet /\ SolWallet!TransfersAreSound
    /\ part = "eth_text" /\ x2 # None => /\ EthWallet!IdHasOneText(x1, x2, x3)
                                         /\ EthWallet!AddressTextRoundTrips(x1, x2)

\* The pages a caller follows from cursor to cursor are the list at the checkpoint they name,
\* each entry once and in order, whatever is committed or reverted meanwhile (in redb unless
\* the checkpoint leaves and comes back while one page is read: a reader in `again`); what the
\* index accepts can be shown, no row of a removed block stays, and a schema that was accepted
\* keeps wallets apart and has what the statements rely on.
PagesAreHistory ==
    /\ part = "view" => View!HistoryIsReadable /\ View!PagesShowTheHistory
    /\ part = "rows" => Rows!RowsAreHistory
    /\ part = "pages" => Pages!PagesAreOneList
    /\ part = "registry" => Registry!OneWalletPerAddress
    /\ part = "tables" => Tables!SchemaServes

\* What looks like one step to a caller is one, although it is made of several requests,
\* records or statements between those of others: redb's conditional batches and
\* PostgreSQL's transactions are the transitions of Repository, a Bitcoin block is taken
\* only while it is active, and a second transfer changes nothing in an Ethereum builder.
StepsAreAtomic ==
    /\ part = "rows" => Rows!StartsAsRepository
    /\ part = "tables" => Tables!StartsAsRepository
    /\ [][/\ part = "rows" => Rows!TransitionsAreAtomic
          /\ part = "tables" => Tables!ImplementsRepository
          /\ part = "btc_source" => BtcSource!FetchedIsActive
          /\ part = "eth_wallet" => EthWallet!FirstTransferStays]_suiteVars
=============================================================================
