---------------------------- MODULE MCAlgorithms ----------------------------
(***************************************************************************)
(* The algorithms of the SDK that answer a request without waiting for     *)
(* anything: decimal amounts, transaction building, storage formats, block *)
(* interpretation, signing and the design linter.  A behaviour picks one   *)
(* of them and one of its requests, and takes the answer.                  *)
(***************************************************************************)
EXTENDS Integers, Sequences, TLC

CONSTANTS
    None, Declined, Retry, Fatal, Corrupt, Invalid, Unreadable,
    A, B, AtC, D, OddText, Foreign, BigA,      \* addresses and address texts
    ThisScope, OtherScope,
    Zero, Transfer, Approval, Native, Token, ThisHash, OtherHash,
    System, Program

VARIABLES part, request, reply

vars == <<part, request, reply>>

-----------------------------------------------------------------------------
\* The parts and their bounds.

Dec == INSTANCE Decimals WITH Error <- Declined, ByteBase <- 8, MaxWidth <- 9

Build == INSTANCE BitcoinBuild WITH U64Max <- 2000, ThisNet <- "regtest"

Codec == INSTANCE StorageCodec WITH MaxPayload <- 1

Texts == "a" :> A @@ "b" :> B @@ "c" :> AtC @@ "bad" :> Declined

Btc == INSTANCE BitcoinInterpret WITH
    P <- OddText, Scope <- ThisScope, Address <- {A, B, OddText}, Supported <- {A, B},
    ScriptAddress <- "a" :> A @@ "b" :> B @@ "p" :> OddText @@ "n" :> None,
    ParsedText <- A :> A @@ B :> B @@ OddText :> OddText @@ BigA :> A @@ Foreign :> None,
    Places <- 2, MaxU64 <- 250, MaxExternal <- 2, MaxAmount <- 101

Eth == INSTANCE EthereumInterpret WITH
    Error <- Declined, C <- AtC, Scope <- ThisScope, Hash <- ThisHash, Other <- OtherHash,
    ParsedText <- Texts, MaxU64 <- 15, MaxU256 <- 255, WordBytes <- 1, MaxDigit <- 15

Sol == INSTANCE SolanaInterpret WITH
    Error <- Declined, C <- AtC, Scope <- ThisScope, ParsedText <- Texts, MaxKeys <- 7, Fee <- 1

Sign == INSTANCE Signing WITH
    ask <- request, answer <- reply,
    N <- 7, TagHash <- [x \in 0..7 |-> CASE x = 1 -> 3 [] x = 2 -> 5 [] x = 3 -> 8 [] OTHER -> 1]

Rule(id, severity, adopted) == [id |-> id, severity |-> severity, adopted |-> adopted]

Linter == INSTANCE Lint WITH
    ask <- request, answer <- reply, Flags <- {"f"}, Dir <- 1..3,
    Place <- <<<<"packages", "one">>, <<"sdk", "chains", "two">>, <<"sdk", "chains", "three">>>>,
    Catalog <- <<Rule("layout", "Error", FALSE), Rule("naming", "Error", TRUE), Rule("nesting", "Warning", TRUE)>>,
    Default <- [layers |-> <<>>, mapping |-> <<>>, boundaries |-> {}, enabled |-> <<>>]

-----------------------------------------------------------------------------

Coefficients == {-150, -100, -15, -10, -9, -1, 0, 1, 5, 9, 10, 15, 63, 64, 99, 100, 101, 150, 1000}

Init ==
    \/ /\ part = "decimals" /\ reply = None
       /\ request \in Dec!DecimalRequests({"0", "5", "-", "+", ".", " "}, 5, Coefficients, 0..3)
    \/ /\ part = "build" /\ reply = None
       /\ request \in Build!BuildRequests({60, 404, 729, 1200}, {100, 294, 330}, {0, 1000, 2500, 20000})
    \/ part = "codec" /\ Codec!Init
    \/ part = "bitcoin" /\ Btc!Init
    \/ part = "ethereum" /\ Eth!Init
    \/ part = "solana" /\ Sol!Init
    \/ part = "signing" /\ Sign!Init
    \/ part = "scope" /\ Linter!ScopeInit
    \/ part = "graph" /\ Linter!GraphInit
    \/ part = "lint" /\ Linter!RunInit

Calculate == part = "decimals" /\ reply = None /\ reply' = Dec!DecimalReply(request) /\ UNCHANGED request

BuildTransaction == part = "build" /\ reply = None /\ reply' = Build!BuildReply(request) /\ UNCHANGED request

Next ==
    /\ \/ Calculate
       \/ BuildTransaction
       \/ part = "codec" /\ Codec!Answer
       \/ part = "bitcoin" /\ Btc!Answer
       \/ part = "ethereum" /\ Eth!Answer
       \/ part = "solana" /\ Sol!Answer
       \/ part = "signing" /\ Sign!Reply
       \/ part = "scope" /\ Linter!ScopeReply
       \/ part = "graph" /\ Linter!GraphReply
       \/ part = "lint" /\ Linter!RunReply
    /\ UNCHANGED part

Spec == Init /\ [][Next]_vars

-----------------------------------------------------------------------------
\* What the answers are compared with; the module of each part states every conjunct in
\* full, with the code it is about.

\* Numbers are what their digits say, wherever they are read, written, scaled, added or
\* compared: decimals and their stored parts (decimal.rs), the amounts and fee rates of
\* Bitcoin Core's JSON (wire.rs), the quantities of Ethereum's (model.rs), which have one
\* spelling each.  What does not fit its field is refused.
NumbersAreExact ==
    /\ part = "decimals" /\ reply # None =>
          /\ Dec!ArithmeticIsExact(request, reply)
          /\ Dec!TextIsExact(request, reply)
          /\ Dec!AtomicIsExact(request, reply)
          /\ Dec!PartsAreExact(request, reply)
    /\ part = "bitcoin" => Btc!AmountsAreExact
    /\ part = "ethereum" => Eth!OneSpelling

\* A built Bitcoin transaction (build.rs) pays every recipient in full and the asked rate for
\* its signed size, wastes no more than change not worth an output, charges its senders in
\* order, and is refused only when no choice of coins pays it.
BuildsArePayments ==
    part = "build" /\ reply # None =>
        /\ Build!FeeCoversSize(request, reply)
        /\ Build!PaidInFull(request, reply)
        /\ Build!SelectionIsComplete(request, reply)
        /\ Build!SendersPayInOrder(request, reply)
        /\ Build!LittleIsWasted(request, reply)

\* What is stored under one key never mixes with another's (codec.rs, keys.rs): a scan of a
\* namespace and prefix gives its keys page by page and no other, a frame is accepted exactly
\* when a record encodes to it, and index rows share a key only when they are one row.
KeysAreApart ==
    part = "codec" => Codec!ScanIsExact /\ Codec!FramesAreExact /\ Codec!RowsAreApart

\* A block is indexed exactly when it can be (the interpreters of the three chains): whatever
\* a node states beside the bytes is checked against them, a false or unreadable claim
\* refuses the block whole, and a block that obeys the rules is never refused.
ClaimsAreChecked ==
    /\ part = "bitcoin" => /\ Btc!ValidBlocksAreIndexed
                           /\ Btc!ParsedBlockIsItsBytes
                           /\ Btc!OnlyCanonicalAddresses
    /\ part = "ethereum" => Eth!FalseClaimsAreRefused
    /\ part = "solana" => Sol!FalseClaimsAreRefused /\ Sol!ExplainedBlocksAreIndexed

\* What an indexed block tells of the registered addresses is what it did to them: outputs
\* made and spent, balances moved by executed calls and events, every lamport, with fees and
\* parties, under ids no two movements share.
MovementsFollowTheChain ==
    /\ part = "bitcoin" => Btc!OutputsFollowTheChain /\ Btc!DraftsBalance
    /\ part = "ethereum" => /\ Eth!BalancesFollowExecution
                            /\ Eth!PartiesAreTold
                            /\ Eth!MovementIdsAreDistinct
    /\ part = "solana" => Sol!EveryLamportIsExplained /\ Sol!MovementIdsAreDistinct

\* Every transaction builder is served by the key that owns its inputs and by no other
\* (key.rs, sign.rs), whatever the parity of its points, with the scheme, encoding, payload
\* and format it asked for; a signed Solana envelope is about one source and expires with its
\* blockhash.
KeysServeTheirOwners ==
    part = "signing" => Sign!BuildersAreServed /\ Sign!AnswersWhatIsAsked /\ Sign!EnvelopesAgree

\* The design linter overlooks nothing and accuses nobody wrongly: code that some build
\* compiles into production is never set aside as test code, a scan sees exactly the packages
\* below the named ones with their cycles and layers, and the exit status tells an error that
\* nothing excuses from a clean and complete analysis.
LintIsSound ==
    /\ part = "scope" => /\ Linter!TestScopeSound
                         /\ Linter!ScopeFollowsDeclarations
                         /\ Linter!LinesCounted
    /\ part = "graph" => Linter!ScanIsClosed /\ Linter!CycleReported /\ Linter!CleanMeansLayered
    /\ part = "lint" => /\ Linter!ReportIsComplete
                        /\ Linter!ExitTellsErrors
                        /\ Linter!SuccessIsComplete
                        /\ Linter!MappingsResolve
=============================================================================
