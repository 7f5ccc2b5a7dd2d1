----------------------------- MODULE MCLiveness -----------------------------
(***************************************************************************)
(* The parts of the SDK that something must eventually come of: the redb   *)
(* owner, the indexing loop, a start and a shutdown, the Ethereum          *)
(* coordinator, Solana submissions, calls of the block sources, and the    *)
(* case reports of the linter.  As in MCProtocols, a behaviour is one of a *)
(* single part.  The redb owner has its own variables, the other parts use *)
(* registers.                                                              *)
(***************************************************************************)
EXTENDS RedbStore, TLC

CONSTANTS c1, c2, NoFile, NoStage

VARIABLES
    part,                                                        \* the part that runs
    x1, x2, x3, x4, x5, x6, x7, x8, x9, x10, x11, x12, x13, x14, x15, x16, x17, x18, x19

registers == <<x1, x2, x3, x4, x5, x6, x7, x8, x9, x10, x11, x12, x13, x14, x15, x16, x17, x18, x19>>

suiteVars == <<part, vars, registers>>

-----------------------------------------------------------------------------
\* The parts and their bounds.

\* One client commits once, the other goes on to the last version.
Commits == c1 :> 1 @@ c2 :> 3

\* Two chains and a scope nobody indexes, with an address in the last two of them.
Loop == INSTANCE Composer WITH
    Scope <- {"btc", "eth", "none"}, Address <- [name : {"a"}, scope : {"eth", "none"}],
    Compositions <- {<<"btc", "eth">>, <<"btc", "btc">>, <<>>}, Batch <- 2, MaxHeight <- 3, MaxFails <- 1,
    scopes <- x1, tip <- x2, checkpoint <- x3, revision <- x4, asking <- x5, selection <- x6, scanned <- x7, pass <- x8,
    sync <- x9, fails <- x10

\* Two case names: no case, two of which one is found twice, and two texts under one name.
Found(n, t) == [name |-> n, text |-> t]

Cases == INSTANCE CaseReports WITH
    Name <- {1, 2}, MaxRuns <- 2, MaxFaults <- 2,
    Reports <- {<<>>, <<Found(2, "x"), Found(1, "y"), Found(1, "y")>>, <<Found(1, "x"), Found(1, "y")>>},
    disk <- x1, stages <- x2, at <- x3, run <- x4, pending <- x5, previous <- x6, sequence <- x7, moved <- x8,
    installed <- x9, result <- x10, outcome <- x11, faults <- x12, before <- x13

Start == INSTANCE Startup WITH
    config <- x1, world <- x2, pc <- x3, verified <- x4, pool <- x5, values <- x6, imports <- x7, task <- x8,
    shutdown <- x9, ready <- x10, state <- x11, exit <- x12

\* Two batches over the same senders in opposite order.
Coordinator == INSTANCE EthereumCoordinator WITH
    Sender <- {"s1", "s2"}, Task <- {"t1", "t2"}, MaxNonce <- 1, MaxTransfers <- 2, MaxCalls <- 1,
    Job <- {[kind |-> "batch", items |-> <<"s1", "s2">>], [kind |-> "batch", items |-> <<"s2", "s1">>]},
    active <- x1, floor <- x2, records <- x3, pc <- x4, job <- x5, via <- x6, unread <- x7, start <- x8, entries <- x9,
    cursor <- x10, claimed <- x11, recovery <- x12, signed <- x13, result <- x14, asleep <- x15, calls <- x16,
    sent <- x17, pool <- x18, accepted <- x19

Send == INSTANCE SolanaSubmission WITH
    Caller <- {"c1"}, Source <- {"s1", "s2"}, Jobs <- [c1 |-> {<<"s1", "s2">>}], Close <- "close", Capacity <- 1,
    Lifetime <- 1, MaxHeight <- 2, PageLimit <- 1, MaxPanics <- 0, MayFail <- FALSE, MayStop <- TRUE,
    preparing <- x1, guarded <- x2, call <- x3, task <- x4, queue <- x5, supervisor <- x6, stage <- x7, sync <- x8,
    height <- x9, checkpoint <- x10, landed <- x11, sent <- x12, accepted <- x13, absent <- x14, panics <- x15

\* Two endpoints, the second of which is not fit to index from.
Btc == INSTANCE BitcoinSource WITH
    Label <- {"x"}, Genesis <- "g", Endpoint <- {1, 2}, MaxHeight <- 2, MaxMoves <- 1, FaultCodes <- {},
    Parents <- [l \in {"g", "x"} |-> IF l = "x" THEN {1, 2} ELSE {}],
    Info <- [e \in {1, 2} |-> [core31 |-> TRUE, network |-> TRUE, pruned |-> FALSE, downloading |-> e = 2,
                               txindex |-> e = 1, genesis |-> TRUE]],
    best <- x1, known <- x2, moves <- x3, call <- x4, last <- x5, seen <- x6

Eth == INSTANCE EthereumSource WITH
    Label <- {"x"}, Genesis <- "g", Endpoint <- {1, 2}, MaxHeight <- 2, MaxMoves <- 1, FaultCodes <- {0, -32000, -1},
    Txs <- [g |-> <<>>, x |-> <<1, 2>>],
    Info <- [e \in {1, 2} |-> [chain |-> TRUE, genesis |-> e = 1, blockReceipts |-> e = 1]],
    best <- x1, known <- x2, moves <- x3, mode <- x4, call <- x5, last <- x6, seen <- x7

Sol == INSTANCE SolanaSource WITH
    MaxSlot <- 2, DescendingWindow <- 1, MaxForwardWindow <- 1, MaxEnumerations <- 2, MaxEnumerationSpan <- 1,
    produced <- x1, finalized <- x2, first <- x3, call <- x4, last <- x5

-----------------------------------------------------------------------------
\* Registers after the k-th are not used, and stay so.

Free15 == x16 = None /\ x17 = None /\ x18 = None /\ x19 = None
Free13 == x14 = None /\ x15 = None /\ Free15
Free12 == x13 = None /\ Free13
Free10 == x11 = None /\ x12 = None /\ Free12
Free7 == x8 = None /\ x9 = None /\ x10 = None /\ Free10
Free6 == x7 = None /\ Free7
Free5 == x6 = None /\ Free6

Kept15 == UNCHANGED <<x16, x17, x18, x19>>
Kept13 == UNCHANGED <<x14, x15>> /\ Kept15
Kept12 == UNCHANGED <<x13>> /\ Kept13
Kept10 == UNCHANGED <<x11, x12>> /\ Kept12
Kept7 == UNCHANGED <<x8, x9, x10>> /\ Kept10
Kept6 == UNCHANGED <<x7>> /\ Kept7
Kept5 == UNCHANGED <<x6>> /\ Kept6

NoRegisters == x1 = None /\ x2 = None /\ x3 = None /\ x4 = None /\ x5 = None /\ Free5

PartInit ==
    \/ part = "redb" /\ NoRegisters
    \/ part = "composer" /\ Loop!Init /\ Free10
    \/ part = "cases" /\ Cases!Init /\ Free13
    \/ part = "startup" /\ Start!Init /\ Free12
    \/ part = "coordinator" /\ Coordinator!Init
    \/ part = "sol" /\ Send!Init /\ Free15
    \/ part = "btc" /\ Btc!Init /\ Free6
    \/ part = "eth" /\ Eth!Init /\ Free7
    \/ part = "solsrc" /\ Sol!Init /\ Free5

SuiteInit == Init /\ PartInit

PartNext ==
    \/ part = "composer" /\ Loop!Next /\ Kept10
    \/ part = "cases" /\ Cases!Next /\ Kept13
    \/ part = "startup" /\ Start!Next /\ Kept12
    \/ part = "coordinator" /\ Coordinator!Next
    \/ part = "sol" /\ Send!Next /\ Kept15
    \/ part = "btc" /\ Btc!Next /\ Kept6
    \/ part = "eth" /\ Eth!Next /\ Kept7
    \/ part = "solsrc" /\ Sol!Next /\ Kept5

SuiteNext ==
    \/ part = "redb" /\ Next /\ UNCHANGED <<part, registers>>
    \/ PartNext /\ UNCHANGED <<part, vars>>
    \/ part \in {"redb", "cases"} /\ UNCHANGED suiteVars   \* at the bound on runs and commits

-----------------------------------------------------------------------------
(* Fairness.  Each part has the fairness of its own specification: tasks   *)
(* that can run are run, the node and the index go on, and nothing is      *)
(* assumed of failures, crashes, signals and moves of a chain.  As one     *)
(* part runs, the k-th condition is that of its k-th fair action.          *)

Fair1 ==
    \/ part = "redb" /\ ServeGet /\ UNCHANGED <<part, registers>>
    \/ /\ UNCHANGED <<part, vars>>
       /\ \/ part = "composer" /\ Loop!Step /\ Kept10
          \/ part = "cases" /\ Cases!Work /\ Kept13
          \/ part = "startup" /\ Start!Main /\ Kept12
          \/ part = "coordinator" /\ Coordinator!Prepares("t1")
          \/ part = "sol" /\ Send!HandlerStep("c1") /\ Kept15
          \/ part = "btc" /\ Btc!Parsed /\ Kept6
          \/ part = "eth" /\ Eth!Local /\ Kept7
          \/ part = "solsrc" /\ (Sol!Answered \/ Sol!RequestFails) /\ Kept5

Fair2 ==
    \/ part = "redb" /\ ServeCommit /\ UNCHANGED <<part, registers>>
    \/ /\ UNCHANGED <<part, vars>>
       /\ \/ part = "startup" /\ Start!Alive /\ Start!Synchronize /\ Kept12
          \/ part = "coordinator" /\ Coordinator!Prepares("t2")
          \/ part = "sol" /\ Send!TaskStep("c1") /\ Kept15
          \/ part = "btc" /\ (\E e \in {1, 2} : Btc!Step(e)) /\ Kept6
          \/ part = "eth" /\ (\E e \in {1, 2} : Eth!Step(e)) /\ Kept7

Fair3 ==
    \/ part = "redb" /\ JoinOwner /\ UNCHANGED <<part, registers>>
    \/ /\ UNCHANGED <<part, vars>>
       /\ \/ part = "startup" /\ Start!Alive /\ Start!Publish /\ Kept12
          \/ part = "coordinator" /\ Coordinator!Submits("t1")
          \/ part = "sol" /\ Send!SupervisorStep /\ Kept15

Fair4 ==
    \/ /\ UNCHANGED <<part, vars>>
       /\ \/ part = "startup" /\ Start!Alive /\ Start!SubmissionsEnd /\ Kept12
          \/ part = "coordinator" /\ Coordinator!Submits("t2")
          \/ part = "sol" /\ Send!MainStep /\ Kept15

Fair5 ==
    \/ /\ UNCHANGED <<part, vars>>
       /\ \/ part = "coordinator" /\ (\E e \in Coordinator!Envelope : Coordinator!Deliver(e))
          \/ part = "sol" /\ Send!Produce /\ Kept15

Fair6 ==
    \/ /\ UNCHANGED <<part, vars>>
       /\ \/ part = "sol" /\ Send!IndexBlock /\ Kept15

SuiteSpec ==
    /\ SuiteInit /\ [][SuiteNext]_suiteVars
    /\ WF_suiteVars(Fair1) /\ WF_suiteVars(Fair2) /\ WF_suiteVars(Fair3)
    /\ WF_suiteVars(Fair4) /\ WF_suiteVars(Fair5) /\ WF_suiteVars(Fair6)

-----------------------------------------------------------------------------
(* Properties.  Those of the redb store are in its module; the modules of  *)
(* the other parts state every conjunct in full.                           *)

\* A failure in the middle of several steps loses nothing and leaves nothing half done.  The
\* loop scans every block it applies for every address published before, and only a selection
\* it cannot route stops it; a run of the linter leaves its own cases or the earlier ones; a
\* start opens no storage before its nodes are verified, builds what it accepted, serves every
\* wallet in one asset, and stops with no task left running.
FailuresLoseNothing ==
    /\ part = "composer" => Loop!NothingSkipped /\ Loop!OnlyBadSelectionStops
    /\ part = "cases" => Cases!AllOrNothing /\ Cases!NothingLost
    /\ part = "startup" => /\ Start!VerifiedBeforeStorage
                           /\ Start!BuildsWhatItAccepted
                           /\ Start!OneAssetPerAddress
                           /\ Start!ServesEveryWallet
                           /\ Start!OrderlyStop

\* The loop reports ready only in a step that finds every chain at the tip its pass observed,
\* and no step of a run of the linter touches a file that is not a case of its own.
ReportsAreTrue ==
    [][/\ part = "composer" => Loop!ReadyIsTrue
       /\ part = "cases" => Cases!NotesKept]_suiteVars

Called ==
    \/ part = "btc" /\ Btc!Called
    \/ part = "eth" /\ Eth!Called
    \/ part = "solsrc" /\ Sol!Called

\* Every call returns: an accepted command of the redb owner is answered, even behind commands
\* nobody waits for; a call of a block source ends, whichever endpoints answer and however
\* the chain moves; no Solana source stays guarded for ever; and while the node answers and
\* nobody is dropped, callers of the Ethereum coordinator that sleep are woken and
\* overlapping batches do not wait on each other.
CallsReturn ==
    /\ Answered
    /\ Called ~> ~Called
    /\ \A s \in {"s1", "s2"} : part = "sol" /\ s \in x2 ~> (part = "sol" => s \notin x2)
    /\ <>[][part = "coordinator" => \A t \in {"t1", "t2"} : ~Coordinator!Fails(t)]_suiteVars =>
          \A t \in {"t1", "t2"} : []<>(part = "coordinator" => x4[t] = "idle")

Stopping ==
    \/ part = "sol" /\ Send!Stopping
    \/ part = "startup" /\ Start!Cleaning

\* What is started ends: a shutdown of submissions, index and process, whatever was in flight;
\* the drop of the last handle of a redb store, whatever is queued; a start whose synchronization fails; a run of the linter that is not killed; and with
\* finitely many failures all chains catch up and the loop says so, unless it is shut down
\* or its composition or selection is bad.
WorkEnds ==
    /\ Stopping ~> ~Stopping
    /\ Dropping ~> ~Dropping
    /\ part = "startup" /\ Start!Failed ~> (part = "startup" => Start!Settled)
    /\ part = "cases" /\ x3 # "idle" ~> (part = "cases" => x3 = "idle")
    /\ part = "composer" ~> (part = "composer" => Loop!CaughtUp)
=============================================================================
