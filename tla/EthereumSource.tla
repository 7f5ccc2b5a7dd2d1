--------------------------- MODULE EthereumSource ---------------------------
(***************************************************************************)
(* The Ethereum block source (indexer/source) over endpoints that keep     *)
(* moving while a call is under way.  A call is cut at its requests; the   *)
(* transport may fail over, so any endpoint may answer any request.  One   *)
(* block takes two requests, for the block and for its receipts.           *)
(*                                                                         *)
(* A block hash is the sequence of labels of the chain that ends in the    *)
(* block; a label stands for the transactions of the block.                *)
(***************************************************************************)
EXTENDS Integers, Sequences, FiniteSets, SequencesExt

CONSTANTS
    None,
    Endpoint, Label, Genesis,   \* nodes, labels of blocks, the configured first block
    Txs,          \* Txs[l]: the transactions of a block labelled l, in order
    Info,         \* Info[e]: whether e is on the chain, has its genesis, serves block receipts
    FaultCodes,   \* JSON-RPC error codes a node may answer with, 0 for a transport failure
    MaxHeight, MaxMoves

VARIABLES
    best,    \* best[e]: the active chain of an endpoint
    known,   \* known[e]: every block it ever had
    moves,
    mode,    \* receipt_mode
    call,    \* the call under way: what it asks next and its locals
    last,    \* the call when it has returned, and its result
    seen     \* the active chains of all endpoints since the call began

vars == <<best, known, moves, mode, call, last, seen>>
nodeVars == <<best, known, moves>>

HeightOf(b) == Len(b) - 1
Upto(b, h) == SubSeq(b, 1, h + 1)
On(b, chain) == IsPrefix(b, chain)
TxsOf(b) == Txs[Last(b)]

\* No chain has a transaction twice.
ValidChain(c) == \A i, j \in DOMAIN c : i # j => Range(Txs[c[i]]) \cap Range(Txs[c[j]]) = {}

Idle == [op |-> "none", at |-> "idle", start |-> 0, end |-> 0, limit |-> 0, height |-> 0,
         hash |-> None, receipts |-> <<>>, node |-> None, blocks |-> <<>>]

\* The source keeps its receipt mode from one call to the next, and nothing else.
Init ==
    /\ best \in [Endpoint -> {<<Genesis>>} \cup {<<Genesis, l>> : l \in Label}]
    /\ known = [e \in Endpoint |-> {Upto(best[e], h) : h \in 0..HeightOf(best[e])}]
    /\ moves = 0
    /\ mode \in {"unknown", "by block", "by transaction"}
    /\ call = Idle
    /\ last = [op |-> "none"]
    /\ seen = {}

\* A node extends its chain or switches to another branch.
NodeMoves(e) ==
    /\ moves < MaxMoves /\ last.op = "none"
    /\ \E h \in 0..HeightOf(best[e]), n \in 1..2 : \E tail \in [1..n -> Label] :
         LET chain == Upto(best[e], h) \o tail
         IN  /\ h + n >= HeightOf(best[e]) /\ h + n <= MaxHeight
             /\ chain # best[e] /\ ValidChain(chain)
             /\ best' = [best EXCEPT ![e] = chain]
             /\ known' = [known EXCEPT ![e] = @ \cup {Upto(chain, k) : k \in 0..HeightOf(chain)}]
             /\ seen' = IF call.at = "idle" THEN seen ELSE seen \cup {chain}
    /\ moves' = moves + 1
    /\ UNCHANGED <<mode, call, last>>

-----------------------------------------------------------------------------
\* Results.

Finish(ok, value, retryable, code) ==
    /\ call' = Idle
    /\ last' = [op |-> call.op, start |-> call.start, end |-> call.end, limit |-> call.limit,
                ok |-> ok, value |-> value, retryable |-> retryable, code |-> code]
    /\ UNCHANGED <<nodeVars, seen>>

Give(value) == Finish(TRUE, value, FALSE, None)
Refuse(retryable) == Finish(FALSE, None, retryable, None)
Go(locals) == call' = locals /\ UNCHANGED <<nodeVars, last, seen>>

\* CallFailure::remote and map_json_rpc_error: a server error and a transport failure may be
\* tried again.
Retryable(code) == code = 0 \/ (-32099 <= code /\ code <= -32000)

\* A request fails with a code that has no meaning of its own.
RequestFails(code) ==
    /\ call.at # "idle"
    /\ Finish(FALSE, None, Retryable(code), code)
    /\ UNCHANGED mode

-----------------------------------------------------------------------------
\* A call begins; a behaviour has one.

Begin(op, at, start, end, limit) ==
    /\ last.op = "none" /\ call.at = "idle"
    /\ call' = [Idle EXCEPT !.op = op, !.at = at, !.start = start, !.end = end, !.limit = limit,
                            !.height = start]
    /\ seen' = {best[e] : e \in Endpoint}
    /\ UNCHANGED <<nodeVars, mode, last>>

\* from_rpc of a valid configuration.
Connect == Begin("connect", "chain id", 0, 0, 0)
Tip == Begin("tip", "latest", 0, 0, 0)
CanonicalAt(position) == Begin("canonical_at", "header", position, position, 0)

\* blocks refuses an empty range before it asks anything.
Blocks(start, end, limit) ==
    IF limit = 0 \/ start > end
    THEN /\ last.op = "none" /\ call.at = "idle"
         /\ last' = [op |-> "blocks", start |-> start, end |-> end, limit |-> limit, ok |-> FALSE,
                     value |-> None, retryable |-> FALSE, code |-> None]
         /\ UNCHANGED <<nodeVars, mode, call, seen>>
    ELSE Begin("blocks", "block", start, end, limit)

-----------------------------------------------------------------------------
\* verify_chains, tip, canonical_at.

ChainId(e) ==
    /\ call.at = "chain id"
    /\ IF Info[e].chain THEN Go([call EXCEPT !.at = "genesis"]) ELSE Refuse(FALSE)
    /\ UNCHANGED mode

GenesisBlock(e) ==
    /\ call.at = "genesis"
    /\ IF Info[e].genesis /\ Upto(best[e], 0) = <<Genesis>> THEN Give(<<Genesis>>) ELSE Refuse(FALSE)
    /\ UNCHANGED mode

LatestBlock(e) ==
    /\ call.at = "latest"
    /\ Give(best[e])
    /\ UNCHANGED mode

\* canonical_at: a null block means that there is none.
CanonicalHeader(e) ==
    /\ call.at = "header"
    /\ IF call.height > HeightOf(best[e]) THEN Give(None) ELSE Give(Upto(best[e], call.height))
    /\ UNCHANGED mode

-----------------------------------------------------------------------------
\* blocks: fetch_complete_block for each height.

\* fetch_block: a height above the chain may be there later.
FetchBlock(e) ==
    /\ call.at = "block"
    /\ IF call.height > HeightOf(best[e]) THEN Refuse(TRUE)
       ELSE Go([call EXCEPT !.at = "receipts", !.hash = Upto(best[e], call.height)])
    /\ UNCHANGED mode

\* An answer that does not parse may be one of a node that is behind.
Garbled ==
    /\ call.at \in {"block", "header", "latest"}
    /\ Refuse(TRUE)
    /\ UNCHANGED mode

\* fetch_receipts asks nothing for an empty block.
NoReceipts ==
    /\ call.at = "receipts" /\ TxsOf(call.hash) = <<>>
    /\ Go([call EXCEPT !.at = "parse"])
    /\ UNCHANGED mode

\* fetch_block_receipts: the receipts of the block by its hash.  A node without the block
\* answers null, which is not an array.
BlockReceipts(e) ==
    /\ call.at = "receipts" /\ TxsOf(call.hash) # <<>> /\ mode # "by transaction"
    /\ Info[e].blockReceipts
    /\ IF call.hash \in known[e]
       THEN /\ Go([call EXCEPT !.at = "parse",
                               !.receipts = [i \in DOMAIN TxsOf(call.hash) |-> <<TxsOf(call.hash)[i], call.hash>>]])
            /\ mode' = "by block"
       ELSE Refuse(FALSE) /\ UNCHANGED mode

\* Method not found: from now on by transaction, this block included.
MethodNotFound(e) ==
    /\ call.at = "receipts" /\ TxsOf(call.hash) # <<>> /\ mode # "by transaction"
    /\ ~Info[e].blockReceipts
    /\ Go([call EXCEPT !.at = "batch", !.node = e])
    /\ mode' = "by transaction"

\* fetch_transaction_receipts sends one batch, which one node answers.
SendBatch(e) ==
    /\ call.at = "receipts" /\ TxsOf(call.hash) # <<>> /\ mode = "by transaction"
    /\ Go([call EXCEPT !.at = "batch", !.node = e])
    /\ UNCHANGED mode

\* The node answers the next item from its active chain, which may have moved.
TransactionReceipt ==
    /\ call.at = "batch"
    /\ LET t == TxsOf(call.hash)[Len(call.receipts) + 1]
           chain == best[call.node]
           at == {i \in DOMAIN chain : t \in Range(Txs[chain[i]])}
           receipts == Append(call.receipts, <<t, Upto(chain, (CHOOSE i \in at : TRUE) - 1)>>)
       IN  IF at = {} THEN Refuse(TRUE)
           ELSE Go([call EXCEPT !.receipts = receipts,
                                !.at = IF Len(receipts) = Len(TxsOf(call.hash)) THEN "parse" ELSE "batch"])
    /\ UNCHANGED mode

\* The next height of the range, or the range.
Keep ==
    LET blocks == Append(call.blocks, [hash |-> call.hash, receipts |-> call.receipts])
    IN  IF call.height = call.end \/ Len(blocks) = call.limit THEN Give(blocks)
        ELSE Go([call EXCEPT !.at = "block", !.height = @ + 1, !.blocks = blocks,
                             !.hash = None, !.receipts = <<>>, !.node = None])

\* ParsedReceipt::parse_all: each is the receipt of its transaction in this very block.
ParseReceipts ==
    /\ call.at = "parse"
    /\ IF \A i \in DOMAIN call.receipts : call.receipts[i] = <<TxsOf(call.hash)[i], call.hash>>
       THEN Keep ELSE Refuse(TRUE)
    /\ UNCHANGED mode

-----------------------------------------------------------------------------

Done == last.op # "none" /\ UNCHANGED vars

Step(e) ==
    \/ ChainId(e) \/ GenesisBlock(e) \/ LatestBlock(e) \/ CanonicalHeader(e)
    \/ FetchBlock(e) \/ BlockReceipts(e) \/ MethodNotFound(e) \/ SendBatch(e)

Local == NoReceipts \/ TransactionReceipt \/ ParseReceipts

Next ==
    \/ Connect \/ Tip
    \/ \E p \in 0..MaxHeight + 1 : CanonicalAt(p)
    \/ \E s, t \in 0..MaxHeight + 1, n \in 0..2 : Blocks(s, t, n)
    \/ \E e \in Endpoint : Step(e) \/ NodeMoves(e)
    \/ Local \/ Garbled
    \/ \E code \in FaultCodes : RequestFails(code)
    \/ Done

Spec == Init /\ [][Next]_vars

\* The endpoints answer; the chain need not move, and requests need not fail.
Fairness == WF_vars(Local) /\ WF_vars(\E e \in Endpoint : Step(e))
LiveSpec == Spec /\ Fairness

-----------------------------------------------------------------------------
Returned == last.op # "none"
OnSome(b) == \E chain \in seen : On(b, chain)

\* Although the chain moves between the requests of a call, its answer was true of the
\* chain at some moment of the call: a tip, a block at the height asked for, None for a
\* height that the chain did not reach, and a range of the asked heights in order.
AnswersWereTrue ==
    Returned /\ last.ok =>
        /\ last.op = "tip" => last.value \in seen
        /\ last.op = "canonical_at" =>
             IF last.value = None THEN \E c \in seen : HeightOf(c) < last.start
             ELSE OnSome(last.value) /\ HeightOf(last.value) = last.start
        /\ last.op = "blocks" =>
             /\ \A i \in DOMAIN last.value :
                  OnSome(last.value[i].hash) /\ HeightOf(last.value[i].hash) = last.start + i - 1
             /\ Len(last.value) \in 1..last.limit
             /\ Len(last.value) = last.limit \/ last.start + Len(last.value) - 1 = last.end

\* Every block comes with all its receipts, and all of them are of that block, though the
\* same transaction may have another receipt on a competing block by the time it is asked.
ReceiptsAreOfTheirBlock ==
    Returned /\ last.op = "blocks" /\ last.ok =>
        \A i \in DOMAIN last.value :
            LET b == last.value[i]
            IN  b.receipts = [k \in DOMAIN TxsOf(b.hash) |-> <<TxsOf(b.hash)[k], b.hash>>]

\* The run loop gives up on an error that is not retryable.  Apart from codes the node
\* answers with, only an empty range, a node of another chain, or the receipts of a block
\* that the answering endpoint does not know cause one.
MovingChainIsRetried ==
    Returned /\ ~last.ok /\ ~last.retryable /\ last.code = None =>
        \/ last.op = "blocks" /\ (last.limit = 0 \/ last.start > last.end)
        \/ last.op = "connect" /\ \E e \in Endpoint : ~Info[e].chain \/ ~Info[e].genesis
        \/ last.op = "blocks" /\ Cardinality(Endpoint) > 1 /\ mode # "by transaction"

\* Every call returns.
Called == call.at # "idle"

CallsReturn == Called ~> ~Called
=============================================================================
