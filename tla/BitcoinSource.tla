--------------------------- MODULE BitcoinSource ---------------------------
(***************************************************************************)
(* The Bitcoin block source (indexer/source) and the node readiness check  *)
(* (rpc/node) over Bitcoin Core endpoints that keep moving while a call is *)
(* under way.  A call is cut at its RPC requests.  The transport may fail  *)
(* over, so any endpoint may answer any request.                           *)
(*                                                                         *)
(* A block hash is the sequence of labels of the chain that ends in the    *)
(* block; the height of a block is one less than its length.               *)
(***************************************************************************)
EXTENDS Integers, Sequences, FiniteSets, SequencesExt

CONSTANTS
    None,
    Endpoint, Label, Genesis,   \* nodes, labels of blocks, the configured first block
    Parents,      \* Parents[l]: the external previous transactions of a block labelled l
    Info,         \* Info[e]: what node e is: its version, network, pruning, indexes
    FaultCodes,   \* JSON-RPC error codes a node may answer with, 0 for a transport failure
    MaxHeight, MaxMoves

VARIABLES
    best,    \* best[e]: the active chain of an endpoint
    known,   \* known[e]: every block it ever had
    moves,
    call,    \* the call under way: what it asks next and its locals
    last,    \* the call when it has returned, and its result
    seen     \* the active chains of all endpoints since the call began

vars == <<best, known, moves, call, last, seen>>
nodeVars == <<best, known, moves>>

HeightOf(b) == Len(b) - 1
Upto(b, h) == SubSeq(b, 1, h + 1)
On(b, chain) == IsPrefix(b, chain)

Idle == [op |-> "none", at |-> "idle", start |-> 0, end |-> 0, limit |-> 0, height |-> 0,
         hash |-> None, blocks |-> <<>>, todo |-> {}]

Init ==
    /\ best \in [Endpoint -> {<<Genesis>>} \cup {<<Genesis, l>> : l \in Label}]
    /\ known = [e \in Endpoint |-> {Upto(best[e], h) : h \in 0..HeightOf(best[e])}]
    /\ moves = 0
    /\ call = Idle
    /\ last = [op |-> "none"]
    /\ seen = {}

\* A node extends its chain or switches to another branch; one of more work may be shorter
\* by a block.
NodeMoves(e) ==
    /\ moves < MaxMoves /\ last.op = "none"
    /\ \E h \in 0..HeightOf(best[e]), n \in 1..2 : \E tail \in [1..n -> Label] :
         /\ h + n >= HeightOf(best[e]) - 1 /\ h + n <= MaxHeight
         /\ LET chain == Upto(best[e], h) \o tail
            IN  /\ chain # best[e]
                /\ best' = [best EXCEPT ![e] = chain]
                /\ known' = [known EXCEPT ![e] = @ \cup {Upto(chain, k) : k \in 0..HeightOf(chain)}]
                /\ seen' = IF call.at = "idle" THEN seen ELSE seen \cup {chain}
    /\ moves' = moves + 1
    /\ UNCHANGED <<call, last>>

-----------------------------------------------------------------------------
\* Results.

Return(ok, value, retryable) ==
    /\ call' = Idle
    /\ last' = [op |-> call.op, start |-> call.start, end |-> call.end, limit |-> call.limit,
                ok |-> ok, value |-> value, retryable |-> retryable, code |-> None]
    /\ UNCHANGED <<nodeVars, seen>>

Give(value) == Return(TRUE, value, FALSE)
Refuse(retryable) == Return(FALSE, None, retryable)
Go(locals) == call' = locals /\ UNCHANGED <<nodeVars, last, seen>>

\* CallFailure::remote and map_json_rpc_error: a node that warms up or fails inside, and a
\* transport failure, may be tried again.
Retryable(code) == code = 0 \/ code = -28 \/ (-32099 <= code /\ code <= -32000)

\* A request fails: the codes that mean "missing" are answers of their own below.
RequestFails(code) ==
    /\ call.at # "idle"
    /\ call' = Idle
    /\ last' = [op |-> call.op, start |-> call.start, end |-> call.end, limit |-> call.limit,
                ok |-> FALSE, value |-> None, retryable |-> Retryable(code), code |-> code]
    /\ UNCHANGED <<nodeVars, seen>>

\* getblockhash, with -8 for a height above the chain.
HashAt(e, h) == IF h <= HeightOf(best[e]) THEN Upto(best[e], h) ELSE None

-----------------------------------------------------------------------------
\* The call begins: a source keeps nothing from one call to the next, so a behaviour has
\* one.

Begin(op, at, start, end, limit) ==
    /\ last.op = "none" /\ call.at = "idle"
    /\ call' = [Idle EXCEPT !.op = op, !.at = at, !.start = start, !.end = end, !.limit = limit,
                            !.height = start]
    /\ seen' = {best[e] : e \in Endpoint}
    /\ UNCHANGED <<nodeVars, last>>

Tip == Begin("tip", "count", 0, 0, 0)
CanonicalAt(position) == Begin("canonical_at", "count", position, position, 0)
Readiness == Begin("readiness", "network", 0, 0, 0)

\* Blocks::blocks refuses an empty range before it asks anything.
Blocks(start, end, limit) ==
    IF limit = 0 \/ start > end
    THEN /\ last.op = "none" /\ call.at = "idle"
         /\ last' = [op |-> "blocks", start |-> start, end |-> end, limit |-> limit, ok |-> FALSE,
                     value |-> None, retryable |-> FALSE, code |-> None]
         /\ seen' = {}
         /\ UNCHANGED <<nodeVars, call>>
    ELSE Begin("blocks", "first", start, end, limit)

-----------------------------------------------------------------------------
\* tip and canonical_at: getblockcount, getblockhash, getblockheader.

BlockCount(e) ==
    /\ call.at = "count"
    /\ IF call.op = "tip" THEN Go([call EXCEPT !.at = "hash", !.height = HeightOf(best[e])])
       ELSE IF call.start > HeightOf(best[e]) THEN Give(None)
       ELSE Go([call EXCEPT !.at = "hash"])

\* hash_at reports a height that is gone as a retryable error, optional_hash_at as None.
OptionalHashAt(e) ==
    /\ call.at = "hash"
    /\ LET hash == HashAt(e, call.height)
       IN  IF hash # None THEN Go([call EXCEPT !.at = "header", !.hash = hash])
           ELSE IF call.op = "tip" THEN Refuse(TRUE) ELSE Give(None)

\* header: -5 for a block the node does not have is an error like any other.
Header(e) ==
    /\ call.at = "header"
    /\ IF call.hash \in known[e] THEN Give(call.hash)
       ELSE RequestFails(-5)

-----------------------------------------------------------------------------
\* blocks: fetch_block for each height.

\* The first hash_at of fetch_block.
FirstHash(e) ==
    /\ call.at = "first"
    /\ LET hash == HashAt(e, call.height)
       IN  IF hash = None THEN Refuse(TRUE)
           ELSE Go([call EXCEPT !.at = "block", !.hash = hash])

\* raw_block: -5 means the node has it no longer.
RawBlock(e) ==
    /\ call.at = "block"
    /\ IF call.hash \in known[e] THEN Go([call EXCEPT !.at = "prevouts", !.todo = Parents[Last(call.hash)]])
       ELSE Refuse(TRUE)

\* One of the requests of enrich_prevouts returns: the transaction, or none, or one that is
\* not confirmed.
Prevout(e) ==
    /\ call.at = "prevouts"
    /\ \E t \in call.todo :
         \/ Go([call EXCEPT !.todo = @ \ {t}])
         \/ Refuse(TRUE)

\* Every prevout is there: Block::parse.
Parsed ==
    /\ call.at = "prevouts" /\ call.todo = {}
    /\ Go([call EXCEPT !.at = "second"])

\* The second hash_at, and the next height of the range.
SecondHash(e) ==
    /\ call.at = "second"
    /\ IF HashAt(e, call.height) # call.hash THEN Refuse(TRUE)
       ELSE LET blocks == Append(call.blocks, call.hash)
            IN  IF call.height = call.end \/ Len(blocks) = call.limit THEN Give(blocks)
                ELSE Go([call EXCEPT !.at = "first", !.height = @ + 1, !.blocks = blocks, !.hash = None])

-----------------------------------------------------------------------------
\* readiness.

NetworkInfo(e) ==
    /\ call.at = "network"
    /\ IF Info[e].core31 THEN Go([call EXCEPT !.at = "chain"]) ELSE Refuse(FALSE)

\* getblockchaininfo: what is wrong for good, then what may pass.  The headers of a node
\* may be ahead of its blocks.
ChainInfo(e) ==
    /\ call.at = "chain"
    /\ IF ~Info[e].network \/ Info[e].pruned THEN Refuse(FALSE)
       ELSE \/ Refuse(TRUE)
            \/ /\ ~Info[e].downloading
               /\ Go([call EXCEPT !.at = "index", !.height = HeightOf(best[e]), !.hash = best[e]])

\* getindexinfo: the index answers for any height up to the blocks of the node.
IndexInfo(e) ==
    /\ call.at = "index"
    /\ IF ~Info[e].txindex THEN Refuse(FALSE)
       ELSE \E indexed \in 0..HeightOf(best[e]) :
              IF indexed # call.height THEN Refuse(TRUE)
              ELSE Go([call EXCEPT !.at = "genesis"])

GenesisHash(e) ==
    /\ call.at = "genesis"
    /\ IF HashAt(e, 0) = <<Genesis>> /\ Info[e].genesis
       THEN Give([height |-> call.height, hash |-> call.hash]) ELSE Refuse(FALSE)

-----------------------------------------------------------------------------

Done == last.op # "none" /\ UNCHANGED vars

Step(e) ==
    \/ BlockCount(e) \/ OptionalHashAt(e) \/ Header(e)
    \/ FirstHash(e) \/ RawBlock(e) \/ Prevout(e) \/ SecondHash(e)
    \/ NetworkInfo(e) \/ ChainInfo(e) \/ IndexInfo(e) \/ GenesisHash(e)

Next ==
    \/ Tip \/ Readiness
    \/ \E p \in 0..MaxHeight + 1 : CanonicalAt(p)
    \/ \E s, t \in 0..MaxHeight + 1, n \in 0..3 : Blocks(s, t, n)
    \/ \E e \in Endpoint : Step(e) \/ NodeMoves(e)
    \/ Parsed
    \/ \E code \in FaultCodes : RequestFails(code)
    \/ Done

Spec == Init /\ [][Next]_vars

\* The endpoints answer; the chain need not move, requests need not fail, and nobody need
\* call again.
Fairness == WF_vars(Parsed) /\ WF_vars(\E e \in Endpoint : Step(e))
LiveSpec == Spec /\ Fairness

-----------------------------------------------------------------------------

OnSome(b) == \E chain \in seen : On(b, chain)

\* Although the chain moves between the requests of a call, its answer was true of the
\* chain at some moment of the call: tip and canonical_at name a block of the active chain
\* at the height asked for, None means the chain did not reach the position, and every
\* block of a range was active when it was fetched.
AnswersWereTrue ==
    call.at = "idle" /\ last.op # "none" /\ last.ok =>
        /\ last.op = "tip" => OnSome(last.value) /\ \E c \in seen : HeightOf(c) = HeightOf(last.value)
        /\ last.op = "canonical_at" =>
             IF last.value = None THEN \E c \in seen : HeightOf(c) < last.start
             ELSE OnSome(last.value) /\ HeightOf(last.value) = last.start
        /\ last.op = "blocks" =>
             /\ last.value # <<>> /\ Len(last.value) <= last.limit
             /\ \A i \in DOMAIN last.value :
                  OnSome(last.value[i]) /\ HeightOf(last.value[i]) = last.start + i - 1
             /\ Len(last.value) = last.limit \/ HeightOf(Last(last.value)) = last.end

\* What fetch_block adds to the range, the last block included, is active at the moment it
\* is added, after all its prevouts have been resolved.
FetchedIsActive ==
    LET added == IF Len(call'.blocks) > Len(call.blocks) THEN call'.blocks
                 ELSE IF call.op = "blocks" /\ last' # last /\ last'.ok THEN last'.value ELSE <<>>
    IN  added # <<>> => \E e \in Endpoint : On(Last(added), best[e])

\* The run loop gives up on an error that is not retryable.  Moving chains never cause
\* one: apart from codes the node answers with, only an empty range, a node that is unfit
\* for good, or a header that no endpoint of the request knows does.
MovingChainIsRetried ==
    call.at = "idle" /\ last.op # "none" /\ ~last.ok /\ ~last.retryable /\ last.code = None =>
        \/ last.op = "blocks" /\ (last.limit = 0 \/ last.start > last.end)
        \/ last.op = "readiness" /\ \E e \in Endpoint :
               ~Info[e].core31 \/ ~Info[e].network \/ Info[e].pruned \/ ~Info[e].txindex \/ ~Info[e].genesis

\* Every call returns.
Called == call.at # "idle"

CallsReturn == Called ~> ~Called
=============================================================================
