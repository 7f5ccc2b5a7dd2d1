---------------------------- MODULE EthereumToken ----------------------------
(***************************************************************************)
(* AccountClient::validate_token: a configured ERC-20 token is looked at   *)
(* through five requests to a node whose chain moves between them.  The    *)
(* three reads of the token name one block, and ask that it be canonical.  *)
(***************************************************************************)
EXTENDS Integers, Sequences, SequencesExt

CONSTANTS
    None,
    Contracts,    \* what may stand at the token's address, as of one block
    ZeroToken,    \* the zero address
    Tokens,       \* addresses that may be configured
    Expected,     \* the configured decimals
    MaxMoves      \* bound: moves of the chain during one call

VARIABLES
    token,    \* the configured address
    chain,    \* the node's chain: per block a label and the contract there
    past,     \* blocks that were canonical during the call
    right,    \* the node is of the configured chain
    moves,
    at,       \* the next request
    block,    \* the block the reads name
    reply

vars == <<token, chain, past, right, moves, at, block, reply>>

Init ==
    /\ token \in Tokens
    /\ chain \in {<<[label |-> 0, contract |-> c]>> : c \in Contracts}
    /\ past = ToSet(chain)
    /\ right \in BOOLEAN
    /\ moves = 0
    /\ at = "start" /\ block = None /\ reply = "none"

\* A block is added, or takes the place of the last one.
Move ==
    /\ at # "done" /\ moves < MaxMoves
    /\ \E c \in Contracts, kept \in {Len(chain), Len(chain) - 1} :
         chain' = SubSeq(chain, 1, kept) \o <<[label |-> moves + 1, contract |-> c]>>
    /\ past' = past \cup ToSet(chain')
    /\ moves' = moves + 1
    /\ UNCHANGED <<token, right, at, block, reply>>

Go(next) == at' = next /\ UNCHANGED <<token, chain, past, right, moves, block, reply>>

End(answer) ==
    /\ at' = "done" /\ reply' = answer
    /\ UNCHANGED <<token, chain, past, right, moves, block>>

\* Any request may fail.
RequestFails == at \in {"chain", "latest", "code", "decimals", "balance"} /\ End("unavailable")

Start == at = "start" /\ IF token = ZeroToken THEN End("zero") ELSE Go("chain")

VerifyChainId == at = "chain" /\ IF right THEN Go("latest") ELSE End("chain")

LatestCanonical ==
    /\ at = "latest"
    /\ block' = Last(chain) /\ at' = "code"
    /\ UNCHANGED <<token, chain, past, right, moves, reply>>

\* The contract at the named block, while that block is canonical.
Read == IF block \in ToSet(chain) THEN block.contract ELSE None

GetCode ==
    /\ at = "code"
    /\ IF Read = None THEN End("reorganized")
       ELSE IF ~Read.code THEN End("no code") ELSE Go("decimals")

\* A word is one ABI value, zero-extended.
Decode(word) == IF word.high # 0 THEN None ELSE word.low

GetDecimals ==
    /\ at = "decimals"
    /\ IF Read = None THEN End("reorganized")
       ELSE IF Decode(Read.decimals) = None THEN End("invalid")
       ELSE IF Decode(Read.decimals) # Expected THEN End("decimals") ELSE Go("balance")

\* balanceOf must answer one word, a value of 256 bits.
GetBalance ==
    /\ at = "balance"
    /\ IF Read = None THEN End("reorganized")
       ELSE IF Read.balanceOf THEN End("ok") ELSE End("invalid")

Done == at = "done" /\ UNCHANGED vars

Next ==
    \/ Move \/ RequestFails \/ Start \/ VerifyChainId \/ LatestCanonical
    \/ GetCode \/ GetDecimals \/ GetBalance \/ Done

Spec == Init /\ [][Next]_vars

-----------------------------------------------------------------------------

IsToken(c) == c.code /\ c.decimals = [high |-> 0, low |-> Expected] /\ c.balanceOf

\* A token passes only if, at one block of the configured chain, it was a contract
\* with the configured decimals and an answering balanceOf, though the contract may
\* be created, destroyed or replaced while the requests are made.
TokenStoodAtOneBlock == reply = "ok" => right /\ \E b \in past : IsToken(b.contract)

\* A token of the configured chain that stands unchanged is refused only if a
\* request failed or the block read at was replaced.
StandingTokenPasses ==
    at = "done" /\ token # ZeroToken /\ right /\ (\A b \in past : IsToken(b.contract)) =>
        reply \in {"ok", "unavailable", "reorganized"}
=============================================================================
