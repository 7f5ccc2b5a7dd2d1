-------------------------- MODULE BitcoinInterpret --------------------------
(***************************************************************************)
(* From the JSON of a Bitcoin block to the changes the index stores: the   *)
(* outputs its inputs spend are resolved (indexer/source), the block is    *)
(* parsed against the consensus bytes it carries (indexer/model) and       *)
(* inspected for the registered addresses (indexer/interpreter).           *)
(*                                                                         *)
(* A transaction of the block is a record of what the node claims (txid,   *)
(* vin, vout) beside the consensus bytes it sends along.  The bytes are a  *)
(* record of id, ins and outs, or Error when they do not decode; the id    *)
(* stands for the hash that the library computes from them.                *)
(***************************************************************************)
EXTENDS Integers, Sequences, FiniteSets, SequencesExt

CONSTANTS
    None, Retry, Fatal,     \* nothing; errors the caller may and may not retry
    Address, Supported,     \* addresses, and those of P2WPKH and P2TR scripts
    ScriptAddress,          \* the address of a script, or None
    ParsedText,             \* what an address text means on the network, or None
    Scope,                  \* the index scope of the interpreter
    Places,                 \* decimal places of a bitcoin (8)
    MaxU64,                 \* the largest u64
    MaxExternal             \* MAX_EXTERNAL_PREVOUTS_PER_BLOCK

Errors == {None, Retry, Fatal}
Unit == 10 ^ Places

-----------------------------------------------------------------------------
\* Amounts.  A JSON number is its sign, exponent, whole part and fraction digits.

DigitsValue(ds) == FoldLeft(LAMBDA v, d : 10 * v + d, 0, ds)

\* Satoshi::from_block_json.
FromBlockJson(n) ==
    IF n.negative \/ n.exponent \/ Len(n.fraction) > Places THEN Retry
    ELSE LET v == n.whole * Unit + DigitsValue(n.fraction) * 10 ^ (Places - Len(n.fraction))
         IN  IF v > MaxU64 THEN Retry ELSE v

\* Satoshi::from_rpc_json.
FromRpcJson(n) ==
    IF n.negative \/ n.exponent \/ Len(n.fraction) > Places THEN Retry
    ELSE LET v == n.whole * Unit + DigitsValue(n.fraction) * 10 ^ (Places - Len(n.fraction))
         IN  IF v > MaxU64 THEN Retry ELSE v

\* The digits of v, in the given number of places.
Digits(v, places) == [i \in 1..places |-> (v \div 10 ^ (places - i)) % 10]

\* trim_end_matches('0').
TrimZeros(ds) ==
    SubSeq(ds, 1, CHOOSE k \in 0..Len(ds) :
                      /\ \A i \in (k + 1)..Len(ds) : ds[i] = 0
                      /\ k = 0 \/ ds[k] # 0)

\* FeeRate::core_maximum_json: the maximum fee rate as Bitcoin Core takes it.
CoreMaximumJson(rate) ==
    IF rate = 0 \/ rate > Unit THEN Fatal
    ELSE [negative |-> FALSE, exponent |-> FALSE, whole |-> rate \div Unit,
          fraction |-> TrimZeros(Digits(rate % Unit, Places))]

-----------------------------------------------------------------------------
\* indexer/source: the outputs that the inputs of the block spend.

Null == [tx |-> 0, index |-> MaxU64]          \* the outpoint of a coinbase input
IsCoinbase(bytes) == Len(bytes.ins) = 1 /\ bytes.ins[1] = Null

Created(bytes) == {[tx |-> bytes.id, index |-> i - 1] : i \in DOMAIN bytes.outs}

\* decode_consensus_transaction: the bytes decode and carry the claimed ID.
DecodeConsensus(claim) == claim.bytes # Retry /\ claim.bytes.id = claim.txid

\* validate_input_claims: the claimed inputs are the inputs of the bytes.
InputClaims(claim) ==
    /\ Len(claim.vin) = Len(claim.bytes.ins)
    /\ \A i \in DOMAIN claim.vin :
         IF claim.bytes.ins[i] = Null
         THEN IsCoinbase(claim.bytes) /\ claim.vin[i].coinbase
         ELSE claim.vin[i].out = claim.bytes.ins[i]

\* RequiredPrevouts::record.
RecordPrevout(acc, out) ==
    IF out \in acc.required \/ Cardinality(acc.required) >= MaxExternal
    THEN [acc EXCEPT !.error = Fatal]
    ELSE [acc EXCEPT !.required = @ \cup {out}]

\* RequiredPrevouts::observe: an input is a coinbase, spends an output made earlier in
\* the block, or needs the transaction it names.
Observe(acc, out, ids) ==
    IF acc.error # None \/ out = Null \/ out \in acc.earlier THEN acc
    ELSE IF out.tx \in ids THEN [acc EXCEPT !.error = Retry]
    ELSE RecordPrevout(acc, out)

\* The first half of enrich_prevouts: check every transaction, collect what is external.
RequiredPrevouts(claims) ==
    LET ids == {claims[i].txid : i \in DOMAIN claims}
        start == [earlier |-> {}, required |-> {}, error |-> None]
        Step(acc, claim) ==
            LET seen == FoldLeft(LAMBDA a, out : Observe(a, out, ids), acc, claim.bytes.ins)
            IN  [seen EXCEPT !.earlier = @ \cup Created(claim.bytes)]
    IN  IF \/ \E i \in DOMAIN claims : ~DecodeConsensus(claims[i]) \/ ~InputClaims(claims[i])
           \/ Cardinality(ids) # Len(claims)
        THEN [start EXCEPT !.error = Retry]
        ELSE FoldLeft(Step, start, claims)

\* resolve_outputs: the answer for one transaction, of which `wanted` are the outputs.
\* The node's answer is a claim with the hash of the block it was confirmed in.
ResolveOutputs(answer, id, wanted) ==
    IF \/ answer = None
       \/ answer.txid # id \/ ~DecodeConsensus(answer)
       \/ ~answer.confirmed
       \/ \E out \in wanted : out.index >= Len(answer.bytes.outs)
    THEN Retry
    ELSE [out \in wanted |->
            LET o == answer.bytes.outs[out.index + 1]
            IN  [kind |-> "compact", value |-> o.value, address |-> ScriptAddress[o.script]]]

\* ResolvedPrevouts::enrich_input: the claimed prevout is dropped; an input that spends
\* an earlier output of the block gets none, another gets the resolved one.
EnrichInput(input, out, earlier, resolved) ==
    IF out = Null THEN input
    ELSE [input EXCEPT !.prevout = IF out \in earlier THEN None ELSE resolved[out]]

\* enrich_prevouts: the block with every external prevout resolved, or an error.  `node`
\* gives the answer to getrawtransaction.
EnrichPrevouts(raw, node) ==
    LET need == RequiredPrevouts(raw.tx)
        parents == {out.tx : out \in need.required}
        Wanted(t) == {out \in need.required : out.tx = t}
        answers == [t \in parents |-> ResolveOutputs(node[t], t, Wanted(t))]
        resolved == [out \in need.required |-> answers[out.tx][out]]
        Earlier(k) == UNION {Created(raw.tx[j].bytes) : j \in 1..(k - 1)}
    IN  IF need.error # None THEN need.error
        ELSE IF \E t \in parents : answers[t] = Retry THEN Retry
        ELSE [raw EXCEPT !.tx =
                [k \in DOMAIN raw.tx |->
                    [raw.tx[k] EXCEPT !.vin =
                        [i \in DOMAIN raw.tx[k].vin |->
                            EnrichInput(raw.tx[k].vin[i], raw.tx[k].bytes.ins[i],
                                        Earlier(k), resolved)]]]]

-----------------------------------------------------------------------------
\* indexer/model: the block, parsed against its consensus bytes.

\* PreviousOutput::parse and parse_verbose: the output an input spends, as the block
\* states it at the spending height.
PreviousOutput(prevout, out, height) ==
    IF prevout.kind = "compact"
    THEN [outpoint |-> out, value |-> prevout.value, address |-> prevout.address]
    ELSE IF FromBlockJson(prevout.value) = Retry \/ prevout.height > height THEN Retry
    ELSE [outpoint |-> out, value |-> FromBlockJson(prevout.value),
          address |-> ScriptAddress[prevout.script]]

\* Input::parse.  `local` holds the outputs made earlier in the block.
ParseInput(input, out, coinbase, height, local) ==
    IF out = Null THEN (IF coinbase /\ input.coinbase THEN None ELSE Retry)
    ELSE IF coinbase \/ input.out # out THEN Retry
    ELSE LET own == {o \in local : o.outpoint = out}
         IN  IF input.prevout = None
             THEN (IF own = {} THEN Retry ELSE CHOOSE o \in own : TRUE)
             ELSE LET stated == PreviousOutput(input.prevout, out, height)
                  IN  IF \E o \in own : o # stated THEN Retry ELSE stated

\* The output loop of Transaction::parse.
ParseOutput(claim, i) ==
    LET o == claim.bytes.outs[i]
        v == claim.vout[i]
    IN  IF v.n # i - 1 \/ FromBlockJson(v.value) # o.value \/ v.script # o.script
        THEN Retry ELSE [value |-> FromBlockJson(v.value), script |-> v.script]

\* Transaction::parse.
ParseTransaction(claim, height, local) ==
    LET coinbase == IsCoinbase(claim.bytes)
        inputs == [i \in DOMAIN claim.vin |->
                      ParseInput(claim.vin[i], claim.bytes.ins[i], coinbase, height, local)]
        outputs == [i \in DOMAIN claim.vout |-> ParseOutput(claim, i)]
    IN  IF \/ ~DecodeConsensus(claim)
           \/ Len(claim.vin) # Len(claim.bytes.ins) \/ \E i \in DOMAIN inputs : inputs[i] = Retry
           \/ Len(claim.vout) # Len(claim.bytes.outs) \/ \E i \in DOMAIN outputs : outputs[i] = Retry
        THEN Retry
        ELSE [id |-> claim.txid, inputs |-> inputs, outputs |-> outputs, coinbase |-> coinbase]

\* The outputs of a parsed transaction, as later inputs of the block see them.
SameBlockOutputs(t) ==
    {[outpoint |-> [tx |-> t.id, index |-> i - 1], value |-> t.outputs[i].value,
      address |-> ScriptAddress[t.outputs[i].script]] : i \in DOMAIN t.outputs}

\* The transaction loop of BlockData::parse.
ParseTransactions(claims, height) ==
    LET Include(acc, t) ==
            IF t = Retry THEN [acc EXCEPT !.error = TRUE]
            ELSE IF t.id \in acc.ids THEN [acc EXCEPT !.error = TRUE]
            ELSE [error |-> FALSE, ids |-> acc.ids \cup {t.id},
                  local |-> acc.local \cup SameBlockOutputs(t),
                  txs |-> Append(acc.txs, t)]
        Step(acc, claim) ==
            IF acc.error THEN acc ELSE Include(acc, ParseTransaction(claim, height, acc.local))
    IN  FoldLeft(Step, [error |-> FALSE, ids |-> {}, local |-> {}, txs |-> <<>>], claims)

\* BlockData::parse: the block of the requested height and hash, or an error.
ParseBlock(raw, height, hash) ==
    LET Block(parsed) ==
            IF \/ raw.height # height
               \/ raw.hash # hash
               \/ (raw.height = 0) # (raw.prev = None)
               \/ raw.nTx # Len(raw.tx)
               \/ parsed.error
            THEN Retry
            ELSE [height |-> height, hash |-> hash,
                  parent |-> IF height = 0 THEN None ELSE [position |-> height - 1, hash |-> raw.prev],
                  transactions |-> parsed.txs]
    IN  Block(ParseTransactions(raw.tx, raw.height))

-----------------------------------------------------------------------------
\* indexer/interpreter and indexer/transaction: what the block means for the
\* registered addresses.

\* Variant of AddressRefused that takes any text of an address.
AnyTextRefused(a) == a.scope # Scope \/ ParsedText[a.value] \notin Supported

\* ValidatedAddresses::add: of this scope, of the network, a P2WPKH or P2TR address, in
\* its canonical text.
AddressRefused(a) ==
    \/ a.scope # Scope
    \/ ParsedText[a.value] = None
    \/ ParsedText[a.value] \notin Supported
    \/ a.value # ParsedText[a.value]

\* TransactionFacts::record_payer.
RecordPayer(facts, address) ==
    IF facts.payer = None /\ address # None /\ ~facts.ambiguous
    THEN [facts EXCEPT !.payer = address]
    ELSE IF facts.payer # None /\ facts.payer = address THEN facts
    ELSE [facts EXCEPT !.ambiguous = TRUE]

\* TransactionFacts::record_spend.
RecordSpend(facts, previous, registered) ==
    LET key == [address |-> previous.address, outpoint |-> previous.outpoint]
    IN  IF previous.address = None THEN facts
        ELSE IF previous.address \in registered
        THEN [facts EXCEPT !.relevant = TRUE, !.spends = @ \cup {key}]
        ELSE IF previous.address \in Supported
        THEN [facts EXCEPT !.tracked = @ \cup {key}]
        ELSE facts

\* TransactionFacts::input and previous_output.
FactInput(facts, previous, coinbase, registered) ==
    IF facts.error \/ (coinbase /\ previous = None) THEN facts
    ELSE IF \/ coinbase # (previous = None)
            \/ previous.outpoint \in facts.allSpent
            \/ facts.input + previous.value > MaxU64
    THEN [facts EXCEPT !.error = TRUE]
    ELSE RecordSpend(
           RecordPayer([facts EXCEPT !.allSpent = @ \cup {previous.outpoint},
                                     !.input = @ + previous.value,
                                     !.movements = Append(@, [side |-> "in", amount |-> previous.value,
                                                              owner |-> previous.address])],
                       previous.address),
           previous, registered)

\* TransactionFacts::output.
FactOutput(facts, t, i, height, registered) ==
    LET o == t.outputs[i]
        address == ScriptAddress[o.script]
        made == [outpoint |-> [tx |-> t.id, index |-> i - 1], value |-> o.value,
                 script |-> o.script, address |-> address, height |-> height,
                 coinbase |-> t.coinbase]
        moved == [facts EXCEPT !.output = @ + o.value,
                               !.movements = Append(@, [side |-> "out", amount |-> o.value,
                                                        owner |-> address])]
    IN  IF facts.error THEN facts
        ELSE IF facts.output + o.value > MaxU64 THEN [facts EXCEPT !.error = TRUE]
        ELSE IF address = None \/ address \notin registered THEN moved
        ELSE [moved EXCEPT !.relevant = TRUE, !.creates = @ \cup {made}]

\* Transaction::interpret: the facts of one transaction; TransactionFacts::finish gives
\* its fee.
Interpret(t, height, registered, allSpent) ==
    LET start == [movements |-> <<>>, relevant |-> FALSE, input |-> 0, output |-> 0,
                  payer |-> None, ambiguous |-> FALSE, creates |-> {}, spends |-> {},
                  tracked |-> {}, allSpent |-> allSpent, error |-> FALSE]
        ins == FoldLeft(LAMBDA f, p : FactInput(f, p, t.coinbase, registered), start, t.inputs)
        outs == FoldLeft(LAMBDA f, i : FactOutput(f, t, i, height, registered), ins,
                         [i \in DOMAIN t.outputs |-> i])
    IN  IF ~t.coinbase /\ outs.input < outs.output THEN [outs EXCEPT !.error = TRUE] ELSE outs

Fee(t, facts) ==
    IF t.coinbase THEN None
    ELSE [amount |-> facts.input - facts.output,
          payer |-> IF facts.ambiguous THEN None ELSE facts.payer]

\* Outputs::create, spend and track: an output made and spent in one block is neither.
AddOutputs(acc, facts) ==
    LET creates == acc.creates \cup facts.creates
        own == {o.outpoint : o \in creates}
        gone == {k.outpoint : k \in facts.spends \cup facts.tracked}
    IN  [creates |-> {o \in creates : o.outpoint \notin gone},
         spends |-> acc.spends \cup {k \in facts.spends : k.outpoint \notin own},
         tracked |-> acc.tracked \cup {k \in facts.tracked : k.outpoint \notin own}]

\* BlockInterpreter::inspect: drafts of the relevant transactions and output changes.
Inspect(block, addresses) ==
    LET registered == {ParsedText[a.value] : a \in addresses}
        Step(acc, t) ==
            IF acc.error THEN acc
            ELSE LET facts == Interpret(t, block.height, registered, acc.allSpent)
                     draft == [id |-> t.id, movements |-> facts.movements, fee |-> Fee(t, facts)]
                 IN  IF facts.error THEN [acc EXCEPT !.error = TRUE]
                     ELSE [error |-> FALSE, allSpent |-> facts.allSpent,
                           outputs |-> AddOutputs(acc.outputs, facts),
                           drafts |-> IF facts.relevant THEN Append(acc.drafts, draft)
                                      ELSE acc.drafts]
        start == [error |-> FALSE, allSpent |-> {}, drafts |-> <<>>,
                  outputs |-> [creates |-> {}, spends |-> {}, tracked |-> {}]]
    IN  IF \E a \in addresses : AddressRefused(a) THEN Fatal
        ELSE LET done == FoldLeft(Step, start, block.transactions)
             IN  IF done.error THEN Fatal
                 ELSE [block |-> [height |-> block.height, hash |-> block.hash],
                       drafts |-> done.drafts, outputs |-> done.outputs]

-----------------------------------------------------------------------------
(***************************************************************************)
(* Every block of a coinbase and two small transactions over two earlier   *)
(* transactions, and a valid block with one claim of the node changed,     *)
(* compared with the transactions that the consensus bytes describe.       *)
(***************************************************************************)

CONSTANTS
    A, B, P,          \* addresses; P is of no supported script
    Foreign, BigA,    \* an address text of another network, and A in capitals
    OtherScope,
    MaxAmount         \* the largest fee rate that is written

VARIABLES request, reply

Faults ==
    {"none", "height", "genesis", "hash", "orphan", "count", "txid", "bytes", "twice", "vin",
     "outpoint", "coinbase", "secondbase", "prevout", "vout", "n", "value", "script"}

Out(v, s) == [value |-> v, script |-> s]
Point(t, i) == [tx |-> t, index |-> i]
Json(v) == [negative |-> FALSE, exponent |-> FALSE, whole |-> v \div Unit,
            fraction |-> TrimZeros(Digits(v % Unit, Places))]
Blank == [coinbase |-> FALSE, out |-> None, prevout |-> None]

\* What an honest node says of a transaction.
Claim(bytes) ==
    [txid |-> bytes.id, bytes |-> bytes, confirmed |-> TRUE,
     vin |-> [i \in DOMAIN bytes.ins |->
                IF bytes.ins[i] = Null THEN [Blank EXCEPT !.coinbase = TRUE]
                ELSE [Blank EXCEPT !.out = bytes.ins[i]]],
     vout |-> [i \in DOMAIN bytes.outs |->
                [n |-> i - 1, value |-> Json(bytes.outs[i].value), script |-> bytes.outs[i].script]]]

Old1 == [id |-> 1, ins |-> <<Null>>, outs |-> <<Out(200, "a"), Out(1, "b")>>]
Old2 == [id |-> 2, ins |-> <<Null>>, outs |-> <<Out(100, "p"), Out(1, "n")>>]
Old == [t \in {1, 2} |-> IF t = 1 THEN Old1 ELSE Old2]
Coinbase == [id |-> 10, ins |-> <<Null>>, outs |-> <<Out(1, "b")>>]
Spendable == {Point(1, 0), Point(1, 1), Point(2, 0), Point(2, 1), Point(11, 0),
              Point(10, 0), Point(12, 0), Point(1, 2), Point(3, 0)}

Tx(id, ins, outs) == [id |-> id, ins |-> ins, outs |-> outs]
First == {Tx(11, i, o) : i \in {<<x>> : x \in Spendable} \cup {<<x, y>> : x, y \in Spendable},
                         o \in {<<Out(v, s)>> : v \in {1, 201}, s \in {"a", "b", "n"}}
                               \cup {<<Out(1, "a"), Out(1, "p")>>}}
Second == {Tx(12, <<i>>, <<o>>) : i \in Spendable, o \in {Out(1, "a"), Out(1, "n")}}
Registered == {{}, {A}, {A, B}}

Raw(txs) == [height |-> 5, hash |-> "h5", prev |-> "h4", nTx |-> Len(txs),
             tx |-> [i \in DOMAIN txs |-> Claim(txs[i])]]

ValidTx == Tx(11, <<Point(1, 0), Point(2, 1)>>, <<Out(1, "b"), Out(1, "a")>>)
Valid == Raw(<<Coinbase, ValidTx, Tx(12, <<Point(11, 0)>>, <<Out(1, "a")>>)>>)

\* The valid block with one claim, one answer of the node or one input changed.
Faulty(fault) ==
    CASE fault = "none" -> Valid
      [] fault = "height" -> [Valid EXCEPT !.height = 6]
      [] fault = "genesis" -> [Valid EXCEPT !.height = 0]
      [] fault = "hash" -> [Valid EXCEPT !.hash = "h6"]
      [] fault = "orphan" -> [Valid EXCEPT !.prev = None]
      [] fault = "count" -> [Valid EXCEPT !.nTx = 2]
      [] fault = "txid" -> [Valid EXCEPT !.tx[2].txid = 13]
      [] fault = "bytes" -> [Valid EXCEPT !.tx[2].bytes = Retry]
      [] fault = "twice" -> [Valid EXCEPT !.tx[3] = Valid.tx[2]]
      [] fault = "vin" -> [Valid EXCEPT !.tx[2].vin = <<@[1]>>]
      [] fault = "outpoint" -> [Valid EXCEPT !.tx[2].vin[1].out = Point(1, 1)]
      [] fault = "coinbase" -> [Valid EXCEPT !.tx[1].vin[1].coinbase = FALSE]
      [] fault = "secondbase" -> [Valid EXCEPT !.tx[3].bytes.ins = <<Point(11, 0), Null>>,
                                               !.tx[3].vin = @ \o <<[Blank EXCEPT !.coinbase = TRUE]>>]
      [] fault = "prevout" -> [Valid EXCEPT !.tx[2].vin[1].prevout =
                                 [kind |-> "compact", value |-> 1, address |-> B]]
      [] fault = "vout" -> [Valid EXCEPT !.tx[2].vout = <<@[1]>>]
      [] fault = "n" -> [Valid EXCEPT !.tx[2].vout[1].n = 1]
      [] fault = "value" -> [Valid EXCEPT !.tx[2].vout[1].value = Json(2)]
      [] fault = "script" -> [Valid EXCEPT !.tx[2].vout[1].script = "a"]

Nodes == {[t \in 1..3 |-> IF t = 3 THEN None ELSE Claim(Old[t])],
          [t \in 1..3 |-> IF t = 1 THEN Claim(Old[1]) ELSE None],
          [t \in 1..3 |-> IF t = 1 THEN [Claim(Old[1]) EXCEPT !.confirmed = FALSE] ELSE Claim(Old[2])],
          [t \in 1..3 |-> IF t = 1 THEN [Claim(Old[1]) EXCEPT !.bytes = Old[2]] ELSE Claim(Old[2])],
          [t \in 1..3 |-> Claim(Old[2])]}
Honest == [t \in 1..3 |-> IF t = 3 THEN None ELSE Claim(Old[t])]

\* A block that states its prevouts itself, in the long form.
Verbose(value, script, height) ==
    [Valid EXCEPT !.tx[2].vin[1].prevout = [kind |-> "verbose", value |-> Json(200), script |-> "a", height |-> 5],
                  !.tx[2].vin[2].prevout = [kind |-> "verbose", value |-> Json(1), script |-> "n", height |-> 4],
                  !.tx[3].vin[1].prevout = [kind |-> "verbose", value |-> value, script |-> script, height |-> height]]

Number == [negative : BOOLEAN, exponent : BOOLEAN, whole : 0..3,
           fraction : UNION {[1..n -> {0, 1, 5}] : n \in 0..3}]
Texts == [scope : {Scope, OtherScope}, value : Address \cup {Foreign, BigA}]

Init ==
    /\ request \in
         {[what |-> "block", raw |-> Raw(<<Coinbase, f, s>>), node |-> Honest,
           addresses |-> [scope : {Scope}, value : r]] : f \in First, s \in Second, r \in Registered}
         \cup {[what |-> "fault", raw |-> Faulty(f), node |-> n,
                addresses |-> [scope : {Scope}, value : {A}]] : f \in Faults, n \in Nodes}
         \cup {[what |-> "address", raw |-> Valid, node |-> Honest,
                addresses |-> {[scope |-> Scope, value |-> B], t}] : t \in Texts}
         \cup {[what |-> "verbose", raw |-> Verbose(Json(v), s, h), node |-> Honest, addresses |-> {}] :
                   v \in 1..2, s \in {"a", "b"}, h \in 4..6}
         \cup [what : {"number"}, number : Number, rate : 0..MaxAmount]
    /\ reply = <<>>

\* Blocks::fetch_block between its two reads of the hash, then inspect.
Fetch(raw, node) ==
    LET full == EnrichPrevouts(raw, node)
    IN  IF full \in Errors THEN full ELSE ParseBlock(full, 5, "h5")

Answer ==
    /\ reply = <<>>
    /\ IF request.what = "number"
       THEN reply' = <<FromBlockJson(request.number), FromRpcJson(request.number),
                       CoreMaximumJson(request.rate)>>
       ELSE \E block \in {IF request.what = "verbose" THEN ParseBlock(request.raw, 5, "h5")
                          ELSE Fetch(request.raw, request.node)} :
              reply' = <<block, IF block \in Errors THEN None
                                ELSE Inspect(block, request.addresses)>>
    /\ UNCHANGED request

Done == reply # <<>> /\ UNCHANGED <<request, reply>>
Next == Answer \/ Done
Spec == Init /\ [][Next]_<<request, reply>>

-----------------------------------------------------------------------------

Answered == reply # <<>> /\ request.what # "number"
Bytes == [i \in DOMAIN request.raw.tx |-> request.raw.tx[i].bytes]

\* The output an outpoint names, in the block or before it.
Known(bs) == UNION {Created(bs[i]) : i \in DOMAIN bs} \cup Created(Old1) \cup Created(Old2)
OutputAt(bs, p) ==
    LET ts == {bs[i] : i \in DOMAIN bs} \cup {Old1, Old2}
    IN  (CHOOSE t \in ts : t.id = p.tx).outs[p.index + 1]

Total(bs, b) ==
    [in |-> FoldLeft(LAMBDA v, p : v + OutputAt(bs, p).value, 0, b.ins),
     out |-> FoldLeft(LAMBDA v, o : v + o.value, 0, b.outs)]

Inputs(bs, set) == {<<i, j>> \in set \X (1..3) : j \in DOMAIN bs[i].ins /\ bs[i].ins[j] # Null}

\* The consensus rules a block of the chain obeys, as far as the index depends on them,
\* with at most the supported number of external inputs.
ValidBlock(bs) ==
    LET ins == Inputs(bs, DOMAIN bs)
    IN  /\ \A x \in ins :
             LET p == bs[x[1]].ins[x[2]]
             IN  /\ p \in Known(bs)
                 /\ p.tx \in {10, 11, 12} => \E i \in 1..(x[1] - 1) : bs[i].id = p.tx
        /\ \A x, y \in ins : bs[x[1]].ins[x[2]] = bs[y[1]].ins[y[2]] => x = y
        /\ Cardinality({x \in ins : bs[x[1]].ins[x[2]].tx \in {1, 2}}) <= MaxExternal
        /\ \A i \in DOMAIN bs \ {1} :
             LET t == Total(bs, bs[i]) IN t.in >= t.out /\ t.in <= MaxU64

\* An honest node's block of the chain is always fetched, parsed and inspected, and a
\* block that breaks a rule the index depends on, spends one output twice or needs
\* more external outputs than the bound is never inspected: fetch_block and inspect
\* refuse it.
ValidBlocksAreIndexed ==
    Answered /\ request.what = "block" =>
        ((reply[1] \notin Errors /\ reply[2] \notin Errors) <=> ValidBlock(Bytes))

\* Whatever the node claims beside the consensus bytes, a block that fetch_block or
\* Block::parse returns has the transactions of the bytes: their inputs with the value
\* and address of the outputs they spend, their outputs, and the requested height.
ParsedBlockIsItsBytes ==
    Answered /\ reply[1] \notin Errors =>
        /\ reply[1].height = 5 /\ reply[1].parent = [position |-> 4, hash |-> "h4"]
        /\ Len(reply[1].transactions) = Len(Bytes)
        /\ \A i \in DOMAIN Bytes :
             LET t == reply[1].transactions[i]
             IN  /\ t.id = Bytes[i].id
                 /\ t.outputs = Bytes[i].outs
                 /\ t.coinbase = (Bytes[i].ins = <<Null>>)
                 /\ Len(t.inputs) = Len(Bytes[i].ins)
                 /\ \A j \in DOMAIN t.inputs :
                      IF Bytes[i].ins[j] = Null THEN t.inputs[j] = None
                      ELSE LET o == OutputAt(Bytes, Bytes[i].ins[j])
                           IN  t.inputs[j] = [outpoint |-> Bytes[i].ins[j], value |-> o.value,
                                              address |-> ScriptAddress[o.script]]

Mine == {ParsedText[a.value] : a \in request.addresses}
SpentIn(bs) == {bs[x[1]].ins[x[2]] : x \in Inputs(bs, DOMAIN bs)}
OwnedBy(bs, set, points) == {p \in points : ScriptAddress[OutputAt(bs, p).script] \in set}

\* Inspection follows the chain: the outputs it adds are those of the registered
\* addresses that the block makes and leaves unspent, those it removes are theirs from
\* before the block, and every other spend of a P2WPKH or P2TR output is tracked.
OutputsFollowTheChain ==
    Answered /\ reply[2] \notin Errors =>
        LET bs == Bytes
            made == UNION {Created(bs[i]) : i \in DOMAIN bs}
            o == reply[2].outputs
        IN  /\ {c.outpoint : c \in o.creates} = OwnedBy(bs, Mine, made) \ SpentIn(bs)
            /\ \A c \in o.creates : c.value = OutputAt(bs, c.outpoint).value
            /\ {k.outpoint : k \in o.spends} = OwnedBy(bs, Mine, SpentIn(bs) \ made)
            /\ {k.outpoint : k \in o.tracked} = OwnedBy(bs, Supported \ Mine, SpentIn(bs))

\* A transaction is reported exactly when it touches a registered address, its fee is
\* what its inputs exceed its outputs by, and the fee has a payer exactly when all its
\* inputs belong to that one address.
DraftsBalance ==
    Answered /\ reply[2] \notin Errors =>
        LET bs == Bytes
            Owners(b) == {ScriptAddress[OutputAt(bs, b.ins[j]).script] :
                             j \in {k \in DOMAIN b.ins : b.ins[k] # Null}}
            Paid(b) == {ScriptAddress[b.outs[j].script] : j \in DOMAIN b.outs}
            relevant == SelectSeq(bs, LAMBDA b : (Owners(b) \cup Paid(b)) \cap Mine # {})
            d == reply[2].drafts
        IN  /\ Len(d) = Len(relevant)
            /\ \A i \in DOMAIN d :
                 LET b == relevant[i]
                 IN  /\ d[i].id = b.id
                     /\ IF b.ins = <<Null>> THEN d[i].fee = None
                        ELSE /\ d[i].fee.amount = Total(bs, b).in - Total(bs, b).out
                             /\ d[i].fee.payer = IF Cardinality(Owners(b)) = 1
                                                 THEN CHOOSE x \in Owners(b) : TRUE ELSE None
                             /\ Len(d[i].movements) = Len(b.ins) + Len(b.outs)

\* Addresses of another scope or network, of another kind or not in canonical text are
\* refused before anything is inspected, and all others are accepted.
OnlyCanonicalAddresses ==
    Answered /\ request.what = "address" =>
        (reply[2] \in Errors <=>
            \E a \in request.addresses : a.scope # Scope \/ a.value \notin Supported)

\* The value of a JSON number of bitcoins in units of 1 / 10 ^ (Places + 3).
Thousandths(n) ==
    n.whole * Unit * 1000
    + FoldLeft(LAMBDA v, i : v + n.fraction[i] * 10 ^ (Places + 3 - i), 0, [i \in DOMAIN n.fraction |-> i])

\* A JSON amount is taken exactly when it is a plain non-negative number of whole
\* satoshis written in at most eight places that fits a u64, and means that number; the
\* maximum fee rate written for Bitcoin Core reads back as the same rate.
AmountsAreExact ==
    reply # <<>> /\ request.what = "number" =>
        LET n == request.number
        IN  /\ reply[1] = reply[2]
            /\ reply[1] # Retry <=>
                 (~n.negative /\ ~n.exponent /\ Len(n.fraction) <= Places /\ Thousandths(n) <= MaxU64 * 1000)
            /\ reply[1] # Retry => reply[1] * 1000 = Thousandths(n)
            /\ reply[3] # Fatal <=> request.rate \in 1..Unit
            /\ reply[3] # Fatal => FromRpcJson(reply[3]) = IF request.rate <= MaxU64 THEN request.rate ELSE Retry
=============================================================================
