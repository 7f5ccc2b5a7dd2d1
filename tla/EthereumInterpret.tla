-------------------------- MODULE EthereumInterpret --------------------------
(***************************************************************************)
(* From the JSON of an Ethereum block and its receipts to the drafts the   *)
(* index stores: parsing (indexer/model) and inspection                    *)
(* (indexer/interpreter).                                                  *)
(*                                                                         *)
(* Hashes and addresses are model values or small numbers.  A quantity is  *)
(* written in hex digits; a log topic is a word of a high part, which is   *)
(* zero when it pads an address, and a low part.                           *)
(***************************************************************************)
EXTENDS Integers, Sequences, FiniteSets, SequencesExt

CONSTANTS
    None, Error,
    Zero,          \* the zero address
    Transfer,      \* the topic of an ERC-20 Transfer event
    Native,        \* the native asset
    Scope,
    MaxU64, MaxU256, WordBytes,   \* integer bounds, bytes of a word (32)
    ParsedText     \* the address an address text stands for, or Error

-----------------------------------------------------------------------------
\* indexer/model.

HexValue(digits) == FoldLeft(LAMBDA v, d : 16 * v + d, 0, digits)

\* parse_quantity: canonical hex, at most 256 bits.
ParseQuantity(q) ==
    IF ~q.prefixed \/ q.digits = <<>> \/ (Len(q.digits) > 1 /\ q.digits[1] = 0) THEN Error
    ELSE LET v == HexValue(q.digits) IN IF v > MaxU256 THEN Error ELSE v

\* required_quantity_u64.
ParseU64(q) ==
    LET v == ParseQuantity(q) IN IF v = Error THEN Error ELSE IF v > MaxU64 THEN Error ELSE v

\* ParsedTransaction::parse: a transaction that stands where it says, in this block.
ParsedTransaction(t, position, block) ==
    IF \/ ParseQuantity(t.value) = Error
       \/ t.index # position - 1
       \/ t.blockHash # block.hash
       \/ t.blockNumber # block.number
    THEN Error
    ELSE [hash |-> t.hash, from |-> t.from, to |-> t.to, value |-> ParseQuantity(t.value),
          index |-> t.index]

\* ParsedBlock::parse.  A block request without full transactions gets hashes.
ParsedBlock(raw, height, full) ==
    LET txs == IF raw.full THEN [i \in DOMAIN raw.tx |-> ParsedTransaction(raw.tx[i], i, raw)]
               ELSE <<>>
    IN  IF \/ height # None /\ raw.number # height
           \/ full /\ ~raw.full
           \/ \E i \in DOMAIN txs : txs[i] = Error
           \/ \E i, j \in DOMAIN txs : i # j /\ txs[i].hash = txs[j].hash
        THEN Error
        ELSE [reference |-> [height |-> raw.number, hash |-> raw.hash,
                             parent |-> IF raw.number = 0 THEN None
                                        ELSE [position |-> raw.number - 1, hash |-> raw.parentHash]],
              transactions |-> txs]

\* ParsedLog::parse: a log of this receipt that was not removed, with whole bytes of data.
ParsedLog(log, t, reference) ==
    IF \/ log.blockHash # reference.hash \/ log.blockNumber # reference.height
       \/ log.txHash # t.hash \/ log.txIndex # t.index
       \/ log.removed
       \/ ~log.data.prefixed \/ Len(log.data.digits) % 2 # 0
    THEN Error
    ELSE [address |-> log.address, topics |-> log.topics, index |-> log.index,
          data |-> [i \in 1..(Len(log.data.digits) \div 2) |->
                      16 * log.data.digits[2 * i - 1] + log.data.digits[2 * i]]]

\* Log indexes grow through the whole block: `previous` is the last one seen.
LogsInOrder(logs, previous) ==
    \A i \in DOMAIN logs : logs[i].index > IF i = 1 THEN previous ELSE logs[i - 1].index

\* ParsedReceipt::parse: the receipt of this transaction in this block.
ParsedReceipt(r, t, position, reference, previous) ==
    LET logs == [i \in DOMAIN r.logs |-> ParsedLog(r.logs[i], t, reference)]
    IN  IF \/ r.txHash # t.hash
           \/ r.index # t.index \/ r.index # position - 1
           \/ r.blockHash # reference.hash \/ r.blockNumber # reference.height
           \/ r.from # t.from \/ r.to # t.to
           \/ r.status \notin {0, 1}
           \/ ParseU64(r.gasUsed) = Error \/ ParseQuantity(r.gasPrice) = Error
           \/ t.to # None /\ r.contract # None
           \/ r.status = 1 /\ t.to = None /\ t.value # 0 /\ r.contract = None
           \/ \E i \in DOMAIN logs : logs[i] = Error
           \/ ~LogsInOrder(logs, previous)
        THEN Error
        ELSE [succeeded |-> r.status = 1, gasUsed |-> ParseU64(r.gasUsed),
              gasPrice |-> ParseQuantity(r.gasPrice), contract |-> r.contract, logs |-> logs]

\* ParsedReceipt::parse_all: one receipt for each transaction, in order.
ParseAll(raws, block) ==
    LET Step(acc, i) ==
            IF acc = Error THEN Error
            ELSE LET r == ParsedReceipt(raws[i], block.transactions[i], i, block.reference, acc.previous)
                 IN  IF r = Error THEN Error
                     ELSE [receipts |-> Append(acc.receipts, r),
                           previous |-> IF r.logs = <<>> THEN acc.previous ELSE Last(r.logs).index]
        done == FoldLeft(Step, [receipts |-> <<>>, previous |-> -1], [i \in DOMAIN raws |-> i])
    IN  IF Len(raws) # Len(block.transactions) THEN Error
        ELSE IF done = Error THEN Error ELSE done.receipts

-----------------------------------------------------------------------------
\* indexer/interpreter.

WordValue(bytes) == FoldLeft(LAMBDA v, b : 256 * v + b, 0, bytes)

\* ParsedLog::movement: an ERC-20 transfer, mint or burn, and nothing else.
LogMovement(log, hash) ==
    LET from == log.topics[2].low
        to == log.topics[3].low
        moved == [id |-> <<hash, log.index>>, asset |-> log.address, amount |-> WordValue(log.data),
                  kind |-> "transfer", from |-> from, to |-> to]
    IN  IF Len(log.topics) # 3 THEN None
        ELSE IF \/ log.topics[1] # Transfer \/ Len(log.data) # WordBytes
                \/ log.topics[2].high # 0 \/ log.topics[3].high # 0
        THEN None
        ELSE IF from = Zero
        THEN (IF to = Zero THEN None ELSE [moved EXCEPT !.kind = "mint", !.from = None])
        ELSE IF to = Zero THEN [moved EXCEPT !.kind = "burn", !.to = None]
        ELSE moved

\* Movements::successful.
Movements(t, r) ==
    LET to == IF t.to # None THEN t.to ELSE r.contract
        value == IF t.value = 0 THEN <<>>
                 ELSE <<[id |-> <<t.hash, Native>>, asset |-> Native, amount |-> t.value,
                         kind |-> "transfer", from |-> t.from, to |-> to]>>
        logs == [i \in DOMAIN r.logs |-> LogMovement(r.logs[i], t.hash)]
    IN  value \o SelectSeq(logs, LAMBDA m : m # None)

\* Variant of Touched without the created contract.
TouchedByParties(t, r, movements) ==
    ({t.from, t.to}
     \cup {movements[i].from : i \in DOMAIN movements}
     \cup {movements[i].to : i \in DOMAIN movements}) \ {None}

\* The addresses a transaction touches, in matches_address.
Touched(t, r, movements) ==
    ({t.from, t.to, r.contract}
     \cup {movements[i].from : i \in DOMAIN movements}
     \cup {movements[i].to : i \in DOMAIN movements}) \ {None}

\* matches_address goes through the filters in order and stops at the first match, so a
\* filter of another scope, or one that is no address, is only met if none before it
\* matches.
Matches(t, r, movements, filters) ==
    LET touched == Touched(t, r, movements)
        Bad(f) == f.scope # Scope \/ ParsedText[f.value] = Error
        Stops(f) == Bad(f) \/ ParsedText[f.value] \in touched
        first == SelectInSeq(filters, Stops)
    IN  IF first = 0 THEN FALSE ELSE IF Bad(filters[first]) THEN Error ELSE TRUE

\* BlockInterpreter::inspect for one transaction: a draft, None when no filter matches, or
\* an error.
Draft(t, r, filters) ==
    LET movements == IF r.succeeded THEN Movements(t, r) ELSE <<>>
        match == Matches(t, r, movements, filters)
    IN  IF r.gasPrice * r.gasUsed > MaxU256 THEN Error
        ELSE IF match = Error THEN Error
        ELSE IF ~match THEN None
        ELSE [id |-> t.hash, failed |-> ~r.succeeded, movements |-> movements,
              fee |-> [asset |-> Native, amount |-> r.gasPrice * r.gasUsed, payer |-> t.from]]

\* BlockInterpreter::inspect: the retained payload is parsed again.
Inspect(block, filters) ==
    LET Kept(drafts) ==
            IF \E i \in DOMAIN drafts : drafts[i] = Error THEN Error
            ELSE SelectSeq(drafts, LAMBDA d : d # None)
        WithReceipts(parsed, receipts) ==
            IF parsed.reference # block.reference \/ receipts = Error THEN Error
            ELSE Kept([i \in DOMAIN receipts |->
                          Draft(parsed.transactions[i], receipts[i], filters)])
        Parsed(parsed) ==
            IF parsed = Error THEN Error
            ELSE WithReceipts(parsed, ParseAll(block.receipts, parsed))
    IN  Parsed(ParsedBlock(block.raw, block.reference.height, TRUE))

-----------------------------------------------------------------------------
(***************************************************************************)
(* EthereumInterpret over every block of at most two small transactions,   *)
(* over blocks one of whose claims is false, and over quantities.          *)
(***************************************************************************)

CONSTANTS
    A, B, C,          \* accounts; C is the contract a creation makes
    Token, Approval,  \* a token contract, the topic of another event
    Hash, Other,      \* hashes of the block and of another
    MaxDigit          \* hex digits of the enumerated quantities

VARIABLES request, reply

Accounts == {A, B, C}

\* The claims made false.
Faults ==
    {"height", "hashes", "parent", "tx order", "tx block", "tx twice", "count", "receipt order",
     "receipt block", "receipt number", "sender", "recipient", "status", "contract", "no contract",
     "gas", "fee", "log block", "log owner", "removed", "odd data", "log twice"}

-----------------------------------------------------------------------------
\* What a block did, and how a node tells it.

\* What one call did to a token, or an event that is no ERC-20 transfer.
Op == {[op |-> "move", from |-> A, to |-> B, amount |-> 5], [op |-> "move", from |-> B, to |-> A, amount |-> 7],
       [op |-> "mint", from |-> Zero, to |-> A, amount |-> 9], [op |-> "burn", from |-> B, to |-> Zero, amount |-> 4],
       [op |-> "nothing", from |-> Zero, to |-> Zero, amount |-> 6],
       [op |-> "approval", from |-> A, to |-> B, amount |-> 8], [op |-> "nft", from |-> A, to |-> B, amount |-> 8],
       [op |-> "wide", from |-> A, to |-> B, amount |-> 8], [op |-> "dirty", from |-> A, to |-> B, amount |-> 8]}

Effective == {"move", "mint", "burn"}

\* Two events only occur together as a transfer after any event.
OpSeqs == {<<>>} \cup {<<o>> : o \in Op} \cup {<<o, [op |-> "move", from |-> A, to |-> B, amount |-> 5]>> : o \in Op}

Calls == {e \in [from : {A, B}, to : {A, B, None}, value : {0, 3}, ok : BOOLEAN, ops : OpSeqs] :
            ~e.ok => e.ops = <<>>}

Quantity(n) == [prefixed |-> TRUE, digits |-> <<n>>]

LogOf(o, e, i, index) ==
    LET word(x) == [high |-> IF o.op = "dirty" THEN 1 ELSE 0, low |-> x]
        signature == IF o.op = "approval" THEN Approval ELSE Transfer
    IN  [address |-> Token, index |-> index, removed |-> FALSE, blockHash |-> Hash, blockNumber |-> 1,
         txHash |-> i, txIndex |-> i - 1,
         topics |-> <<signature, word(o.from), word(o.to)>> \o (IF o.op = "nft" THEN <<word(o.amount)>> ELSE <<>>),
         data |-> [prefixed |-> TRUE,
                   digits |-> CASE o.op = "nft" -> <<>> [] o.op = "wide" -> <<0, 0, 0, o.amount>>
                                [] OTHER -> <<0, o.amount>>]]

Created(e) == IF e.to = None /\ e.ok THEN C ELSE None

RawTx(e, i) ==
    [hash |-> i, from |-> e.from, to |-> e.to, value |-> Quantity(e.value), index |-> i - 1,
     blockHash |-> Hash, blockNumber |-> 1]

RawReceipt(es, i) ==
    LET e == es[i]
        before == IF i = 1 THEN 0 ELSE Len(es[1].ops)
    IN  [txHash |-> i, index |-> i - 1, blockHash |-> Hash, blockNumber |-> 1, from |-> e.from, to |-> e.to,
         status |-> IF e.ok THEN 1 ELSE 0, gasUsed |-> Quantity(2), gasPrice |-> Quantity(i + 2),
         contract |-> Created(e),
         logs |-> [j \in DOMAIN e.ops |-> LogOf(e.ops[j], e, i, before + j - 1)]]

RawBlock(es) ==
    [raw |-> [number |-> 1, hash |-> Hash, parentHash |-> Other, full |-> TRUE,
              tx |-> [i \in DOMAIN es |-> RawTx(es[i], i)]],
     receipts |-> [i \in DOMAIN es |-> RawReceipt(es, i)],
     reference |-> [height |-> 1, hash |-> Hash, parent |-> [position |-> 0, hash |-> Other]]]

\* The block with one claim made false.
Falsified(b, fault) ==
    CASE fault = "height" -> [b EXCEPT !.raw.number = 2]
      [] fault = "hashes" -> [b EXCEPT !.raw.full = FALSE]
      [] fault = "parent" -> [b EXCEPT !.raw.parentHash = Hash]
      [] fault = "tx order" -> [b EXCEPT !.raw.tx = Reverse(@)]
      [] fault = "tx block" -> [b EXCEPT !.raw.tx[2].blockHash = Other]
      [] fault = "tx twice" -> [b EXCEPT !.raw.tx[2].hash = 1, !.receipts[2].txHash = 1, !.receipts[2].logs = <<>>]
      [] fault = "count" -> [b EXCEPT !.receipts = Front(@)]
      [] fault = "receipt order" -> [b EXCEPT !.receipts = Reverse(@)]
      [] fault = "receipt block" -> [b EXCEPT !.receipts[2].blockHash = Other]
      [] fault = "receipt number" -> [b EXCEPT !.receipts[1].blockNumber = 2]
      [] fault = "sender" -> [b EXCEPT !.receipts[1].from = C]
      [] fault = "recipient" -> [b EXCEPT !.receipts[1].to = C]
      [] fault = "status" -> [b EXCEPT !.receipts[1].status = 2]
      [] fault = "contract" -> [b EXCEPT !.receipts[1].contract = C]
      [] fault = "no contract" -> [b EXCEPT !.receipts[2].contract = None]
      [] fault = "gas" -> [b EXCEPT !.receipts[1].gasUsed.digits = <<1, 0>>]
      [] fault = "fee" -> [b EXCEPT !.receipts[1].gasPrice.digits = <<15, 15>>]
      [] fault = "log block" -> [b EXCEPT !.receipts[1].logs[1].blockHash = Other]
      [] fault = "log owner" -> [b EXCEPT !.receipts[1].logs[1].txHash = 2]
      [] fault = "removed" -> [b EXCEPT !.receipts[1].logs[1].removed = TRUE]
      [] fault = "odd data" -> [b EXCEPT !.receipts[1].logs[1].data.digits = <<5>>]
      [] fault = "log twice" -> [b EXCEPT !.receipts[2].logs[1].index = 0]
      [] fault = "none" -> b

\* The block the faults are put in: a transfer with an event, then a creation with one.
Witness ==
    LET move == [op |-> "move", from |-> A, to |-> B, amount |-> 5]
    IN  <<[from |-> A, to |-> B, value |-> 3, ok |-> TRUE, ops |-> <<move>>],
          [from |-> B, to |-> None, value |-> 3, ok |-> TRUE, ops |-> <<move>>]>>

Filter(text) == [scope |-> Scope, value |-> text]

FilterSeqs ==
    {<<Filter("a")>>, <<Filter("c"), Filter("b")>>, <<Filter("c")>>,
     <<Filter("a"), Filter("bad")>>, <<[scope |-> None, value |-> "a"], Filter("a")>>}

GoodFilters(fs) == \A i \in DOMAIN fs : fs[i].scope = Scope /\ ParsedText[fs[i].value] # Error

Quantities ==
    [prefixed : BOOLEAN, digits : UNION {[1..n -> {0, 1, MaxDigit}] : n \in 0..3}]

Init ==
    /\ \/ \E e \in Calls, f \in FilterSeqs :
            request = [op |-> "block", calls |-> <<e>>, fault |-> "none", filters |-> f]
       \/ \E e1 \in Calls, e2 \in {c \in Calls : c.value = 0 \/ c.ops = <<>>}, f \in FilterSeqs :
            request = [op |-> "block", calls |-> <<e1, e2>>, fault |-> "none", filters |-> f]
       \/ \E x \in Faults, f \in FilterSeqs :
            request = [op |-> "block", calls |-> Witness, fault |-> x, filters |-> f]
       \/ \E q \in Quantities : request = [op |-> "quantity", text |-> q]
    /\ reply = None

Answer ==
    /\ reply = None
    /\ reply' = IF request.op = "quantity" THEN [value |-> ParseQuantity(request.text)]
                ELSE [value |-> Inspect(Falsified(RawBlock(request.calls), request.fault), request.filters)]
    /\ UNCHANGED request

Done == reply # None /\ UNCHANGED <<request, reply>>

Next == Answer \/ Done

Spec == Init /\ [][Next]_<<request, reply>>

-----------------------------------------------------------------------------
Answered(op) == request.op = op /\ reply # None

\* An answered block, told truly, with filters of this scope.
Honest == Answered("block") /\ request.fault = "none" /\ GoodFilters(request.filters)

Registered == {ParsedText[request.filters[i].value] : i \in DOMAIN request.filters}

\* What a call did to the balance of `a` in an asset; a reverted call only pays its fee.
Effect(e, a, asset) ==
    LET credit(x) == IF x.to = a THEN x.amount ELSE 0
        debit(x) == IF x.from = a THEN x.amount ELSE 0
        native == IF ~e.ok THEN 0
                  ELSE (IF a = (IF e.to = None THEN C ELSE e.to) THEN e.value ELSE 0)
                       - (IF a = e.from THEN e.value ELSE 0)
        token == FoldLeft(LAMBDA n, o : IF o.op \in Effective THEN n + credit(o) - debit(o) ELSE n, 0, e.ops)
    IN  IF asset = Native THEN native ELSE token

\* What the drafts say happened to it.
Reported(drafts, a, asset) ==
    LET signed(m) == IF m.asset # asset THEN 0
                     ELSE (IF m.to = a THEN m.amount ELSE 0) - (IF m.from = a THEN m.amount ELSE 0)
        of(d) == FoldLeft(LAMBDA n, m : n + signed(m), 0, d.movements)
    IN  FoldLeft(LAMBDA n, d : n + of(d), 0, drafts)

\* Whatever a block did to the balance of a registered address, in the native asset or in a
\* token, is what its drafts say: nothing of a reverted call, of an event that is not
\* exactly an ERC-20 transfer, or counted twice (Movements::successful, ParsedLog::movement).
BalancesFollowExecution ==
    Honest => \A a \in Registered, asset \in {Native, Token} :
        Reported(reply.value, a, asset)
          = FoldLeft(LAMBDA n, e : n + Effect(e, a, asset), 0, request.calls)

\* The calls with a registered sender, recipient, created contract or token party, in block
\* order, are the drafts, each with the fee its sender paid whether or not it was reverted.
PartiesAreTold ==
    LET party(e) == {e.from, e.to, Created(e)}
                    \cup UNION {{o.from, o.to} : o \in {x \in Range(e.ops) : x.op \in Effective}}
        told == SelectSeq([i \in DOMAIN request.calls |-> i], LAMBDA i :
                    party(request.calls[i]) \cap Registered # {})
    IN  Honest =>
          [k \in DOMAIN reply.value |->
              <<reply.value[k].id, reply.value[k].failed, reply.value[k].fee.payer, reply.value[k].fee.amount>>]
          = [k \in DOMAIN told |-> <<told[k], ~request.calls[told[k]].ok, request.calls[told[k]].from,
                                     2 * (told[k] + 2)>>]

\* No two movements of a block have one id, so the store never takes one for the other.
MovementIdsAreDistinct ==
    Honest =>
      LET ms == FlattenSeq([k \in DOMAIN reply.value |-> reply.value[k].movements])
      IN  \A i, j \in DOMAIN ms : ms[i].id = ms[j].id => i = j

\* A block is refused whole when one claim of its transactions, receipts or logs disagrees
\* with the block they are in: receipts of a competing block, of another transaction, out
\* of order, removed, or with a log of another receipt.
FalseClaimsAreRefused ==
    Answered("block") /\ request.fault # "none" => reply.value = Error

\* A quantity has one spelling: two texts are never read as one number, and every number of
\* at most 256 bits has its text.
OneSpelling ==
    Answered("quantity") =>
      LET q == request.text
          canonical == q.prefixed /\ q.digits # <<>> /\ (q.digits[1] = 0 => Len(q.digits) = 1)
                       /\ HexValue(q.digits) <= MaxU256
      IN  IF canonical THEN reply.value = HexValue(q.digits) ELSE reply.value = Error
=============================================================================
