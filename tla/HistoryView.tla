---------------------------- MODULE HistoryView ----------------------------
(***************************************************************************)
(* What a client of the API sees of a wallet's history.  A draft that an   *)
(* interpreter made is checked, stored as PostgreSQL rows or as redb       *)
(* records, listed in pages, given its confirmations, resolved to the      *)
(* assets of the wallet and written out.  The client follows the cursors   *)
(* while blocks are added and removed.                                     *)
(*                                                                         *)
(* The hash of a block stands for everything up to it: it is the sequence  *)
(* of the drafts of the blocks.  Transaction identifiers are numbers, in   *)
(* the order of their texts, 0 for the empty one.  How the stores keep     *)
(* rows in step with the checkpoint is the subject of Repository and       *)
(* RedbRepository; here a repository holds the rows of the blocks it has   *)
(* applied.                                                                *)
(***************************************************************************)
EXTENDS Decimals

CONSTANTS
    None,
    Conflict,        \* the answer to a cursor of another checkpoint
    MaxHeight,       \* bound: height of the last block
    Confirmations,   \* minimum_confirmations of the index
    MaxPage,         \* largest page
    Backend          \* "postgres", "redb"

\* A step that goes on with a value and passes an error or a conflict on.
Try(value, Then(_)) == IF value \in {Error, Conflict} THEN value ELSE Then(value)

-----------------------------------------------------------------------------
(***************************************************************************)
(* HistoryView for one index of each chain: blocks of one or two drafts of *)
(* every shape, among them drafts the index must refuse.                   *)
(***************************************************************************)

ScopeOf(name) == [chain |-> name, network |-> "main"]
Homes == {ScopeOf("bitcoin"), ScopeOf("ethereum"), ScopeOf("solana")}

Owner(s, name) == [scope |-> s, value |-> name]
AssetOn(name, asset) == [chain |-> name, asset |-> asset]
Amount(n) == [coefficient |-> n, scale |-> 0]

Move(s, kind, id, asset, n, ends) ==
    [kind |-> kind, id |-> id, asset |-> AssetOn(s.chain, asset), amount |-> Normalize(n, 0),
     ends |-> ends]

FeeOf(s, payer) == [asset |-> AssetOn(s.chain, "native"), amount |-> Amount(7), payer |-> payer]

Draft(s, id, status, movements, fee) ==
    [scope |-> s, id |-> [scope |-> s, value |-> id], status |-> status,
     reason |-> None, movements |-> movements, fee |-> fee]

\* Movements in and out of the wallet W, one between strangers, outputs of no owner.
Shapes(s, id) ==
    LET w == Owner(s, "W")
        x == Owner(s, "X")
        Included(ms, fee) == Draft(s, id, "included", ms, fee)
        failed == {Draft(s, id, "failed", <<>>, FeeOf(s, w)),
                   [Draft(s, id, "failed", <<>>, FeeOf(s, w)) EXCEPT !.reason = "reverted"]}
    IN  CASE s.chain = "bitcoin" ->
               {Included(<<Move(s, "Input", "i0", "native", 120, <<w>>),
                           Move(s, "Output", "o0", "native", 100, <<x>>),
                           Move(s, "Output", "o1", "native", 13, <<None>>)>>, FeeOf(s, None)),
                Included(<<Move(s, "Input", "i0", "native", 0, <<None>>),
                           Move(s, "Output", "o0", "native", 50, <<w>>)>>, None)}
          [] s.chain = "ethereum" ->
               {Included(<<Move(s, "Transfer", "m0", "native", 5, <<w, x>>),
                           Move(s, "Transfer", "m1", "T", 1200, <<x, w>>)>>, FeeOf(s, w)),
                Included(<<Move(s, "Mint", "m0", "T", 30, <<w>>),
                           Move(s, "Burn", "m1", "U", 40, <<w>>)>>, FeeOf(s, x))} \cup failed
          [] s.chain = "solana" ->
               {Included(<<Move(s, "Transfer", "m0", "native", 9000, <<x, w>>)>>, FeeOf(s, x))}
               \cup failed

\* Drafts no interpreter should make.
Broken(s, id) ==
    LET w == Owner(s, "W")
        away == Owner([s EXCEPT !.network = "test"], "W")
        Included(m, fee) == Draft(s, id, "included", <<m>>, fee)
        good == Move(s, "Output", "m", "native", 1, <<w>>)
    IN  {Included(good, [FeeOf(s, w) EXCEPT !.asset.chain = "other"]),
         Included(good, [FeeOf(s, w) EXCEPT !.payer = away]),
         Included([good EXCEPT !.amount = Amount(-1)], None),
         Included([good EXCEPT !.ends = <<away>>], None),
         Included([good EXCEPT !.asset.chain = "other"], None),
         Draft(s, id, "failed", <<good>>, None),
         Draft(s, id, "included", <<good, good>>, None),
         [Draft(s, id, "included", <<good>>, None) EXCEPT !.scope.network = "test"]}

DraftLists ==
    [s \in Homes |->
        <<{<<d>> : d \in Shapes(s, 1) \cup Broken(s, 1)}
          \cup {<<d, e>> : d \in Shapes(s, 1) \cup Shapes(s, 2), e \in Shapes(s, 1)},
          {<<d>> : d \in Shapes(s, 1) \cup Shapes(s, 3)}, {}>>]

Wallet ==
    [s \in Homes |->
        IF s.chain = "ethereum"
        THEN {[address |-> Owner(s, "W"), asset |-> "native", decimals |-> 2],
              [address |-> Owner(s, "W"), asset |-> "T", decimals |-> 3]}
        ELSE {[address |-> Owner(s, "W"), asset |-> "native", decimals |-> 1]}]

-----------------------------------------------------------------------------
VARIABLES
    home,      \* the scope of the index and of its wallets
    chain,     \* the drafts of the applied blocks, block by block
    reader     \* the client: its wallet, its next cursor and what it was shown

vars == <<home, chain, reader>>

\* The reference of the last block of a chain; every other block is a slot later.
BlockOf(c) ==
    [position |-> 2 * Len(c), height |-> Len(c), hash |-> c, timestamp |-> None,
     parent |-> IF Len(c) = 1 THEN None
                ELSE [position |-> 2 * Len(c) - 2, hash |-> Front(c)]]

Checkpoint == IF chain = <<>> THEN None ELSE BlockOf(chain)

Belongs(address, scope) == address = None \/ address.scope = scope

-----------------------------------------------------------------------------
\* Movements: a kind and its endpoints.

From(m) == IF m.kind \in {"Transfer", "Burn", "Input"} THEN m.ends[1] ELSE None

To(m) ==
    CASE m.kind = "Transfer" -> m.ends[2]
      [] m.kind \in {"Mint", "Output"} -> m.ends[1]
      [] OTHER -> None

Addresses(tx) ==
    ({From(m) : m \in ToSet(tx.movements)} \cup {To(m) : m \in ToSet(tx.movements)}
     \cup (IF tx.fee = None THEN {} ELSE {tx.fee.payer})) \ {None}

InvalidMovement(ms, i, scope) ==
    LET m == ms[i]
    IN  \/ m.id = ""
        \/ \E j \in 1..(i - 1) : ms[j].id = m.id
        \/ m.asset.chain # scope.chain
        \/ ~ValidateAmount(m.amount)
        \/ ~Belongs(From(m), scope) \/ ~Belongs(To(m), scope)

InvalidFee(fee, scope) ==
    /\ fee # None
    /\ \/ fee.asset.chain # scope.chain
       \/ ~ValidateAmount(fee.amount)
       \/ ~Belongs(fee.payer, scope)

\* What the index accepts of a draft.
Canonical(draft, scope, block) ==
    IF draft.scope # scope \/ draft.id.scope # scope THEN Error
    ELSE IF draft.status = "failed" /\ draft.movements # <<>> THEN Error
    ELSE IF \E i \in DOMAIN draft.movements : InvalidMovement(draft.movements, i, scope) THEN Error
    ELSE IF InvalidFee(draft.fee, scope) THEN Error
    ELSE [scope |-> scope, id |-> draft.id, status |-> draft.status, reason |-> draft.reason,
          block |-> block, movements |-> draft.movements, fee |-> draft.fee]

\* The transactions of the block at height h, as they were accepted.
Accepted(h) ==
    [i \in DOMAIN chain[h] |-> Canonical(chain[h][i], home, BlockOf(SubSeq(chain, 1, h)))]

Addition(drafts) ==
    LET txs == [i \in DOMAIN drafts |-> Canonical(drafts[i], home, BlockOf(Append(chain, drafts)))]
        distinct == \A i, j \in DOMAIN drafts : drafts[i].id = drafts[j].id => i = j
    IN  IF distinct /\ Error \notin ToSet(txs) THEN txs ELSE Error

Applied == UNION {ToSet(Accepted(h)) : h \in 1..Len(chain)}

-----------------------------------------------------------------------------
\* PostgreSQL: one history row and the movement rows for each address.

Text(value) == IF value = None THEN None ELSE value.value

HistoryRow(tx, address) ==
    [address |-> address.value, height |-> tx.block.height, transaction_id |-> tx.id.value,
     status |-> tx.status, failure_reason |-> IF tx.status = "failed" THEN tx.reason ELSE None,
     position |-> tx.block.position, hash |-> tx.block.hash, timestamp |-> tx.block.timestamp,
     parent_position |-> IF tx.block.parent = None THEN None ELSE tx.block.parent.position,
     parent |-> IF tx.block.parent = None THEN None ELSE tx.block.parent.hash,
     fee_asset |-> IF tx.fee = None THEN None ELSE tx.fee.asset.asset,
     fee_amount |-> IF tx.fee = None THEN None ELSE Display(tx.fee.amount),
     fee_payer |-> IF tx.fee = None THEN None ELSE Text(tx.fee.payer)]

MovementRow(tx, address, i) ==
    LET m == tx.movements[i]
    IN  [address |-> address.value, height |-> tx.block.height, transaction_id |-> tx.id.value,
         ordinal |-> i - 1, kind |-> m.kind, movement_id |-> m.id,
         asset_chain |-> m.asset.chain, asset |-> m.asset.asset, amount |-> Display(m.amount),
         from_address |-> Text(From(m)), to_address |-> Text(To(m))]

HistoryRows == UNION {{HistoryRow(tx, a) : a \in Addresses(tx)} : tx \in Applied}

MovementRows ==
    UNION {{MovementRow(tx, a, i) : a \in Addresses(tx), i \in DOMAIN tx.movements}
           : tx \in Applied}

Key(r) == <<r.height, r.transaction_id>>
KeyLess(k, l) == k[1] < l[1] \/ (k[1] = l[1] /\ k[2] < l[2])

\* The elements of S in the order of their rank among the others.
Ordered(S, Less(_, _)) ==
    [i \in 1..Cardinality(S) |->
        CHOOSE x \in S : Cardinality({y \in S : Less(y, x)}) = i - 1]

AddressOf(text) == IF text = None THEN None ELSE [scope |-> home, value |-> text]

\* An amount that is read back must be canonical text.
StoredAmount(text) == IF Display(Parse(text)) = text THEN Parse(text) ELSE Error

RowBlock(r) ==
    [position |-> r.position, height |-> r.height, hash |-> r.hash, timestamp |-> r.timestamp,
     parent |-> IF r.parent_position = None /\ r.parent = None THEN None
                ELSE IF r.parent_position = None \/ r.parent = None THEN Error
                ELSE [position |-> r.parent_position, hash |-> r.parent]]

\* An endpoint that the kind requires and the row lacks is a store error.
RowMovement(r) ==
    LET from == AddressOf(r.from_address)
        to == AddressOf(r.to_address)
        ends == CASE r.kind = "Transfer" -> <<from, to>>
                  [] r.kind \in {"Input", "Burn"} -> <<from>>
                  [] r.kind \in {"Output", "Mint"} -> <<to>>
        amount == StoredAmount(r.amount)
    IN  IF amount = Error \/ (r.kind \in {"Transfer", "Burn", "Mint"} /\ None \in ToSet(ends))
        THEN Error
        ELSE [kind |-> r.kind, id |-> r.movement_id, amount |-> amount, ends |-> ends,
              asset |-> [chain |-> r.asset_chain, asset |-> r.asset]]

RowTransaction(r, movements) ==
    LET block == RowBlock(r)
        amount == IF r.fee_amount = None THEN None ELSE StoredAmount(r.fee_amount)
    IN  IF block.parent = Error \/ Error \in ToSet(movements) \/ amount = Error THEN Error
        ELSE [scope |-> home, id |-> [scope |-> home, value |-> r.transaction_id],
              status |-> r.status, reason |-> r.failure_reason, block |-> block,
              movements |-> movements,
              fee |-> IF r.fee_asset = None \/ r.fee_amount = None THEN None
                      ELSE [asset |-> [chain |-> home.chain, asset |-> r.fee_asset],
                            amount |-> amount, payer |-> AddressOf(r.fee_payer)]]

\* One query for the movements between the first and the last row of the page,
\* grouped by height and transaction in the order of the ordinals.
PageMovements(address, rows, r) ==
    LET first == Key(rows[1])
        last == Key(Last(rows))
        range == {m \in MovementRows : /\ m.address = address.value
                                       /\ ~KeyLess(Key(m), first) /\ ~KeyLess(last, Key(m))}
        mine == {m \in range : Key(m) = Key(r)}
        sorted == Ordered(mine, LAMBDA m, n : m.ordinal < n.ordinal)
    IN  [i \in DOMAIN sorted |-> RowMovement(sorted[i])]

\* Up to `limit` rows after the cursor, the next cursor when there are more.
Page(transactions, more) ==
    IF Error \in ToSet(transactions) THEN Error
    ELSE [checkpoint |-> Checkpoint, transactions |-> transactions,
          next |-> IF ~more \/ transactions = <<>> THEN None
                   ELSE [checkpoint |-> Checkpoint, id |-> Last(transactions).id,
                         height |-> Last(transactions).block.height]]

Take(s, n) == SubSeq(s, 1, IF Len(s) < n THEN Len(s) ELSE n)

ListPostgres(query) ==
    LET after == IF query.after = None THEN <<-1, 0>>
                 ELSE <<query.after.height, query.after.id.value>>
        found == Take(Ordered({r \in HistoryRows : /\ r.address = query.address.value
                                                   /\ KeyLess(after, Key(r))},
                              LAMBDA r, s : KeyLess(Key(r), Key(s))), query.limit + 1)
        rows == Take(found, query.limit)
    IN  Page([i \in DOMAIN rows |->
                 RowTransaction(rows[i], PageMovements(query.address, rows, rows[i]))],
             Len(found) > query.limit)

-----------------------------------------------------------------------------
\* redb: one record under each address, height and transaction.

\* A record spells the scope of an address or a transaction out.
AddressRecord(a) == IF a = None THEN None ELSE [chain |-> a.scope.chain, network |-> a.scope.network, value |-> a.value]
RecordAddress(r) == IF r = None THEN None ELSE [scope |-> [chain |-> r.chain, network |-> r.network], value |-> r.value]

TransactionIdentity(id) == [chain |-> id.scope.chain, network |-> id.scope.network, value |-> id.value]
IdentityTransaction(r) == [scope |-> [chain |-> r.chain, network |-> r.network], value |-> r.value]

AssetRecord(asset) == [chain |-> asset.chain, value |-> asset.asset]
RecordAsset(r) == [chain |-> r.chain, asset |-> r.value]

BlockRecord(b) == [position |-> b.position, height |-> b.height, hash |-> b.hash, parent |-> b.parent, timestamp |-> b.timestamp]
RecordBlock(r) == [position |-> r.position, height |-> r.height, hash |-> r.hash, parent |-> r.parent, timestamp |-> r.timestamp]

FeeRecord(fee) == [asset |-> AssetRecord(fee.asset), amount |-> Display(fee.amount), payer |-> AddressRecord(fee.payer)]

RecordFee(r) ==
    Try(DecodeStored(r.amount), LAMBDA amount :
        [asset |-> RecordAsset(r.asset), amount |-> amount, payer |-> RecordAddress(r.payer)])

\* Included(block) or Failed(block, reason).
StatusRecord(tx) ==
    IF tx.status = "failed" THEN <<"failed", BlockRecord(tx.block), tx.reason>> ELSE <<"included", BlockRecord(tx.block)>>

MovementRecord(m) ==
    [kind |-> m.kind, id |-> m.id, asset |-> AssetRecord(m.asset), amount |-> Display(m.amount),
     from |-> AddressRecord(From(m)), to |-> AddressRecord(To(m))]

\* The shape must be one that the kind can have.
RecordMovement(r) ==
    LET fits == CASE r.kind = "Transfer" -> r.from # None /\ r.to # None
                  [] r.kind = "Input" -> r.to = None
                  [] r.kind = "Output" -> r.from = None
                  [] r.kind = "Mint" -> r.from = None /\ r.to # None
                  [] r.kind = "Burn" -> r.from # None /\ r.to = None
        ends == CASE r.kind = "Transfer" -> <<RecordAddress(r.from), RecordAddress(r.to)>>
                  [] r.kind \in {"Input", "Burn"} -> <<RecordAddress(r.from)>>
                  [] OTHER -> <<RecordAddress(r.to)>>
    IN  Try(DecodeStored(r.amount), LAMBDA amount :
            IF ~fits THEN Error
            ELSE [kind |-> r.kind, id |-> r.id, asset |-> RecordAsset(r.asset),
                  amount |-> amount, ends |-> ends])

TransactionRecord(tx) ==
    [id |-> TransactionIdentity(tx.id), status |-> StatusRecord(tx),
     movements |-> [i \in DOMAIN tx.movements |-> MovementRecord(tx.movements[i])],
     fee |-> IF tx.fee = None THEN None ELSE FeeRecord(tx.fee)]

RecordTransaction(r) ==
    LET movements == [i \in DOMAIN r.movements |-> RecordMovement(r.movements[i])]
        fee == IF r.fee = None THEN None ELSE RecordFee(r.fee)
        id == IdentityTransaction(r.id)
    IN  IF Error \in ToSet(movements) \/ fee = Error THEN Error
        ELSE [scope |-> id.scope, id |-> id, status |-> r.status[1],
              reason |-> IF r.status[1] = "failed" THEN r.status[3] ELSE None,
              block |-> RecordBlock(r.status[2]), movements |-> movements, fee |-> fee]

RecordKey(r) == <<r.status[2].height, r.id.value>>

ListRedb(query) ==
    LET after == IF query.after = None THEN <<-1, 0>>
                 ELSE <<query.after.height, query.after.id.value>>
        mine == {TransactionRecord(tx) : tx \in {t \in Applied : query.address \in Addresses(t)}}
        found == Ordered({r \in mine : KeyLess(after, RecordKey(r))},
                         LAMBDA r, s : KeyLess(RecordKey(r), RecordKey(s)))
        page == Take(found, query.limit)
    IN  Page([i \in DOMAIN page |-> RecordTransaction(page[i])], Len(found) > query.limit)

-----------------------------------------------------------------------------
\* The index: confirmations as of the checkpoint of the page.

ObserveStatus(tx, checkpoint) ==
    IF tx.status = "failed"
    THEN [kind |-> "failed", block |-> tx.block, reason |-> tx.reason]
    ELSE IF checkpoint = None \/ checkpoint.height < tx.block.height THEN Error
    ELSE LET n == checkpoint.height - tx.block.height + 1
         IN  [kind |-> IF n >= Confirmations THEN "confirmed" ELSE "included",
              block |-> tx.block, confirmations |-> n]

Observe(page) ==
    LET statuses == [i \in DOMAIN page.transactions |->
                        ObserveStatus(page.transactions[i], page.checkpoint)]
    IN  IF Error \in ToSet(statuses) THEN Error
        ELSE [page EXCEPT !.transactions = [i \in DOMAIN statuses |->
                 [scope |-> page.transactions[i].scope, id |-> page.transactions[i].id,
                  status |-> statuses[i], movements |-> page.transactions[i].movements,
                  fee |-> page.transactions[i].fee]]]

\* A cursor of another checkpoint is a conflict, found before and again after the
\* page is read; the two reads are one snapshot here.
IndexHistory(backend, query) ==
    IF query.after # None /\ query.after.checkpoint # Checkpoint THEN Conflict
    ELSE Try(IF backend = "postgres" THEN ListPostgres(query) ELSE ListRedb(query), Observe)

-----------------------------------------------------------------------------
\* The wallet: its asset metadata, its amounts, and for Ethereum its selection.

\* The decimals the wallet shows an asset with: those it knows, and none for a
\* token that is not its own.
EthereumAsset(wallet, asset) ==
    IF asset.chain # "ethereum" THEN Error
    ELSE IF asset.asset = "native" THEN 2
    ELSE IF asset.asset = wallet.asset THEN wallet.decimals ELSE 0

BitcoinAsset(wallet, asset) ==
    IF asset.chain # "bitcoin" \/ asset.asset # "native" THEN Error ELSE 1

SolanaAsset(wallet, asset) ==
    IF asset.chain # "solana" \/ asset.asset # "native" THEN Error ELSE 3

Resolve(wallet, asset) ==
    CASE home.chain = "ethereum" -> EthereumAsset(wallet, asset)
      [] home.chain = "bitcoin" -> BitcoinAsset(wallet, asset)
      [] home.chain = "solana" -> SolanaAsset(wallet, asset)

DisplayAmount(amount, decimals) ==
    LET units == ToAtomic(amount, 0)
    IN  IF units = Error THEN Error ELSE FromAtomic(units, decimals)

HistoryMovement(wallet, m) ==
    LET decimals == Resolve(wallet, m.asset)
        amount == IF decimals = Error THEN Error ELSE DisplayAmount(m.amount, decimals)
    IN  IF \/ m.asset.chain # home.chain
           \/ ~Belongs(From(m), home) \/ ~Belongs(To(m), home)
           \/ amount = Error
        THEN Error
        ELSE [id |-> m.id, kind |-> m.kind, asset |-> m.asset, decimals |-> decimals,
              amount |-> amount, from |-> From(m), to |-> To(m)]

HistoryFee(wallet, fee) ==
    IF fee = None THEN None
    ELSE LET decimals == Resolve(wallet, fee.asset)
             amount == IF decimals = Error THEN Error ELSE DisplayAmount(fee.amount, decimals)
         IN  IF fee.asset.chain # home.chain \/ ~Belongs(fee.payer, home) \/ amount = Error
             THEN Error
             ELSE [asset |-> fee.asset, decimals |-> decimals, amount |-> amount,
                   payer |-> fee.payer]

\* HistoryStatus keeps the block, and the confirmations or the reason.
HistoryStatus(status) ==
    IF status.kind = "failed" THEN [kind |-> "failed", block |-> status.block, reason |-> status.reason]
    ELSE [kind |-> status.kind, block |-> status.block, confirmations |-> status.confirmations]

HistoryEntry(wallet, tx) ==
    LET movements == [i \in DOMAIN tx.movements |-> HistoryMovement(wallet, tx.movements[i])]
        fee == HistoryFee(wallet, tx.fee)
    IN  IF tx.scope # home \/ tx.id.scope # home \/ Error \in ToSet(movements) \/ fee = Error
        THEN Error
        ELSE [id |-> tx.id, status |-> HistoryStatus(tx.status), movements |-> movements, fee |-> fee]

Selects(wallet, asset) == asset.chain = home.chain /\ asset.asset = wallet.asset

\* The movements of the wallet's asset, and the failures it paid for.
SelectedHistory(wallet, entries) ==
    LET Select(e) == [e EXCEPT !.movements =
                         SelectSeq(e.movements, LAMBDA m : Selects(wallet, m.asset))]
        Keep(e) == \/ e.movements # <<>>
                   \/ e.status.kind = "failed" /\ e.fee # None /\ e.fee.payer = wallet.address
    IN  IF \E e \in ToSet(entries) : e.fee # None /\ e.fee.asset.asset # "native" THEN Error
        ELSE SelectSeq([i \in DOMAIN entries |-> Select(entries[i])], Keep)

FromIndex(wallet, page) ==
    LET entries == [i \in DOMAIN page.transactions |->
                       HistoryEntry(wallet, page.transactions[i])]
        selected == IF home.chain = "ethereum" THEN SelectedHistory(wallet, entries)
                    ELSE entries
    IN  IF \/ page.next # None /\ page.next.id.scope # home
           \/ Error \in ToSet(entries)
           \/ selected = Error
        THEN Error
        ELSE [checkpoint |-> page.checkpoint, transactions |-> selected, next |-> page.next]

-----------------------------------------------------------------------------
\* The API: cursors and amounts as text.

EncodeCursor(c) ==
    [chain |-> c.id.scope.chain, network |-> c.id.scope.network, transaction |-> c.id.value,
     height |-> c.height,
     checkpoint |-> IF c.checkpoint = None THEN None
                    ELSE [block |-> [position |-> c.checkpoint.position,
                                     height |-> c.checkpoint.height,
                                     hash |-> c.checkpoint.hash,
                                     parent |-> c.checkpoint.parent],
                          timestamp |-> c.checkpoint.timestamp]]

DecodeCursor(t) ==
    IF t.chain = "" \/ t.network = "" \/ t.transaction = 0 THEN Error
    ELSE [id |-> [scope |-> [chain |-> t.chain, network |-> t.network], value |-> t.transaction],
          height |-> t.height,
          checkpoint |-> IF t.checkpoint = None THEN None
                         ELSE LET b == t.checkpoint.block
                              IN  [position |-> b.position, height |-> b.height, hash |-> b.hash,
                                   parent |-> b.parent, timestamp |-> t.checkpoint.timestamp]]

Written(e) ==
    [e EXCEPT !.movements = [i \in DOMAIN e.movements |->
                                [e.movements[i] EXCEPT !.amount = Display(@)]],
              !.fee = IF @ = None THEN None ELSE [@ EXCEPT !.amount = Display(@)]]

TransactionPage(history) ==
    [checkpoint |-> history.checkpoint,
     transactions |-> [i \in DOMAIN history.transactions |-> Written(history.transactions[i])],
     next |-> IF history.next = None THEN None ELSE EncodeCursor(history.next)]

\* GET /v1/wallets/{id}/transactions: a page, a conflict or an error.
Read(wallet, backend, cursor, limit) ==
    Try(IF cursor = None THEN None ELSE DecodeCursor(cursor), LAMBDA after :
    Try(IndexHistory(backend, [address |-> wallet.address, after |-> after, limit |-> limit]),
        LAMBDA page : Try(FromIndex(wallet, page), TransactionPage)))

-----------------------------------------------------------------------------

Begin(wallet, backend) ==
    [wallet |-> wallet, backend |-> backend, state |-> "reading", cursor |-> None,
     shown |-> <<>>, at |-> None]

Init ==
    /\ home \in Homes
    /\ chain = <<>>
    /\ reader \in {Begin(w, b) : w \in Wallet[home], b \in Backend}

\* A block whose drafts are all accepted is applied; any other is refused.
Add(drafts) ==
    /\ Len(chain) < MaxHeight
    /\ Addition(drafts) # Error
    /\ chain' = Append(chain, drafts)
    /\ UNCHANGED <<home, reader>>

RemoveTip ==
    /\ chain # <<>>
    /\ chain' = Front(chain)
    /\ UNCHANGED <<home, reader>>

\* The client asks for the next page; after a conflict it starts again.
Ask(limit) ==
    /\ reader.state = "reading"
    /\ \E answer \in {Read(reader.wallet, reader.backend, reader.cursor, limit)} :
          reader' =
             IF answer = Error THEN [reader EXCEPT !.state = "failed"]
             ELSE IF answer = Conflict THEN Begin(reader.wallet, reader.backend)
             ELSE [reader EXCEPT !.state = IF answer.next = None THEN "done" ELSE "reading",
                                 !.cursor = answer.next, !.at = answer.checkpoint,
                                 !.shown = @ \o answer.transactions]
    /\ UNCHANGED <<home, chain>>

Again ==
    /\ reader.state = "done"
    /\ reader' = Begin(reader.wallet, reader.backend)
    /\ UNCHANGED <<home, chain>>

Next ==
    \/ \E drafts \in DraftLists[home][Len(chain) + 1] : Add(drafts)
    \/ RemoveTip
    \/ \E limit \in 1..MaxPage : Ask(limit)
    \/ Again

Spec == Init /\ [][Next]_vars

-----------------------------------------------------------------------------

\* Every list of drafts the index accepted (observation.rs) can be listed from
\* either store, observed, resolved by the wallet and written out: no stored
\* transaction makes the pages of a wallet unreadable.
HistoryIsReadable == reader.state # "failed"

\* The drafts a wallet is told of, as places in the blocks up to checkpoint b: those
\* that touch its address and, on Ethereum, move its asset or failed at its cost.
Concerns(wallet, d) ==
    /\ wallet.address \in Addresses(d)
    /\ home.chain = "ethereum" =>
          \/ \E m \in ToSet(d.movements) : Selects(wallet, m.asset)
          \/ d.status = "failed" /\ d.fee # None /\ d.fee.payer = wallet.address

Told(wallet, b) ==
    LET blocks == IF b = None THEN <<>> ELSE b.hash
        places == UNION {{[height |-> h, draft |-> d] : d \in ToSet(blocks[h])}
                         : h \in DOMAIN blocks}
    IN  Ordered({p \in places : Concerns(wallet, p.draft)},
                LAMBDA p, q : KeyLess(<<p.height, p.draft.id.value>>,
                                      <<q.height, q.draft.id.value>>))

\* An amount is shown with the decimals of its asset, and means the atomic amount.
Means(text, decimals, amount) ==
    Parse(text) # Error /\ ToAtomic(Parse(text), decimals) = amount.coefficient

Shows(entry, d, h, wallet, b) ==
    LET wanted == SelectSeq(d.movements, LAMBDA m : home.chain = "ethereum" => Selects(wallet, m.asset))
    IN  /\ entry.id = d.id
        /\ entry.status.block = BlockOf(SubSeq(b.hash, 1, h))
        /\ IF d.status = "failed"
           THEN entry.status.kind = "failed" /\ entry.status.reason = d.reason
           ELSE /\ entry.status.confirmations = Cardinality(h..b.height)
                /\ entry.status.kind = "confirmed" <=> Cardinality(h..b.height) >= Confirmations
        /\ Len(entry.movements) = Len(wanted)
        /\ \A i \in DOMAIN wanted :
              LET shown == entry.movements[i]
                  m == wanted[i]
              IN  /\ <<shown.id, shown.kind, shown.asset>> = <<m.id, m.kind, m.asset>>
                  /\ <<shown.from, shown.to>> = <<From(m), To(m)>>
                  /\ Means(shown.amount, shown.decimals, m.amount)
        /\ entry.fee = None <=> d.fee = None
        /\ d.fee # None => /\ <<entry.fee.asset, entry.fee.payer>> = <<d.fee.asset, d.fee.payer>>
                           /\ Means(entry.fee.amount, entry.fee.decimals, d.fee.amount)

\* Following the cursors from a first page shows the whole history of one
\* checkpoint: every transaction the wallet is concerned by, once, in the order of
\* height and identifier, with its own movements in their order, its exact amounts,
\* its fee, and the confirmations and status it has at that checkpoint; whichever
\* store it was read from, and whatever blocks came and went in between.
PagesShowTheHistory ==
    LET told == Told(reader.wallet, reader.at)
    IN  /\ reader.state = "done" => Len(reader.shown) = Len(told)
        /\ Len(reader.shown) <= Len(told)
        /\ \A k \in DOMAIN reader.shown :
              Shows(reader.shown[k], told[k].draft, told[k].height, reader.wallet, reader.at)
=============================================================================
