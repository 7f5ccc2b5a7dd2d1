---------------------------- MODULE BitcoinSend -----------------------------
(***************************************************************************)
(* A Bitcoin wallet between the index and the node: it reads its spendable *)
(* outputs page by page while the index moves, asks the node for a fee     *)
(* rate, builds and signs, asks the node whether it would take the         *)
(* transaction, and hands it over.  A request is one transfer, a batch     *)
(* that becomes one transaction, or a balance.                             *)
(*                                                                         *)
(* The index is seen through Outputs::list: a page belongs to the tip that *)
(* is current when it is read, and a cursor of another tip is refused.     *)
(***************************************************************************)
EXTENDS BitcoinBuild

CONSTANTS
    NoTip,         \* the index has no checkpoint
    PageSize, CoinbaseMaturity, MaxTransfers,
    MaxRate, Rates \* the operator's ceiling, and what the node may estimate

-----------------------------------------------------------------------------
(* Two wallets, an index with a fork, pages shorter than a wallet.         *)

Addr(owner, script) == [owner |-> owner, script |-> script, net |-> ThisNet]
Alice == Addr("alice", "p2wpkh")
Bob   == Addr("bob", "p2tr")
Carol == Addr("carol", "p2wpkh")
Stray == [Carol EXCEPT !.net = "elsewhere"]

Tip(h, fork) == [height |-> h, fork |-> fork]
Tips == {Tip(1, "a"), Tip(2, "a"), Tip(2, "b"), Tip(3, "a")}

Coin(id, a, value, height, coinbase) ==
    [id |-> id, owner |-> a, value |-> value, height |-> height, coinbase |-> coinbase, script |-> a.script]

C1 == Coin(1, Alice, 729, 1, FALSE)
C2 == Coin(2, Alice, 404, 2, FALSE)
C3 == Coin(3, Alice, 800, 1, TRUE)
C4 == Coin(4, Bob, 900, 1, FALSE)
C5 == Coin(5, Bob, 729, 2, FALSE)
C6 == Coin(6, Alice, 1200, 2, FALSE)

Unspent ==
    [t \in Tips |->
        CASE t = Tip(1, "a") -> {C1, C3, C4}
          [] t = Tip(2, "a") -> {C1, C2, C3, C5}
          [] t = Tip(2, "b") -> {C3, C4, C6}
          [] t = Tip(3, "a") -> {C2, C3, C4}]

Send(a, b, amount) == [from |-> a, to |-> b, amount |-> amount]

Requests ==
    {[kind |-> "batch", transfers |-> ts] : ts \in
        {<<>>,
         <<Send(Alice, Carol, 294), Send(Bob, Carol, 330), Send(Alice, Carol, 294)>>,
         <<Send(Bob, Carol, 300), Send(Alice, Bob, 330)>>,
         <<Send(Alice, Carol, 294), Send(Bob, Stray, 330)>>,
         <<Send(Alice, Carol, 294), Send(Alice, Carol, 294), Send(Alice, Carol, 294), Send(Alice, Carol, 294)>>}}
    \cup {[kind |-> "single", transfers |-> <<Send(Alice, b, n)>>] :
            b \in {Carol, Stray}, n \in {0, 100, 500, 1000, U64Max + 1}}
    \cup {[kind |-> "balance", transfers |-> <<Send(a, a, 0)>>] : a \in {Alice, Bob}}

-----------------------------------------------------------------------------
VARIABLES
    tip,        \* where the index stands
    request,
    at,         \* the call being made
    rate,       \* the estimated fee rate
    unread,     \* addresses whose outputs are still to be read
    pin,        \* checkpoint of the outputs of the current address, or NoTip
    pinned,     \* checkpoint of all outputs read so far, or NoTip
    after,      \* position of the page cursor: identity of the last output, or 0
    found,      \* found[a]: the outputs read for address a
    envelope,   \* the signed transaction: inputs, outputs and who signed
    held,       \* whether the node has it
    reply

vars == <<tip, request, at, rate, unread, pin, pinned, after, found, envelope, held, reply>>

reading == <<unread, pin, pinned, after, found>>

Pending == [kind |-> "pending", ambiguous |-> FALSE, index |-> 0, value |-> 0]

\* The sources of a batch in the order they first appear, without repetition.
Sources(transfers) ==
    LET first == {i \in DOMAIN transfers :
                    \A j \in 1..(i - 1) : transfers[j].from # transfers[i].from}
        order == SetToSortSeq(first, LAMBDA i, j : i < j)
    IN  [k \in DOMAIN order |-> transfers[order[k]].from]

Init ==
    /\ tip \in Tips \cup {NoTip}
    /\ request \in Requests
    /\ at = "start" /\ rate = 0
    /\ unread = <<>> /\ pin = NoTip /\ pinned = NoTip /\ after = 0
    /\ found = [a \in {t.from : t \in ToSet(request.transfers)} |-> <<>>]
    /\ envelope = Err("none") @@ [signers |-> <<>>]
    /\ held = FALSE
    /\ reply = Pending

Reply(kind, ambiguous, i) ==
    /\ at' = "done"
    /\ reply' = [Pending EXCEPT !.kind = kind, !.ambiguous = ambiguous, !.index = i]

Refuse(kind) == Reply(kind, FALSE, 0) /\ UNCHANGED <<tip, request, rate, reading, envelope, held>>

\* A block is published or reverted.
Move(t) ==
    /\ at # "done" /\ t # tip
    /\ tip' = t
    /\ UNCHANGED <<request, at, rate, reading, envelope, held, reply>>

-----------------------------------------------------------------------------
(* What is checked before anything is asked.                               *)

\* The destination and the amount of a transfer are understood.
Parses(t) == t.to.net = ThisNet /\ t.amount <= U64Max

StartBatch ==
    LET transfers == request.transfers
        bad == {i \in DOMAIN transfers : ~Parses(transfers[i])}
    IN  /\ at = "start" /\ request.kind = "batch"
        /\ IF transfers = <<>> \/ Len(transfers) > MaxTransfers THEN Refuse("InvalidBatch")
           ELSE IF bad # {}
                THEN Reply("Transaction", FALSE, Min(bad)) /\ UNCHANGED <<tip, request, rate, reading, envelope, held>>
           ELSE /\ at' = "fee"
                /\ unread' = Sources(transfers)
                /\ UNCHANGED <<tip, request, rate, pin, pinned, after, found, envelope, held, reply>>

\* send_with_transaction, Builder::transfer
StartSingle ==
    LET t == request.transfers[1]
    IN  /\ at = "start" /\ request.kind = "single"
        /\ IF t.amount <= 0 \/ t.amount > U64Max THEN Refuse("InvalidAmount")
           ELSE IF ~Parses(t) THEN Refuse("InvalidAddress")
           ELSE /\ at' = "page" /\ unread' = <<t.from>>
                /\ UNCHANGED <<tip, request, rate, pin, pinned, after, found, envelope, held, reply>>

StartBalance ==
    /\ at = "start" /\ request.kind = "balance"
    /\ at' = "page" /\ unread' = <<request.transfers[1].from>>
    /\ UNCHANGED <<tip, request, rate, pin, pinned, after, found, envelope, held, reply>>

-----------------------------------------------------------------------------
(* IndexUtxos: the outputs of an address, page by page.                    *)

Mature(c, t) == c.coinbase => t.height - c.height + 1 >= CoinbaseMaturity

\* The outputs after the cursor, in order of their identity.
Listed(a, t, position) ==
    SetToSortSeq({c \in Unspent[t] : c.owner = a /\ c.id > position}, LAMBDA c, d : c.id < d.id)

\* The page, its outputs that may be spent, and the end of the address.
Page == SubSeq(Listed(Head(unread), tip, after), 1, PageSize)

HasMore == Len(Listed(Head(unread), tip, after)) > PageSize

\* Every page, and every source of a batch, is read at one checkpoint.
SamePin == pin \in {NoTip, tip} /\ pinned \in {NoTip, tip}

ReadPage ==
    LET a == Head(unread)
    IN  /\ at = "page"
        /\ IF tip = NoTip \/ (after # 0 /\ pin # tip) \/ ~SamePin THEN Refuse("Unavailable")
           ELSE /\ found' = [found EXCEPT ![a] = @ \o SelectSeq(Page, LAMBDA c : Mature(c, tip))]
                /\ pinned' = tip
                /\ IF HasMore
                   THEN /\ after' = Page[PageSize].id /\ pin' = tip
                        /\ UNCHANGED <<at, unread>>
                   ELSE /\ after' = 0 /\ pin' = NoTip
                        /\ unread' = Tail(unread)
                        /\ at' = IF Tail(unread) = <<>> 
                                 THEN (IF request.kind = "single" THEN "fee" ELSE "build")
                                 ELSE "page"
                /\ UNCHANGED <<tip, request, rate, envelope, held, reply>>

\* The store does not answer, or a row does not belong to the address.
PageFails == at = "page" /\ Refuse("Unavailable")

-----------------------------------------------------------------------------

\* estimatesmartfee, under the operator's ceiling; no estimate is 0.
EstimateFee(r) ==
    /\ at = "fee"
    /\ IF r = 0 THEN Refuse("Unavailable")
       ELSE IF r > MaxRate THEN Refuse("Fee")
       ELSE /\ rate' = r
            /\ at' = IF request.kind = "single" THEN "build" ELSE "page"
            /\ UNCHANGED <<tip, request, reading, envelope, held, reply>>

BalanceReply ==
    LET coins == found[request.transfers[1].from]
    IN  /\ at = "build" /\ request.kind = "balance"
        /\ IF Total(coins) > U64Max THEN Refuse("Balance")
           ELSE /\ at' = "done"
                /\ reply' = [Pending EXCEPT !.kind = "ok", !.value = Total(coins)]
                /\ UNCHANGED <<tip, request, rate, reading, envelope, held>>

Outputs(transfers) == [i \in DOMAIN transfers |-> [address |-> transfers[i].to, value |-> transfers[i].amount]]

From(a) == SelectSeq(request.transfers, LAMBDA t : t.from = a)

Funding(a) == [available |-> found[a], recipients |-> Outputs(From(a)), change |-> a]

\* One signer for every coin of every source.
Owners(sources) ==
    FlattenSeq([k \in DOMAIN sources |-> [i \in DOMAIN found[sources[k]] |-> sources[k]]])

\* ECDSA over the input's own script and value, with the compressed key.
SignP2wpkh(coin, signer) == coin.script = "p2wpkh" /\ coin.owner = signer

\* Schnorr over all spent outputs, with the tweaked x-only key.
SignP2tr(coin, signer) == coin.script = "p2tr" /\ coin.owner = signer

\* Every input is signed by its own signer, whose key its script must name.
Signed(built, signers) ==
    IF built.kind # "ok" THEN built @@ [signers |-> <<>>]
    ELSE IF Len(signers) # Len(built.inputs)
              \/ \E i \in DOMAIN signers : LET coin == built.inputs[i] IN
                     ~SignP2wpkh(coin, signers[i]) /\ ~SignP2tr(coin, signers[i])
         THEN Err("Signing") @@ [signers |-> <<>>]
    ELSE built @@ [signers |-> signers]

Unsigned ==
    LET sources == Sources(request.transfers)
    IN  IF request.kind = "single"
        THEN Build([drain |-> FALSE, rate |-> rate] @@ Funding(request.transfers[1].from))
        ELSE BuildGrouped([k \in DOMAIN sources |-> Funding(sources[k])], rate)

Prepared(built) ==
    Signed(built, IF request.kind = "single"
                  THEN [i \in DOMAIN built.inputs |-> request.transfers[1].from]
                  ELSE Owners(Sources(request.transfers)))

BuildAndSign ==
    /\ at = "build" /\ request.kind # "balance"
    /\ \E built \in {Unsigned} : \E prepared \in {Prepared(built)} :
          IF prepared.kind # "ok" THEN Refuse(prepared.kind)
          ELSE /\ envelope' = prepared
               /\ at' = "preflight"
               /\ UNCHANGED <<tip, request, rate, reading, held, reply>>

-----------------------------------------------------------------------------
(* broadcast_prepared and the node.                                        *)

\* testmempoolaccept: no answer or one about another transaction, or its verdict.
Preflight(answer) ==
    /\ at = "preflight"
    /\ IF answer = "fails" THEN Refuse("Unavailable")
       ELSE IF answer = "refused" THEN Refuse("Rejected")
       ELSE at' = "broadcast" /\ UNCHANGED <<tip, request, rate, reading, envelope, held, reply>>

\* What the caller of sendrawtransaction makes of it: an error object is a
\* refusal; a lost or unreadable answer leaves the outcome open.
NodeReply(accepted, answered) ==
    CASE ~answered -> [kind |-> "Unavailable", ambiguous |-> TRUE]
      [] answered /\ accepted -> [kind |-> "ok", ambiguous |-> FALSE]
      [] answered /\ ~accepted -> [kind |-> "Rejected", ambiguous |-> FALSE]

\* The node decides, then answers.
Broadcast(accepted, answered) ==
    /\ at = "broadcast"
    /\ held' = accepted
    /\ Reply(NodeReply(accepted, answered).kind, NodeReply(accepted, answered).ambiguous, 0)
    /\ UNCHANGED <<tip, request, rate, reading, envelope>>

Done == at = "done" /\ UNCHANGED vars

Next ==
    \/ \E t \in Tips \cup {NoTip} : Move(t)
    \/ StartBatch \/ StartSingle \/ StartBalance
    \/ ReadPage \/ PageFails
    \/ \E r \in Rates : EstimateFee(r)
    \/ BalanceReply \/ BuildAndSign
    \/ \E answer \in {"fails", "refused", "allowed"} : Preflight(answer)
    \/ \E accepted, answered \in BOOLEAN : Broadcast(accepted, answered)
    \/ Done

Spec == Init /\ [][Next]_vars

-----------------------------------------------------------------------------

Sent == envelope.kind = "ok"

\* The outputs an address could spend at a tip.
SpendableAt(a, t) == {c \in Unspent[t] : c.owner = a /\ (c.coinbase => t.height - c.height + 1 >= CoinbaseMaturity)}

TypeOK ==
    /\ at \in {"start", "fee", "page", "build", "preflight", "broadcast", "done"}
    /\ rate \in 0..MaxRate
    /\ tip \in Tips \cup {NoTip} /\ pin \in Tips \cup {NoTip} /\ pinned \in Tips \cup {NoTip}

\* However the index moves while the pages are read, a transaction spends
\* outputs that were live together at one canonical tip, that the senders own
\* and that are old enough.
SpendsOneSnapshot ==
    Sent => \E t \in Tips : \A i \in DOMAIN envelope.inputs :
                envelope.inputs[i] \in SpendableAt(envelope.inputs[i].owner, t)

\* A balance is the whole of what the address can spend at one tip.
BalanceIsWhole ==
    (request.kind = "balance" /\ reply.kind = "ok") =>
        \E t \in Tips : reply.value = Total(SetToSeq(SpendableAt(request.transfers[1].from, t)))

\* A sender's coins are unlocked by that sender's key and by no other: a
\* grouped transaction never fails because the signers are out of step with
\* the inputs, and never spends coins of somebody who did not ask.
OwnersSign ==
    /\ reply.kind # "Signing"
    /\ Sent => \A i \in DOMAIN envelope.inputs :
                 \E t \in ToSet(request.transfers) : t.from = envelope.inputs[i].owner

\* Every transfer of a batch is an output of the one transaction, repeated
\* transfers as often as they were asked, and nobody else is paid but the
\* senders themselves.
BatchIsPaid ==
    Sent =>
        LET asked(o) == Cardinality({i \in DOMAIN request.transfers : Outputs(request.transfers)[i] = o})
            paid(o)  == Cardinality({i \in DOMAIN envelope.outputs : envelope.outputs[i] = o})
        IN  \A o \in ToSet(Outputs(request.transfers)) \cup ToSet(envelope.outputs) :
                paid(o) >= asked(o) /\ (paid(o) > asked(o) => \E t \in ToSet(request.transfers) : o.address = t.from)

\* A failure that does not name a transaction means the node does not have it;
\* a success means it does.
DefiniteMeansUnsent ==
    /\ at = "done" /\ reply.kind # "ok" /\ ~reply.ambiguous => ~held
    /\ reply.kind = "ok" /\ request.kind # "balance" => held
=============================================================================
