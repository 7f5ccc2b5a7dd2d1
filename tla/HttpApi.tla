------------------------------ MODULE HttpApi ------------------------------
(***************************************************************************)
(* Requests to the API, from the router to the response: authorization,    *)
(* the extractors, the handlers and the collection of wallets behind them, *)
(* and the conversion of errors to statuses.  The senders of the chains    *)
(* are modelled by what they promise: items go out in order, each is       *)
(* accepted, refused or left in doubt, and the first that is not accepted  *)
(* ends the batch; Bitcoin pays all items with one transaction.            *)
(***************************************************************************)
EXTENDS Integers, Sequences, FiniteSets, SequencesExt

CONSTANTS
    None,
    Client,       \* connections, one request each
    Families,     \* the registered wallet families, of "Btc", "Eth", "Usdc", "Sol"
    Stored,       \* the wallets of the collection at the start: id -> family
    MaxTransfers  \* 50 in the code

VARIABLES
    request,    \* per client: the request, how far it is and what was accepted
    response,   \* per client: the response
    values,     \* the collection
    landed,     \* transactions that a node has: client, item, family
    mode,       \* "Strict" or "GlobalTrusted"
    ready       \* the published readiness, and whether its publisher lives

vars == <<request, response, values, landed, mode, ready>>

NoRequest == [at |-> "none", ask |-> None, accepted |-> <<>>]

Init ==
    /\ request = [c \in Client |-> NoRequest]
    /\ response = [c \in Client |-> None]
    /\ values = Stored /\ landed = {} /\ mode \in {"Strict", "GlobalTrusted"}
    /\ ready = [value |-> TRUE, publisher |-> TRUE]

-----------------------------------------------------------------------------
\* Errors: of a transaction, of a wallet, of the API; and their statuses.

Error(kind, ambiguous) == [kind |-> kind, ambiguous |-> ambiguous]

\* From<base::TransactionError> and From<IndexError> for wallets::Error.
WalletKind(kind) ==
    CASE kind \in {"InvalidAddress", "InvalidAmount", "Unavailable", "Conflict"} -> kind
      [] kind \in {"Unknown", "Timeout", "Source", "Store", "InvalidBlock", "CannotConnect", "ReorgTooDeep"} -> "Unavailable"
      [] kind \in {"ScopeMismatch", "InvalidRequest"} -> "Unsupported"
      [] OTHER -> "Transaction"

\* From<wallets::Error> for ApiError.
ApiKind(kind) ==
    CASE kind \in {"Unsupported", "InvalidSecret", "InvalidAddress", "InvalidAmount", "InvalidBatch", "AddressMismatch"} -> "InvalidRequest"
      [] kind \in {"Duplicate", "Conflict"} -> "Conflict"
      [] kind \in {"NotFound", "Transaction", "InvalidResponse"} -> kind
      [] OTHER -> "Unavailable"

\* IntoResponse for ApiError.
Status(kind, ambiguous) ==
    IF ambiguous # None THEN 503
    ELSE CASE kind = "InvalidRequest" -> 400 [] kind = "NotFound" -> 404 [] kind = "Conflict" -> 409
           [] kind = "Transaction" -> 422 [] kind = "Unavailable" -> 503
           [] kind = "InvalidResponse" -> 500

ErrorResponse(error, accepted, failed) ==
    [status |-> Status(ApiKind(error.kind), error.ambiguous), ids |-> accepted, failed |-> failed, ambiguous |-> error.ambiguous]

\* SendError, and From<SendError> for ApiError.
SendErrorResponse(accepted, failed, error) == ErrorResponse(error, accepted, failed)

Ok(status, ids) == [status |-> status, ids |-> ids, failed |-> None, ambiguous |-> None]
Plain(status) == Ok(status, <<>>)

Respond(c, answer) ==
    /\ response' = [response EXCEPT ![c] = answer]
    /\ request' = [request EXCEPT ![c].at = "done"]

Await(c, at) == request' = [request EXCEPT ![c].at = at] /\ UNCHANGED response

-----------------------------------------------------------------------------
\* Routes, authorization and extractors.

Public == {"live", "ready", "openapi"}

\* protected_router puts require_bearer before the routes in strict mode only; the
\* whole header must agree.
Authorized(q) == mode = "GlobalTrusted" \/ q.token = "right"

Arrive(c, q) ==
    /\ request[c].at = "none"
    /\ request' = [request EXCEPT ![c] = [at |-> "routed", ask |-> q, accepted |-> <<>>]]
    /\ UNCHANGED <<response, values, landed, mode, ready>>

\* health and the contract.
Health(c) ==
    /\ request[c].at = "routed" /\ request[c].ask.route \in Public
    /\ Respond(c, Plain(IF request[c].ask.route = "openapi" THEN 200
                        ELSE IF request[c].ask.route = "live" \/ (ready.publisher /\ ready.value) THEN 204 ELSE 503))
    /\ UNCHANGED <<values, landed, mode, ready>>

\* The transaction routes take no query, the history one that can be read, and the
\* bodies are of the documented schema.
BadExtract(q) ==
    \/ q.route \in {"send", "sendAll", "history"} /\ q.query
    \/ q.route \in {"create", "send", "sendAll"} /\ q.body # "json"

\* The amounts are read before anything else is done: the first that is no decimal.
Garbled(items) == {i \in DOMAIN items : items[i].amount = "garbled"}

Refuse(c) ==
    /\ request[c].at = "routed"
    /\ LET q == request[c].ask
           first == IF q.route = "sendAll" THEN CHOOSE i \in Garbled(q.items) : \A j \in Garbled(q.items) : i <= j ELSE None
       IN  /\ q.route \notin Public
           /\ \/ ~Authorized(q) /\ Respond(c, Plain(401))
              \/ /\ Authorized(q) /\ BadExtract(q)
                 /\ Respond(c, Plain(400))
              \/ /\ Authorized(q) /\ ~BadExtract(q) /\ q.route \in {"send", "sendAll"}
                 /\ Len(q.items) > MaxTransfers \/ Garbled(q.items) # {}
                 /\ Respond(c, [Plain(400) EXCEPT !.failed = IF Len(q.items) > MaxTransfers THEN None ELSE first])
    /\ UNCHANGED <<values, landed, mode, ready>>

Handled(c, route) ==
    LET q == request[c].ask
    IN  /\ request[c].at = "routed" /\ q.route = route /\ Authorized(q) /\ ~BadExtract(q)
        /\ Len(q.items) <= MaxTransfers /\ Garbled(q.items) = {}

-----------------------------------------------------------------------------
\* Wallets.

\* Wallets::generate waits for the checkpoint and the admission.
Create(c) ==
    /\ Handled(c, "create")
    /\ IF request[c].ask.asset \notin Families THEN Respond(c, Plain(404)) ELSE Await(c, "generating")
    /\ UNCHANGED <<values, landed, mode, ready>>

Generated(c) ==
    /\ request[c].at = "generating"
    /\ \/ /\ values' = [i \in DOMAIN values \cup {c} |-> IF i = c THEN request[c].ask.asset ELSE values[i]]
          /\ Respond(c, Ok(201, <<c>>))
       \/ /\ \E kind \in {"Generation", "Duplicate", WalletKind("Store"), WalletKind("Conflict"), WalletKind("ScopeMismatch")} :
                Respond(c, IF kind = "Unsupported" THEN Plain(404) ELSE ErrorResponse(Error(kind, None), <<>>, None))
          /\ UNCHANGED values
    /\ UNCHANGED <<landed, mode, ready>>

\* The wallet, its balance and its history.
Read(c, route) ==
    /\ Handled(c, route)
    /\ IF request[c].ask.id \notin DOMAIN values THEN Respond(c, ErrorResponse(Error("NotFound", None), <<>>, None))
       ELSE IF route = "read" THEN Respond(c, Plain(200)) ELSE Await(c, "reading")
    /\ UNCHANGED <<values, landed, mode, ready>>

Reads(c) ==
    /\ request[c].at = "reading"
    /\ \/ Respond(c, Plain(200))
       \/ \E kind \in {"Balance", "History", "InvalidResponse", WalletKind("Store")} : Respond(c, ErrorResponse(Error(kind, None), <<>>, None))
    /\ UNCHANGED <<values, landed, mode, ready>>

-----------------------------------------------------------------------------
\* Transfers.

\* Wallets::send finds the wallet; what is wrong with a single transfer its chain
\* finds out.
Send(c) ==
    /\ Handled(c, "send")
    /\ IF request[c].ask.items[1].wallet \notin DOMAIN values
       THEN Respond(c, ErrorResponse(Error("NotFound", None), <<>>, None))
       ELSE Await(c, "sending")
    /\ UNCHANGED <<values, landed, mode, ready>>

Family(items, i) == values[items[i].wallet]

\* What Wallets::transfers holds against an item, given those before it.
Fault(items, i) ==
    IF items[i].amount \in {"zero", "negative"} THEN "InvalidAmount"
    ELSE IF items[i].wallet \notin DOMAIN values THEN "NotFound"
    ELSE IF i > 1 /\ Family(items, i) # Family(items, i - 1) THEN "Unsupported"
    ELSE None

SendAll(c) ==
    /\ Handled(c, "sendAll")
    /\ LET items == request[c].ask.items
           faulty(i) == /\ \A j \in 1..(i - 1) : Fault(items, j) = None
                        /\ Fault(items, i) # None
       IN  IF items = <<>> THEN Respond(c, SendErrorResponse(<<>>, None, Error("InvalidBatch", None)))
           ELSE IF \E i \in DOMAIN items : faulty(i)
           THEN LET i == CHOOSE k \in DOMAIN items : faulty(k)
                IN  Respond(c, SendErrorResponse(<<>>, i, Error(Fault(items, i), None)))
           ELSE Await(c, "sending")
    /\ UNCHANGED <<values, landed, mode, ready>>

\* The sender of the family of the batch: the last item's.
SenderOf(c) == LET items == request[c].ask.items IN Family(items, Len(items))

\* Bitcoin makes one transaction of all items, the others one of each.
Grouped(c) == SenderOf(c) = "Btc"

Transaction(c, i) == [client |-> c, item |-> IF Grouped(c) THEN 0 ELSE i, family |-> SenderOf(c)]

\* The item to go out next, and whether it is the last.
NextItem(c) == Len(request[c].accepted) + 1
LastOut(c) == Grouped(c) \/ NextItem(c) = Len(request[c].ask.items)

\* SendError::item names the item, SendError::grouped none; a single transfer has no index.
FailedIndex(c) == IF request[c].ask.route = "send" \/ Grouped(c) THEN None ELSE NextItem(c)

Accepted(c) ==
    /\ request[c].at = "sending"
    /\ LET t == Transaction(c, NextItem(c))
           ids == Append(request[c].accepted, t)
       IN  /\ landed' = landed \cup {t}
           /\ IF LastOut(c) THEN Respond(c, Ok(202, ids))
              ELSE request' = [request EXCEPT ![c].accepted = ids] /\ UNCHANGED response
    /\ UNCHANGED <<values, mode, ready>>

\* Nothing went out yet: the preparation fails, for an item or for all of them.
PreparationFails(c) ==
    /\ request[c].at = "sending" /\ request[c].accepted = <<>>
    /\ \E failed \in {None} \cup (IF request[c].ask.route = "send" THEN {} ELSE DOMAIN request[c].ask.items),
          kind \in {"SourceBusy", WalletKind("InvalidAddress"), WalletKind("InsufficientFunds"), WalletKind("Timeout")} :
         Respond(c, SendErrorResponse(<<>>, failed, Error(kind, None)))
    /\ UNCHANGED <<values, landed, mode, ready>>

\* The next item does not go out.
Refused(c) ==
    /\ request[c].at = "sending"
    /\ \E kind \in {WalletKind("Rejected"), WalletKind("Unavailable")} :
         Respond(c, SendErrorResponse(request[c].accepted, FailedIndex(c), Error(kind, None)))
    /\ UNCHANGED <<values, landed, mode, ready>>

\* The outcome of the next item is unknown; its own id is known.
Doubt(c) ==
    /\ request[c].at = "sending"
    /\ LET t == Transaction(c, NextItem(c))
       IN  /\ landed' \in {landed, landed \cup {t}}
           /\ Respond(c, SendErrorResponse(request[c].accepted, FailedIndex(c), Error(WalletKind("Unknown"), t)))
    /\ UNCHANGED <<values, mode, ready>>

\* The client goes away, and its handler with it.  What was going out may arrive; a
\* batch of Solana is supervised and goes on, to its end or to the first item that fails.
Disconnect(c) ==
    /\ request[c].at \in {"generating", "reading", "sending"}
    /\ request' = [request EXCEPT ![c].at = "gone"]
    /\ IF request[c].at # "sending" THEN UNCHANGED landed
       ELSE LET last == IF SenderOf(c) = "Sol" THEN Len(request[c].ask.items) ELSE NextItem(c)
            IN  \E k \in (NextItem(c) - 1)..last :
                   landed' = landed \cup {Transaction(c, i) : i \in NextItem(c)..k}
    /\ UNCHANGED <<response, values, mode, ready>>

Readiness ==
    /\ ready.publisher
    /\ \E v, p \in BOOLEAN : ready' = [value |-> v, publisher |-> p]
    /\ UNCHANGED <<request, response, values, landed, mode>>

Done == (\A c \in Client : request[c].at \in {"done", "gone"}) /\ UNCHANGED vars

-----------------------------------------------------------------------------
(***************************************************************************)
(* Wallets of three families, and requests right and wrong in each respect *)
(* that the handlers tell apart.                                           *)
(***************************************************************************)

Item(wallet, amount) == [wallet |-> wallet, amount |-> amount]

Ask(route) == [route |-> route, token |-> "right", query |-> FALSE, body |-> "json", asset |-> "Eth", id |-> "e1", items |-> <<>>]

Sends == {[Ask("send") EXCEPT !.items = <<i>>] : i \in {Item("b1", "good"), Item("e1", "good"), Item("none", "good"), Item("e1", "garbled"), Item("s1", "zero")}}

Batches ==
    {[Ask("sendAll") EXCEPT !.items = is] :
        is \in {<<>>, <<Item("b1", "good"), Item("b2", "good")>>,
                <<Item("e1", "good"), Item("e2", "good"), Item("e1", "good")>>, <<Item("e1", "good"), Item("s1", "good")>>,
                <<Item("b1", "good"), Item("none", "garbled")>>, <<Item("s1", "good"), Item("none", "good")>>,
                <<Item("s1", "zero"), Item("s1", "good")>>, [i \in 1..(MaxTransfers + 1) |-> Item("e1", "good")]}}

Requests ==
    {Ask(r) : r \in Public \cup {"create", "read", "balance", "history"}} \cup Sends \cup Batches
    \cup {[Ask("create") EXCEPT !.token = "none"], [Ask("send") EXCEPT !.items = <<Item("e1", "good")>>, !.token = "wrong"]}
    \cup {[Ask("create") EXCEPT !.asset = "Usdc"], [Ask("create") EXCEPT !.body = "large"], [Ask("read") EXCEPT !.id = "none"], [Ask("history") EXCEPT !.query = TRUE],
          [Ask("send") EXCEPT !.items = <<Item("e1", "good")>>, !.query = TRUE]}

-----------------------------------------------------------------------------
Next ==
    \/ Readiness \/ Done
    \/ \E c \in Client :
         \/ \E q \in Requests : Arrive(c, q)
         \/ Health(c) \/ Refuse(c) \/ Create(c) \/ Generated(c)
         \/ \E route \in {"read", "balance", "history"} : Read(c, route)
         \/ Reads(c) \/ Send(c) \/ SendAll(c) \/ Accepted(c)
         \/ PreparationFails(c) \/ Refused(c) \/ Doubt(c) \/ Disconnect(c)

Spec == Init /\ [][Next]_vars

-----------------------------------------------------------------------------

Own(c) == {t \in landed : t.client = c}
Answered == {c \in Client : response[c] # None}

\* A response accounts for every transaction of its request that a node may have:
\* the ids it lists are there, in order, and any other that is there is the one it
\* says is in doubt, which makes it a 503.
ResponseAccounts ==
    \A c \in Answered :
        LET r == response[c]
        IN  r.status # 201 =>
                /\ ToSet(r.ids) \subseteq landed /\ Own(c) \subseteq ToSet(r.ids) \cup {r.ambiguous}
                /\ r.ambiguous # None => r.status = 503
                /\ \A i, j \in DOMAIN r.ids : i < j => r.ids[i].item < r.ids[j].item
                /\ r.status = 202 =>
                     Len(r.ids) = IF Grouped(c) THEN 1 ELSE Len(request[c].ask.items)

\* "failed_index is present only when one original occurrence truthfully failed":
\* the items before it went out, if any did, and none after it, nor together with it.
FailedIndexIsTruthful ==
    \A c \in Answered :
        LET r == response[c]
        IN  r.failed # None =>
                /\ \A t \in Own(c) : t.item \in 1..r.failed
                /\ Own(c) # {} => {t.item : t \in Own(c)} \cup {r.failed} = 1..r.failed
                /\ r.ambiguous # None => r.ambiguous.item = r.failed

\* A transaction goes out only through the sender of its own wallet's family, so no
\* batch mixes families.
OneFamilyPerBatch ==
    \A t \in landed : \A i \in DOMAIN request[t.client].ask.items :
        values[request[t.client].ask.items[i].wallet] = t.family

\* In strict mode only a request with the token makes wallets or transactions.
OnlyAuthorizedActs ==
    mode = "Strict" => \A c \in Client : (Own(c) # {} \/ c \in DOMAIN values) => request[c].ask.token = "right"
=============================================================================
