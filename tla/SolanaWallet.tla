---------------------------- MODULE SolanaWallet ----------------------------
(***************************************************************************)
(* Solana wallets in the collection: each holds its key, and the provider  *)
(* keeps a weak reference to the latest key of each address, which batches *)
(* sign with.  A wallet is created first and stored, or refused, later; a  *)
(* refused one is dropped with its key.                                    *)
(***************************************************************************)
EXTENDS Decimals

CONSTANTS
    None,
    Caller,       \* callers of the collection
    AddressOf,    \* the Ed25519 address of each secret
    ReadText,     \* what an address text decodes to, or Error
    WriteText,    \* the canonical text of an address
    OnCurve,      \* addresses that are on the curve
    SolDecimals,  \* 9 in the code
    MaxLamports,  \* u64::MAX
    MaxKeys       \* bound: keys made

\* What the API process asks, once each: wallets of configured secrets under distinct
\* ids, and wallets of fresh secrets, generated or adopted.
Request(kind, id, secret) == [kind |-> kind, id |-> id, secret |-> secret]

Requests == {Request("import", "i1", "s1"), Request("import", "i2", "s1"), Request("generate", "i3", "s2"),
             Request("adopt", "i4", "s3")}

\* The destinations and amounts that make each check of a transfer matter.
Destinations == {[encoding |-> "base58", text |-> t] : t \in DOMAIN ReadText} \cup {[encoding |-> "hex", text |-> "a1"]}

Amounts == {Normalize(c, s) : c \in {-1, 0, 1, 25}, s \in {0, 1, 3}}

VARIABLES
    call,     \* per caller: the request, the key it holds and how far it is
    keys,     \* the provider's weak references, by address
    values,   \* the collection: id -> key
    made,     \* addresses of the keys made so far
    asked     \* requests made

vars == <<call, keys, values, made, asked>>

NoCall == [at |-> "idle", request |-> None, key |-> None]

Addresses == {AddressOf[s] : s \in DOMAIN AddressOf}

Ids == {r.id : r \in Requests}

-----------------------------------------------------------------------------
Init ==
    /\ call = [c \in Caller |-> NoCall]
    /\ keys = [a \in Addresses |-> None]
    /\ values = [i \in Ids |-> None]
    /\ made = <<>>
    /\ asked = {}

\* A key lives while a wallet of the collection or of a call holds it.
Alive(k) == (\E i \in Ids : values[i] = k) \/ (\E c \in Caller : call[c].key = k)

Insert(a, k) == [keys EXCEPT ![a] = k]

\* Provider::create, or generate with a fresh secret: the key is registered at once.
\* A secret that makes no key leaves nothing behind.
Create(c, r) ==
    /\ call[c].at = "idle" /\ Len(made) < MaxKeys
    /\ r \notin asked
    /\ LET k == Len(made) + 1
           a == AddressOf[r.secret]
       IN  /\ made' = Append(made, a)
           /\ keys' = Insert(a, k)
           /\ call' = [call EXCEPT ![c] = [at |-> "store", request |-> r, key |-> k]]
    /\ asked' = asked \cup {r}
    /\ UNCHANGED values

\* Wallets::store: an id that is taken is refused.
Store(c) ==
    /\ call[c].at = "store"
    /\ LET r == call[c].request
       IN  IF values[r.id] # None
           THEN call' = [call EXCEPT ![c] = NoCall] /\ UNCHANGED values
           ELSE /\ values' = [values EXCEPT ![r.id] = call[c].key]
                /\ call' = [call EXCEPT ![c] =
                               IF r.kind = "adopt" THEN [@ EXCEPT !.at = "register", !.key = None] ELSE NoCall]
    /\ UNCHANGED <<keys, made, asked>>

\* The checkpoint or the admission of the scope may be unavailable.  An import has
\* neither.
StoreFails(c) ==
    /\ call[c].at = "store" /\ call[c].request.kind # "import"
    /\ call' = [call EXCEPT ![c] = NoCall]
    /\ UNCHANGED <<keys, values, made, asked>>

\* An adopted wallet is made durable, or forgotten.
Register(c, ok) ==
    /\ call[c].at = "register"
    /\ values' = IF ok THEN values ELSE [values EXCEPT ![call[c].request.id] = None]
    /\ call' = [call EXCEPT ![c] = NoCall]
    /\ UNCHANGED <<keys, made, asked>>

Idle == (\A c \in Caller : call[c].at = "idle") /\ UNCHANGED vars

Next ==
    \/ Idle
    \/ \E c \in Caller :
         \/ \E r \in Requests : Create(c, r)
         \/ Store(c) \/ StoreFails(c)
         \/ \E ok \in BOOLEAN : Register(c, ok)

Spec == Init /\ [][Next]_vars

-----------------------------------------------------------------------------
\* A transfer out of a wallet, alone and in a batch.

Err(kind) == [error |-> kind]

\* One spelling per address, in plain Base58.
ParseAddress(to) ==
    IF to.encoding # "base58" THEN Error
    ELSE IF ReadText[to.text] = Error THEN Error
    ELSE IF WriteText[ReadText[to.text]] # to.text THEN Error ELSE ReadText[to.text]

Lamports(amount) ==
    LET units == ToAtomic(amount, SolDecimals)
    IN  IF units = Error THEN Error ELSE IF units = 0 \/ units > MaxLamports THEN Error ELSE units

\* The destination and the amount, in the order both senders check them.
Checked(source, to, amount) ==
    LET destination == ParseAddress(to)
    IN  IF destination = Error THEN Err("InvalidAddress")
        ELSE IF destination \notin OnCurve THEN Err("Unsupported")
        ELSE IF destination = source THEN Err("AddressMismatch")
        ELSE IF Lamports(amount) = Error THEN Err("InvalidAmount")
        ELSE [source |-> source, destination |-> destination, amount |-> Lamports(amount)]

\* SingleSender::send signs with the key of the wallet.
Single(id, to, amount) ==
    LET t == Checked(made[values[id]], to, amount)
    IN  IF DOMAIN t = {"error"} THEN t ELSE [transfer |-> t, signer |-> made[values[id]]]

\* Keys::get: the latest key of the address, if it still lives.
Get(a) == IF keys[a] = None THEN None ELSE IF Alive(keys[a]) THEN keys[a] ELSE None

\* Sender::send, of a batch of one, looks the key up again.
Batch(id, to, amount) ==
    LET source == made[values[id]]
        t == Checked(source, to, amount)
    IN  IF amount.coefficient <= 0 THEN Err("InvalidAmount")
        ELSE IF DOMAIN t = {"error"} THEN t
        ELSE IF Get(source) = None THEN Err("NotFound")
        ELSE [transfer |-> t, signer |-> made[Get(source)]]

-----------------------------------------------------------------------------

Stored == {i \in Ids : values[i] # None}

Same(a, b) == IF DOMAIN a = {"error"} \/ DOMAIN b = {"error"} THEN DOMAIN a = DOMAIN b ELSE a = b

\* "it resolves every wallet from one registered family": a transfer that a wallet
\* of the collection can make alone, it can make in a batch, signed by the key of
\* its own address, and a transfer it refuses alone it refuses in a batch.
BatchesSignForEveryWallet ==
    \A i \in Stored, to \in Destinations, amount \in Amounts : Same(Single(i, to, amount), Batch(i, to, amount))

\* No wallet pays itself or nothing, and it pays only what the text names in its one
\* spelling.
TransfersAreSound ==
    \A i \in Stored, to \in Destinations, amount \in Amounts :
        LET b == Batch(i, to, amount)
        IN  "transfer" \in DOMAIN b =>
                /\ b.signer = b.transfer.source /\ b.transfer.destination # b.transfer.source
                /\ FromAtomic(b.transfer.amount, SolDecimals) = amount /\ b.transfer.amount > 0
                /\ WriteText[b.transfer.destination] = to.text
=============================================================================
