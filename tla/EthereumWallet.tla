--------------------------- MODULE EthereumWallet ---------------------------
(***************************************************************************)
(* A wallet of one Ethereum asset: its address and transaction id texts,   *)
(* the transfer a builder or a batch asks for, the snapshot of a builder   *)
(* and its restoration in some wallet, the envelope signed for it and the  *)
(* checks before an envelope goes out again.  Fees and nonces are chosen   *)
(* in EthereumPreparation and EthereumCoordinator; here any may come.      *)
(*                                                                         *)
(* Texts are sequences of ASCII characters, addresses sequences of bytes.  *)
(***************************************************************************)
EXTENDS Decimals

CONSTANTS
    None, Native, Blank,   \* no value, the native asset, a blank network name
    AddressBytes,          \* 20 in the code
    WordBytes,             \* 32 in the code, of ByteBase values each
    EthDecimals,           \* 18 in the code
    MaxDecimals,           \* u8::MAX
    WeiMax                 \* the largest U256

HexChars == DigitChars \o <<"a", "b", "c", "d", "e", "f">>
UpperChars == DigitChars \o <<"A", "B", "C", "D", "E", "F">>

Err(kind) == [error |-> kind]
IsErr(r) == DOMAIN r = {"error"}

-----------------------------------------------------------------------------
\* Addresses and transaction ids.

HexValue(c) ==
    LET vs == {v \in 0..15 : c \in {HexChars[v + 1], UpperChars[v + 1]}}
    IN  IF vs = {} THEN Error ELSE CHOOSE v \in vs : TRUE

\* u8::from_str_radix of two characters, the first of which may be a plus sign.
Byte(c, d) ==
    LET high == IF c = "+" THEN 0 ELSE HexValue(c)
        low == HexValue(d)
    IN  IF high = Error \/ low = Error THEN Error ELSE high * 16 + low

Hexadecimal(bytes) ==
    <<"0", "x">> \o [i \in 1..(2 * Len(bytes)) |->
        LET b == bytes[(i + 1) \div 2]
        IN  HexChars[1 + (IF i % 2 = 1 THEN b \div 16 ELSE b % 16)]]

ParseHexadecimal(text, width) ==
    LET digits == SubSeq(text, 3, Len(text))
        bytes == [i \in 1..width |-> Byte(digits[2 * i - 1], digits[2 * i])]
    IN  IF Len(text) < 2 \/ SubSeq(text, 1, 2) # <<"0", "x">> \/ Len(digits) # 2 * width
        THEN Error
        ELSE IF \E i \in 1..width : bytes[i] = Error THEN Error ELSE bytes

ParseAddressText(text) == ParseHexadecimal(text, AddressBytes)

\* An id has one spelling, because it is compared as text elsewhere.
ParseId(text, width) ==
    LET bytes == ParseHexadecimal(text, width)
    IN  IF bytes = Error THEN Error
        ELSE IF Hexadecimal(bytes) # text THEN Error ELSE bytes

ZeroAddress == [i \in 1..AddressBytes |-> 0]

FromBase20(bytes) == IF Len(bytes) # AddressBytes THEN Error ELSE bytes

ParseAddress(to) == IF to.encoding # "hex" THEN Error ELSE ParseAddressText(to.text)

FormatAddress(bytes) ==
    IF FromBase20(bytes) = Error THEN Error ELSE [encoding |-> "hex", text |-> Hexadecimal(bytes)]

-----------------------------------------------------------------------------
\* Configuration and requests.

\* Network, asset and decimals must agree.
Validate(c) ==
    /\ c.chain = "ethereum" /\ c.network # Blank /\ c.chainId # 0
    /\ c.asset = Native => c.decimals = EthDecimals
    /\ c.asset # ZeroAddress
    /\ c.decimals <= MaxDecimals

\* A wallet of a configuration, for the address of its key.
Create(c, address) == IF ~Validate(c) THEN Err("Unsupported") ELSE [config |-> c, address |-> address]

Zero == [i \in 1..WordBytes |-> 0]

\* A token transfer is a call of the token without value.
TransferRequest(c, from, to, amount) ==
    LET value == ToAtomicBytes(amount, c.decimals, WordBytes)
    IN  IF ~Validate(c) THEN Err("InvalidSnapshot")
        ELSE IF amount.coefficient <= 0 \/ value = Error THEN Err("InvalidAmount")
        ELSE IF c.asset = Native THEN [from |-> from, to |-> to, value |-> value, input |-> None]
        ELSE [from |-> from, to |-> c.asset, value |-> Zero, input |-> <<to, value>>]

\* One transfer of a batch, under the configuration of the batch.
BatchPreparation(c, wallet, to, amount) ==
    LET from == FromBase20(wallet.address)
        destination == ParseAddress(to)
    IN  IF from = Error \/ destination = Error THEN Err("InvalidAddress")
        ELSE TransferRequest(c, from, destination, amount)

-----------------------------------------------------------------------------
\* The builder: a wallet and at most one transfer.

NewBuilder(wallet) == [wallet |-> wallet, transfer |-> None]

AddTransfer(b, bytes, amount) ==
    IF b.transfer # None THEN Err("Unsupported")
    ELSE IF FromBase20(bytes) = Error THEN Err("InvalidAddress")
    ELSE IF ToAtomicBytes(amount, b.wallet.config.decimals, WordBytes) = Error THEN Err("InvalidAmount")
    ELSE [b EXCEPT !.transfer = [to |-> bytes, amount |-> amount]]

Request(b) ==
    IF ~Validate(b.wallet.config) THEN Err("InvalidSnapshot")
    ELSE IF b.transfer = None THEN Err("InvalidTransaction")
    ELSE TransferRequest(b.wallet.config, b.wallet.address, b.transfer.to, b.transfer.amount)

AssetOf(c) ==
    IF c.asset = Native THEN [kind |-> "native", name |-> "ETH", decimals |-> c.decimals]
    ELSE [kind |-> "erc20", name |-> Hexadecimal(c.asset), decimals |-> c.decimals]

\* Variant of Snapshot that writes the amount in atomic units.
SnapshotAtomic(b) ==
    LET c == b.wallet.config
    IN  IF ~Validate(c) THEN Err("InvalidSnapshot")
        ELSE IF b.transfer = None THEN Err("InvalidTransaction")
        ELSE [version |-> 1, kind |-> "ethereum.transfer", chain |-> c.chain, network |-> c.network,
              source |-> Hexadecimal(b.wallet.address), destination |-> Hexadecimal(b.transfer.to),
              amount |-> Display([coefficient |-> ToAtomic(b.transfer.amount, c.decimals), scale |-> 0]),
              asset |-> AssetOf(c)]

Snapshot(b) ==
    LET c == b.wallet.config
    IN  IF ~Validate(c) THEN Err("InvalidSnapshot")
        ELSE IF b.transfer = None THEN Err("InvalidTransaction")
        ELSE [version |-> 1, kind |-> "ethereum.transfer", chain |-> c.chain, network |-> c.network,
              source |-> Hexadecimal(b.wallet.address), destination |-> Hexadecimal(b.transfer.to),
              amount |-> Display(b.transfer.amount), asset |-> AssetOf(c)]

\* The snapshot is of this wallet, network and asset.
Belongs(w, s) ==
    /\ s.chain = w.config.chain /\ s.network = w.config.network
    /\ s.chain = "ethereum" /\ w.config.chainId # 0
    /\ s.source = Hexadecimal(w.address)
    /\ s.asset = AssetOf(w.config)

\* Builder::restore with the decoding of the snapshot.
Restore(w, s) ==
    LET to == ParseAddressText(s.destination)
        amount == Parse(s.amount)
    IN  IF \/ s.version # 1 \/ s.kind # "ethereum.transfer"
           \/ ~Belongs(w, s)
           \/ to = Error \/ amount = Error
        THEN Err("InvalidSnapshot")
        ELSE IF ToAtomicBytes(amount, w.config.decimals, WordBytes) = Error \/ ~Validate(w.config)
        THEN Err("InvalidSnapshot")
        ELSE [wallet |-> w, transfer |-> [to |-> to, amount |-> amount]]

-----------------------------------------------------------------------------
\* Signed transactions.

\* The transaction of a request under the chain, gas and fees given.
Unsigned(request, x) ==
    IF x.chainId = 0 \/ x.gas = 0 \/ x.fee < x.priority THEN Err("InvalidTransaction")
    ELSE [request |-> request, chainId |-> x.chainId, gas |-> x.gas, fee |-> x.fee, priority |-> x.priority]

\* The hash of an envelope identifies it; an id is the text of a hash.
IdOf(envelope) == [hash |-> envelope, spelling |-> "canonical"]

\* The bytes must be those the id is the hash of.
FromEnvelope(id, envelope) ==
    IF id.spelling # "canonical" \/ envelope = None \/ id.hash # envelope THEN Err("InvalidTransaction")
    ELSE [id |-> id, envelope |-> envelope]

\* What a wallet hands to the coordinator.
Rebroadcast(p) ==
    IF p.version # 1 \/ p.kind # "ethereum.signed" THEN Err("InvalidTransaction")
    ELSE FromEnvelope(p.id, p.envelope)

\* The most a signed transaction can spend on fees.
InspectFees(e) ==
    IF e.chainId = 0 \/ e.gas = 0 \/ e.priority > e.fee THEN Err("Inspection")
    ELSE IF e.fee * e.gas > WeiMax THEN Err("Overflow")
    ELSE [chainId |-> e.chainId, total |-> e.fee * e.gas]

-----------------------------------------------------------------------------
(***************************************************************************)
(* Builders, their snapshots and their envelopes in wallets that differ in *)
(* account, network, chain id, asset or decimals, with restarts between    *)
(* any two steps.                                                          *)
(***************************************************************************)

CONSTANTS Net, OtherNet

VARIABLES
    builder,   \* the builder in memory
    saved,     \* the snapshot kept, and the builder it was taken of
    kept,      \* the signed transaction kept
    reply,     \* how the last call ended
    sent       \* what was handed to the coordinator

vars == <<builder, saved, kept, reply, sent>>

Alice == <<10>>
Bob == <<171>>
TokenA == <<1>>
TokenB == <<2>>

Config(network, id, asset, decimals) ==
    [chain |-> "ethereum", network |-> network, chainId |-> id, asset |-> asset, decimals |-> decimals]

Configs == {Config(Net, 1, Native, 2), Config(OtherNet, 2, Native, 2), Config(Net, 1, TokenA, 2),
            Config(Net, 1, TokenA, 1), Config(Net, 1, TokenB, 2),
            Config(Blank, 1, Native, 2), Config(Net, 0, Native, 2), Config(Net, 1, Native, 1),
            Config(Net, 1, ZeroAddress, 2), Config(Net, 1, TokenA, 4),
            [Config(Net, 1, Native, 2) EXCEPT !.chain = "bitcoin"]}

Wallets == {w \in {Create(c, a) : c \in Configs, a \in {Alice, Bob}} : ~IsErr(w)}

Amounts == {Normalize(0, 0), Normalize(-1, 0), Normalize(5, 1), Normalize(125, 2), Normalize(1, 3), Normalize(900, 0)}

To == {[encoding |-> "hex", text |-> t] : t \in {<<"0", "x", "a", "b">>, <<"0", "x", "A", "1">>, <<"0", "x", "a">>}}
      \cup {[encoding |-> "base58", text |-> <<"0", "x", "a", "b">>]}

Contexts == {[gas |-> 2, fee |-> 3, priority |-> 1], [gas |-> 2, fee |-> 3, priority |-> 4], [gas |-> 0, fee |-> 3, priority |-> 1]}

Init == builder = None /\ saved = None /\ kept = None /\ reply = "none" /\ sent = {}

\* One transfer per behaviour: nothing else is started once something was kept.
Started(w) ==
    /\ builder = None /\ saved = None /\ kept = None
    /\ builder' = NewBuilder(w) /\ reply' = "ok"
    /\ UNCHANGED <<saved, kept, sent>>

Asked(to, amount) ==
    /\ builder # None
    /\ LET bytes == ParseAddress(to)
           b == IF bytes = Error THEN Err("InvalidAddress") ELSE AddTransfer(builder, bytes, amount)
       IN  IF IsErr(b) THEN builder' = builder /\ reply' = b.error ELSE builder' = b /\ reply' = "ok"
    /\ UNCHANGED <<saved, kept, sent>>

Saved ==
    /\ builder # None /\ saved = None /\ kept = None
    /\ LET s == Snapshot(builder)
       IN  IF IsErr(s) THEN saved' = saved /\ reply' = s.error
           ELSE saved' = [snapshot |-> s, of |-> builder] /\ reply' = "ok"
    /\ UNCHANGED <<builder, kept, sent>>

Restart ==
    /\ builder' = None /\ reply' = "none"
    /\ UNCHANGED <<saved, kept, sent>>

Restored(w) ==
    /\ builder = None /\ saved # None
    /\ LET b == Restore(w, saved.snapshot)
       IN  IF IsErr(b) THEN builder' = None /\ reply' = b.error ELSE builder' = b /\ reply' = "restored"
    /\ UNCHANGED <<saved, kept, sent>>

\* The coordinator chooses gas and fees; the signed transaction may be kept.
Prepared(x) ==
    /\ builder # None /\ kept = None
    /\ LET r == Request(builder)
           e == IF IsErr(r) THEN r ELSE Unsigned(r, x @@ [chainId |-> builder.wallet.config.chainId])
       IN  IF IsErr(e) THEN kept' = kept /\ reply' = e.error
           ELSE /\ kept' = [version |-> 1, kind |-> "ethereum.signed", id |-> IdOf(e), envelope |-> e,
                            of |-> builder]
                /\ reply' = "ok"
    /\ UNCHANGED <<builder, saved, sent>>

\* A kept transaction comes back as it was, or with one part of another.
Variants(k) ==
    {k, [k EXCEPT !.version = 2], [k EXCEPT !.kind = "bitcoin.signed"], [k EXCEPT !.envelope = None],
     [k EXCEPT !.envelope = [k.envelope EXCEPT !.gas = 1]], [k EXCEPT !.id.spelling = "upper"],
     [k EXCEPT !.id.hash = [k.envelope EXCEPT !.gas = 1]]}

Sent(k) ==
    /\ builder = None
    /\ LET s == Rebroadcast(k)
       IN  IF IsErr(s) THEN sent' = sent /\ reply' = s.error ELSE sent' = sent \cup {s} /\ reply' = "ok"
    /\ UNCHANGED <<builder, saved, kept>>

Next ==
    \/ Restart
    \/ Saved
    \/ \E w \in Wallets : Started(w) \/ Restored(w)
    \/ \E to \in To, amount \in Amounts : Asked(to, amount)
    \/ \E x \in Contexts : Prepared(x)
    \/ kept # None /\ \E k \in Variants(kept) : Sent(k)

Spec == Init /\ [][Next]_vars

-----------------------------------------------------------------------------

SameBuilder(a, b) ==
    /\ a.transfer = b.transfer /\ a.wallet.address = b.wallet.address
    /\ [a.wallet.config EXCEPT !.chainId = 0] = [b.wallet.config EXCEPT !.chainId = 0]

\* Builder::restore gives back the transfer that was saved: same account, network,
\* asset, decimals, destination and amount.  A snapshot does not name the chain id
\* of its network.
RestoredIsSaved == reply = "restored" => SameBuilder(builder, saved.of)

\* What Builder::snapshot writes, the wallet it was taken in restores, after any
\* restart: no text it writes is one it refuses to read.
OwnSnapshotRestores == saved # None => ~IsErr(Restore(saved.of.wallet, saved.snapshot))

\* A transfer means the same through a builder and through a batch of one: the
\* request is the same, or both refuse, and a refused transfer is never a request
\* for nothing.
OneMeaning ==
    builder # None /\ builder.transfer = None =>
        \A to \in To, amount \in Amounts :
            LET bytes == ParseAddress(to)
                b == IF bytes = Error THEN Err("InvalidAddress") ELSE AddTransfer(builder, bytes, amount)
                single == IF IsErr(b) THEN b ELSE Request(b)
                batch == BatchPreparation(builder.wallet.config, builder.wallet, to, amount)
            IN  single = batch

\* The units a request moves: the value, or the amount of the token call.
Units(r) == FromBase(IF r.input = None THEN r.value ELSE r.input[2], ByteBase)

\* The envelope kept pays exactly the transfer of its builder: the destination,
\* in the asset of the wallet, the atomic units of the amount, all of them positive.
EnvelopePaysTheTransfer ==
    kept # None =>
        LET r == kept.envelope.request
            t == kept.of.transfer
            c == kept.of.wallet.config
        IN  /\ r.from = kept.of.wallet.address
            /\ Units(r) > 0 /\ FromAtomic(Units(r), c.decimals) = t.amount
            /\ IF c.asset = Native THEN r.to = t.to
               ELSE r.to = c.asset /\ r.input[1] = t.to /\ FromBase(r.value, ByteBase) = 0

\* The first transfer of a builder stays: a second is refused and changes nothing.
FirstTransferStays ==
    builder # None /\ builder' # None /\ builder.transfer # None => builder' = builder

\* Broadcaster::broadcast hands on only the exact bytes that were signed, under
\* their own id, whatever was done to the kept transaction.
SentWasSigned == \A s \in sent : s.envelope = kept.envelope /\ s.id = kept.id

-----------------------------------------------------------------------------
\* The texts of addresses and transaction ids.

HexDigits == ToSet(HexChars) \cup ToSet(UpperChars)

IsHexadecimal(t) == SubSeq(t, 1, 2) = <<"0", "x">> /\ \A i \in 3..Len(t) : t[i] \in HexDigits

Lower(t) == [i \in DOMAIN t |-> IF t[i] \in ToSet(UpperChars) THEN HexChars[HexValue(t[i]) + 1] ELSE t[i]]

\* Two texts never name one transaction: submissions and stored ids are compared as
\* text, so an id is read from its canonical text only, and written as it was read.
IdHasOneText(text, address, id) == id # Error => Hexadecimal(id) = text /\ id = address

\* Every hexadecimal text of the right length is an address, in any case, and its
\* lower case is how the address is written.
AddressTextRoundTrips(text, address) ==
    Len(text) = 2 + 2 * AddressBytes /\ IsHexadecimal(text) =>
        address # Error /\ Hexadecimal(address) = Lower(text)
=============================================================================
