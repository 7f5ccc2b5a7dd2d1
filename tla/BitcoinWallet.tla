---------------------------- MODULE BitcoinWallet ----------------------------
(***************************************************************************)
(* A Bitcoin wallet: the texts of its addresses on its network, a builder  *)
(* of several transfers, its snapshot and restoration, and the checks of a *)
(* kept transaction before it goes out again.  Coin selection and signing  *)
(* are in BitcoinBuild and BitcoinSend.                                    *)
(*                                                                         *)
(* An address is a payload of some type under the prefix of a network; its *)
(* text also has a letter case.  A transaction is a body, which its id     *)
(* hashes, and a witness, which the id does not cover.                     *)
(***************************************************************************)
EXTENDS Decimals

CONSTANTS
    None,
    BtcDecimals,   \* 8 in the code
    MaxSatoshi     \* u64::MAX

Err(kind) == [error |-> kind]
IsErr(r) == DOMAIN r = {"error"}

\* Base58 texts tell mainnet from the rest, segwit texts also regtest.
Prefix(type, network) ==
    IF network = "mainnet" THEN "main"
    ELSE IF type \notin {"p2pkh", "p2sh"} /\ network = "regtest" THEN "regtest" ELSE "test"

\* A native address is written in one way.
Canonical(t) == [t EXCEPT !.case = "lower"]

ParseForNetwork(t, network) ==
    IF t.type = "none" THEN Error
    ELSE IF t.prefix # Prefix(t.type, network) THEN Error ELSE Canonical(t)

\* The text of an address and the encoding it uses.
FormatAddress(network, address) ==
    LET parsed == ParseForNetwork(address, network)
    IN  IF parsed = Error THEN Error
        ELSE IF parsed.type = "future" THEN Error
        ELSE [encoding |-> CASE parsed.type \in {"p2pkh", "p2sh"} -> "base58check"
                             [] parsed.type \in {"p2tr", "p2a"} -> "bech32m"
                             [] OTHER -> "bech32",
              text |-> parsed]

\* The declared encoding must be the one the text is in.
ParseAddress(network, to) ==
    LET parsed == ParseForNetwork(to.text, network)
        formatted == IF parsed = Error THEN Error ELSE FormatAddress(network, parsed)
    IN  IF formatted = Error THEN Error
        ELSE IF formatted.encoding # to.encoding THEN Error ELSE parsed

-----------------------------------------------------------------------------

Validate(c) == c.chain = "bitcoin" /\ c.scope = c.network

\* The wallet of a key, as a segwit or as a taproot account.
Create(c, key) ==
    IF ~Validate(c) THEN Err("Unsupported")
    ELSE [config |-> c,
          address |-> [type |-> c.addressType, payload |-> key, case |-> "lower",
                       prefix |-> Prefix(c.addressType, c.network)]]

Satoshi(amount) ==
    LET units == ToAtomic(amount, BtcDecimals)
    IN  IF units = Error THEN Error ELSE IF units > MaxSatoshi THEN Error ELSE units

NewBuilder(wallet) == [wallet |-> wallet, recipients |-> <<>>]

\* Builder::validate: the scope and the source are of the network.
Valid(b) ==
    /\ Validate(b.wallet.config)
    /\ ParseForNetwork(b.wallet.address, b.wallet.config.network) # Error

AddTransfer(b, address, amount) ==
    LET to == ParseForNetwork(address, b.wallet.config.network)
    IN  IF to = Error THEN Err("InvalidAddress")
        ELSE IF Satoshi(amount) = Error THEN Err("InvalidAmount")
        ELSE [b EXCEPT !.recipients = Append(@, [to |-> to, amount |-> amount])]

Snapshot(b) ==
    LET c == b.wallet.config
    IN  IF ~Valid(b) THEN Err("InvalidSnapshot")
        ELSE IF b.recipients = <<>> THEN Err("InvalidTransaction")
        ELSE [version |-> 1, kind |-> "bitcoin.transfer", chain |-> c.chain, network |-> c.scope,
              source |-> b.wallet.address, change |-> b.wallet.address,
              asset |-> [kind |-> "native", ticker |-> "BTC", decimals |-> BtcDecimals],
              transfers |-> [i \in DOMAIN b.recipients |->
                  [destination |-> b.recipients[i].to, amount |-> Display(b.recipients[i].amount)]]]

Belongs(w, s) ==
    /\ s.chain = w.config.chain /\ s.network = w.config.scope
    /\ s.chain = "bitcoin" /\ s.network = w.config.network
    /\ s.source = w.address /\ s.change = w.address
    /\ s.asset = [kind |-> "native", ticker |-> "BTC", decimals |-> BtcDecimals]

\* The recipients of a snapshot, in order.
Decoded(w, s) ==
    [i \in DOMAIN s.transfers |->
        LET to == ParseForNetwork(s.transfers[i].destination, w.config.network)
            amount == Parse(s.transfers[i].amount)
        IN  IF to = Error \/ amount = Error THEN Error
            ELSE IF Satoshi(amount) = Error THEN Error
            ELSE [to |-> to, amount |-> amount]]

Restore(w, s) ==
    IF \/ s.version # 1 \/ s.kind # "bitcoin.transfer"
       \/ ~Belongs(w, s)
       \/ s.transfers = <<>>
       \/ Error \in ToSet(Decoded(w, s))
       \/ ~Valid(NewBuilder(w))
    THEN Err("InvalidSnapshot")
    ELSE [NewBuilder(w) EXCEPT !.recipients = Decoded(w, s)]

-----------------------------------------------------------------------------
\* Kept transactions.

\* An id is read in any spelling and stands for the body it hashes.
IdOf(envelope) == [hash |-> envelope.body, spelling |-> "lower"]

\* The bytes must decode to a transaction whose body the id is of.
FromConsensusBytes(id, envelope) ==
    IF envelope = None THEN Err("InvalidTransaction")
    ELSE IF envelope.body # id.hash THEN Err("InvalidTransaction")
    ELSE [id |-> [id EXCEPT !.spelling = "lower"], envelope |-> envelope]

\* What broadcast_prepared gives to the node.
BroadcastPrepared(p) ==
    IF p.version # 1 \/ p.kind # "bitcoin.signed" THEN Err("InvalidTransaction")
    ELSE FromConsensusBytes(p.id, p.envelope)

\* Outputs in order, with their index; input values and the fee are not in it.
Inspect(signed) ==
    IF signed.envelope.body # signed.id.hash THEN Err("InvalidTransaction")
    ELSE [id |-> signed.id,
          outputs |-> [i \in DOMAIN signed.envelope.body |->
              [index |-> i - 1, value |-> signed.envelope.body[i].value, to |-> signed.envelope.body[i].to]]]

-----------------------------------------------------------------------------
(***************************************************************************)
(* Builders, their snapshots and their transactions in wallets of one key  *)
(* on several networks, some of which share the texts of addresses.        *)
(***************************************************************************)

VARIABLES
    builder,   \* the builder in memory
    asked,     \* the transfers it took
    saved,     \* the snapshot kept, and the builder and transfers it was taken of
    kept,      \* the signed transaction kept, and the transfers it is for
    reply,     \* how the last call ended
    sent       \* what was handed to the node

vars == <<builder, asked, saved, kept, reply, sent>>

Config(network, scope, type) == [chain |-> "bitcoin", network |-> network, scope |-> scope, addressType |-> type]

Configs == {Config(n, n, "p2wpkh") : n \in {"mainnet", "signet", "testnet4", "regtest"}}
           \cup {Config("signet", "signet", "p2tr"), Config("signet", "mainnet", "p2tr"),
                 [Config("signet", "signet", "p2tr") EXCEPT !.chain = "ethereum"]}

Wallets == {w \in {Create(c, "key") : c \in Configs} : ~IsErr(w)}

Text(type, prefix) == [type |-> type, payload |-> "other", case |-> "lower", prefix |-> prefix]

Texts == {Text(t, p) : t \in {"p2pkh", "p2sh"}, p \in {"main", "test"}}
         \cup {Text(t, p) : t \in {"p2wpkh", "p2wsh", "p2tr", "p2a", "future"}, p \in {"main", "test", "regtest"}}
         \cup {[Text("p2wpkh", "test") EXCEPT !.case = "upper"], Text("none", "test")}

Encodings == {"base58check", "bech32", "bech32m", "hex"}

To == {[encoding |-> "bech32", text |-> Text("p2wpkh", "test")], [encoding |-> "bech32m", text |-> Text("p2tr", "test")],
       [encoding |-> "bech32", text |-> [Text("p2wpkh", "test") EXCEPT !.case = "upper"]],
       [encoding |-> "bech32", text |-> Text("p2tr", "test")], [encoding |-> "bech32", text |-> Text("p2wpkh", "main")],
       [encoding |-> "base58check", text |-> Text("p2pkh", "test")]}

Amounts == {Normalize(5, 1), Normalize(125, 2), Normalize(-1, 0), Normalize(1, 3), Normalize(70, 0)}

Init == builder = None /\ asked = <<>> /\ saved = None /\ kept = None /\ reply = "none" /\ sent = {}

\* One payment per behaviour: nothing else is started once something was kept.
Started(w) ==
    /\ builder = None /\ saved = None /\ kept = None
    /\ builder' = NewBuilder(w) /\ asked' = <<>> /\ reply' = "ok"
    /\ UNCHANGED <<saved, kept, sent>>

Asked(to, amount) ==
    /\ builder # None /\ Len(asked) < 2
    /\ LET address == ParseAddress(builder.wallet.config.network, to)
           b == IF address = Error THEN Err("InvalidAddress") ELSE AddTransfer(builder, address, amount)
       IN  IF IsErr(b) THEN UNCHANGED <<builder, asked>> /\ reply' = b.error
           ELSE /\ builder' = b /\ reply' = "ok"
                /\ asked' = Append(asked, [to |-> Canonical(to.text), amount |-> amount])
    /\ UNCHANGED <<saved, kept, sent>>

Saved ==
    /\ builder # None /\ saved = None /\ kept = None
    /\ LET s == Snapshot(builder)
       IN  IF IsErr(s) THEN saved' = saved /\ reply' = s.error
           ELSE saved' = [snapshot |-> s, of |-> builder, asked |-> asked] /\ reply' = "ok"
    /\ UNCHANGED <<builder, asked, kept, sent>>

Restart ==
    /\ builder' = None /\ asked' = <<>> /\ reply' = "none"
    /\ UNCHANGED <<saved, kept, sent>>

Restored(w) ==
    /\ builder = None /\ saved # None
    /\ LET b == Restore(w, saved.snapshot)
       IN  IF IsErr(b) THEN UNCHANGED <<builder, asked>> /\ reply' = b.error
           ELSE builder' = b /\ asked' = saved.asked /\ reply' = "restored"
    /\ UNCHANGED <<saved, kept, sent>>

\* Outputs for the recipients, in order, and one for the change.
Body(b) ==
    Append([i \in DOMAIN b.recipients |-> [to |-> b.recipients[i].to, value |-> Satoshi(b.recipients[i].amount)]],
           [to |-> b.wallet.address, value |-> 1])

Prepared ==
    /\ builder # None /\ kept = None
    /\ IF builder.recipients = <<>> THEN kept' = kept /\ reply' = "InvalidTransaction"
       ELSE LET e == [body |-> Body(builder), witness |-> "signed"]
            IN  /\ kept' = [version |-> 1, kind |-> "bitcoin.signed", id |-> IdOf(e), envelope |-> e, asked |-> asked]
                /\ reply' = "ok"
    /\ UNCHANGED <<builder, asked, saved, sent>>

\* A kept transaction comes back as it was, or with one part changed.
Variants(k) ==
    LET other == [k.envelope.body EXCEPT ![1].value = 99]
    IN  {k, [k EXCEPT !.version = 2], [k EXCEPT !.kind = "ethereum.signed"], [k EXCEPT !.envelope = None],
         [k EXCEPT !.envelope.body = other], [k EXCEPT !.envelope.witness = "none"],
         [k EXCEPT !.id.spelling = "upper"], [k EXCEPT !.id.hash = other]}

Sent(k) ==
    /\ builder = None
    /\ LET s == BroadcastPrepared(k)
       IN  IF IsErr(s) THEN sent' = sent /\ reply' = s.error ELSE sent' = sent \cup {s} /\ reply' = "ok"
    /\ UNCHANGED <<builder, asked, saved, kept>>

Next ==
    \/ Restart
    \/ Saved
    \/ Prepared
    \/ \E w \in Wallets : Started(w) \/ Restored(w)
    \/ \E to \in To, amount \in Amounts : Asked(to, amount)
    \/ kept # None /\ \E k \in Variants(kept) : Sent(k)

Spec == Init /\ [][Next]_vars

-----------------------------------------------------------------------------

\* Builder::restore gives back the recipients that were saved, in the wallet they
\* were saved in: an address text that several test networks share does not carry a
\* payment from one of them to another.
RestoredIsSaved == reply = "restored" => builder = saved.of

\* What Builder::snapshot writes, the wallet it was taken in restores.
OwnSnapshotRestores == saved # None => ~IsErr(Restore(saved.of.wallet, saved.snapshot))

\* Every transfer the builder took is paid, to its destination, in its exact amount
\* and in the order asked, also after a restart; SignedTransaction::inspect shows it.
EveryTransferIsPaid ==
    kept # None =>
        LET shown == Inspect([id |-> kept.id, envelope |-> kept.envelope])
        IN  \A i \in DOMAIN kept.asked :
                /\ shown.outputs[i].to = kept.asked[i].to
                /\ FromAtomic(shown.outputs[i].value, BtcDecimals) = kept.asked[i].amount

\* A broadcast hands on the outputs and inputs that were signed, under their own id;
\* the id does not cover the witness, which the node checks.
SentWasSigned == \A s \in sent : s.envelope.body = kept.envelope.body /\ s.id = kept.id

\* parse_address takes exactly the texts address_text writes on this network, in
\* either case, under the encoding address_text names; so an address that was shown
\* can be entered again, and under no other encoding.
ShownAddressesParse ==
    builder # None /\ asked = <<>> =>
        LET network == builder.wallet.config.network
        IN  \A t \in Texts, e \in Encodings :
                (ParseAddress(network, [encoding |-> e, text |-> t]) # Error)
                    <=> /\ t.prefix = Prefix(t.type, network) /\ t.type \notin {"none", "future"}
                        /\ e = CASE t.type \in {"p2pkh", "p2sh"} -> "base58check"
                                 [] t.type \in {"p2wpkh", "p2wsh"} -> "bech32" [] OTHER -> "bech32m"
=============================================================================
