------------------------------ MODULE Signing ------------------------------
(***************************************************************************)
(* Keys, signers and what the builders of the chains ask of them.  The     *)
(* curve is a cyclic group of order N: a secret is a scalar, its public    *)
(* point the same number; the point -p has the x coordinate of p and the   *)
(* other parity.  A signature is the scalar that made it and what it       *)
(* signs: it verifies under the public point of that scalar and no other.  *)
(***************************************************************************)
EXTENDS Integers, Sequences, FiniteSets

CONSTANTS
    None,
    N,         \* the order of the group, odd
    TagHash   \* TagHash[x]: the tagged hash of an x coordinate; N or more is no scalar

VARIABLES ask, answer
vars == <<ask, answer>>

Error(kind) == [error |-> kind]
Failed(r) == "error" \in DOMAIN r

-----------------------------------------------------------------------------
\* The curve.

Negate(p) == (N - p) % N
X(p) == IF p <= Negate(p) THEN p ELSE Negate(p)
Odd(p) == p # X(p)
ValidScalar(d) == d \in 1..(N - 1)

\* PublicKey: x and y in the raw and uncompressed formats, x and the parity in the
\* compressed one, x alone in the last.
Encoded(p, format) ==
    [format |-> format, x |-> X(p), parity |-> IF format = "XOnly" THEN None ELSE IF Odd(p) THEN 1 ELSE 0]

\* CompressedPublicKey::from_slice and the like.
Point(k) == IF k.parity = 1 THEN Negate(k.x) ELSE k.x

-----------------------------------------------------------------------------
\* SecretKey of the crypto package.

SecretKeyNew(bytes) == IF ValidScalar(bytes) THEN [key |-> bytes] ELSE Error("InvalidKey")

SignEcdsa(d, digest, encoding) ==
    IF digest.bytes # 32 THEN Error("InvalidDigest")
    ELSE [by |-> d, signs |-> digest, recovery |-> IF encoding = "Recoverable" THEN (IF Odd(d) THEN 1 ELSE 0) ELSE None]

\* schnorr::SigningKey::from_bytes: of d and -d the one with the even point.
Even(d) == IF Odd(d) THEN Negate(d) ELSE d

\* ScalarTweak::scalar.
TweakScalar(tweak, d) ==
    IF tweak.tag = "" THEN N ELSE IF tweak.kind = "Add" THEN tweak.scalar ELSE TagHash[X(d)]

TweakedKey(d, tweak) ==
    LET t == TweakScalar(tweak, d)
    IN  IF t >= N THEN Error("InvalidTweak")
        ELSE IF (Even(d) + t) % N = 0 THEN Error("InvalidTweak")
        ELSE [key |-> Even((Even(d) + t) % N)]

SignSchnorr(d, digest, encoding, tweak) ==
    IF encoding # "Raw" THEN Error("UnsupportedEncoding")
    ELSE IF digest.bytes # 32 THEN Error("InvalidDigest")
    ELSE LET k == IF tweak = None THEN [key |-> Even(d)] ELSE TweakedKey(d, tweak)
         IN  IF Failed(k) THEN k ELSE [by |-> k.key, signs |-> digest, recovery |-> None]

-----------------------------------------------------------------------------
\* The signers.

Payload(r, signature, public) ==
    IF Failed(signature) THEN Error("InvalidRequest")
    ELSE [scheme |-> r.scheme, encoding |-> r.encoding, signature |-> signature, public |-> public]

\* KeyPair::sign_now.
KeyPairSign(d, r) ==
    LET public == Encoded(d, r.format)
    IN  CASE r.payload.kind # "Digest" -> Error("UnsupportedOperation")
          [] r.payload.kind = "Digest" /\ r.scheme = "Ecdsa" ->
                IF r.tweak # None THEN Error("UnsupportedOperation") ELSE Payload(r, SignEcdsa(d, r.payload, r.encoding), public)
          [] r.payload.kind = "Digest" /\ r.scheme = "Schnorr" -> Payload(r, SignSchnorr(d, r.payload, r.encoding, r.tweak), public)
          [] OTHER -> Error("UnsupportedScheme")

\* Key::sign_message of Solana: the check of the fresh signature against the
\* key's own address never fails.
SignMessage(d, message) == [by |-> d, signs |-> message, recovery |-> None]

\* The signer of a Solana key.
SolanaSign(d, r) ==
    IF r.scheme # "Ed25519" THEN Error("UnsupportedScheme")
    ELSE IF r.encoding # "Raw" \/ r.format # "Raw" THEN Error("InvalidRequest")
    ELSE IF r.tweak # None THEN Error("UnsupportedOperation")
    ELSE IF r.payload.kind # "Message" THEN Error("InvalidRequest")
    ELSE Payload(r, SignMessage(d, r.payload), Encoded(d, "Raw"))

Signs(signer, d, r) == IF signer = "Solana" THEN SolanaSign(d, r) ELSE KeyPairSign(d, r)

-----------------------------------------------------------------------------
\* The builders: what they ask, and what they make of the answer.

Request(payload, scheme, encoding, format, tweak) ==
    [payload |-> payload, scheme |-> scheme, encoding |-> encoding, format |-> format, tweak |-> tweak]
Hash(what) == [kind |-> "Digest", bytes |-> 32, of |-> what]
TapTweak == [kind |-> "TaggedHashAdd", tag |-> "TapTweak", scalar |-> 0]

\* XOnlyPublicKey::tap_tweak: the even point of x, and the hash of x times the generator.
OutputKey(x) == X((x + TagHash[x]) % N)

Verifies(s, x, what) == X(s.by) = x /\ s.signs = what

\* SighashType::ecdsa: the default of Taproot has no form for P2WPKH.
EcdsaSighash(mode) == IF mode = "TaprootDefault" THEN Error("InvalidTransaction") ELSE [flag |-> mode]
TaprootSighash(mode) == [flag |-> mode]

\* sign_p2wpkh_input; the script of the input is that of the point owner.
P2wpkh(d, owner, what) ==
    LET a == KeyPairSign(d, Request(Hash(what), "Ecdsa", "Der", "Compressed", None))
    IN  IF Failed(EcdsaSighash(what.mode)) THEN EcdsaSighash(what.mode)
        ELSE IF Failed(a) THEN Error("Signing")
        ELSE IF Point(a.public) # owner \/ a.scheme # "Ecdsa" \/ a.encoding # "Der" THEN Error("Signing")
        ELSE IF ~Verifies(a.signature, X(owner), Hash(what)) THEN Error("Signing")
        ELSE a

\* sign_p2tr_input; the script of the input is that of the output key of owner.
P2tr(d, owner, what) ==
    LET a == KeyPairSign(d, Request(Hash([what EXCEPT !.mode = TaprootSighash(what.mode).flag]), "Schnorr", "Raw", "XOnly", TapTweak))
    IN  IF Failed(a) THEN Error("Signing")
        ELSE IF OutputKey(a.public.x) # OutputKey(X(owner)) \/ a.scheme # "Schnorr" \/ a.encoding # "Raw" THEN Error("Signing")
        ELSE IF ~Verifies(a.signature, OutputKey(a.public.x), Hash(what)) THEN Error("Signing")
        ELSE a

\* The sender is recovered from the signature.
Recovered(s) == IF s.recovery = 1 THEN Negate(X(s.by)) ELSE X(s.by)

Eip1559(d, owner, what) ==
    LET a == KeyPairSign(d, Request(Hash(what), "Ecdsa", "Recoverable", "Raw", None))
    IN  IF Failed(a) \/ Recovered(a.signature) # owner THEN Error("Signing") ELSE a

\* Variant of EnvelopeSign that compares no blockhash.
EnvelopeSignAnyLife(d, source, message, lifetime) ==
    IF d # source \/ message.payer # source THEN Error("Signing")
    ELSE [by |-> d, signs |-> message, lifetime |-> lifetime]

\* Envelope::sign: key, fee payer and source are one, and so are the blockhashes.
EnvelopeSign(d, source, message, lifetime) ==
    IF d # source \/ message.payer # source \/ message.blockhash # lifetime THEN Error("Signing")
    ELSE [by |-> d, signs |-> message, lifetime |-> lifetime]

-----------------------------------------------------------------------------

-----------------------------------------------------------------------------
(***************************************************************************)
(* Signing over a group of order 7: all secrets, two of them no scalars,   *)
(* with tagged hashes that are small, that cancel a key and that are no    *)
(* scalar; and all requests a signer can tell apart.                       *)
(***************************************************************************)

Base == [do |-> "sign", curve |-> "Secp256k1", signer |-> "KeyPair", secret |-> 1, owner |-> 1, what |-> [tx |-> "tx", mode |-> "All"], request |-> None, message |-> None, lifetime |-> "h1"]

Builds == {[Base EXCEPT !.do = do, !.secret = d, !.owner = o, !.what.mode = m] :
              m \in {"All", "TaprootDefault"}, do \in {"p2wpkh", "p2tr", "eip1559"}, d \in 0..N, o \in 1..(N - 1)}

Tweaks == {None, [kind |-> "Add", tag |-> "t", scalar |-> 2], [kind |-> "TaggedHashAdd", tag |-> "", scalar |-> 0], TapTweak}

Signings ==
    {[Base EXCEPT !.signer = s, !.curve = IF s = "Solana" THEN "Ed25519" ELSE "Secp256k1", !.secret = d,
                  !.request = Request([kind |-> k, bytes |-> n, of |-> "tx"], scheme, encoding, format, t)] :
        s \in {"KeyPair", "Solana"}, d \in {1, N - 1}, k \in {"Digest", "Message"}, n \in {31, 32},
        scheme \in {"Ecdsa", "Schnorr", "Ed25519"}, encoding \in {"Der", "Recoverable", "Raw"},
        format \in {"Compressed", "XOnly", "Raw"}, t \in Tweaks}

Envelopes ==
    {[Base EXCEPT !.do = "envelope", !.curve = "Ed25519", !.secret = d, !.owner = o, !.message = [payer |-> p, blockhash |-> h]] :
        d \in {1, 2}, o \in {1, 2}, p \in {1, 2}, h \in {"h1", "h2"}}

Asks == Builds \cup Signings \cup Envelopes

-----------------------------------------------------------------------------
Init == ask \in Asks /\ answer = None

Reply ==
    /\ answer = None
    /\ answer' =
         IF ask.curve # "Ed25519" /\ Failed(SecretKeyNew(ask.secret)) THEN SecretKeyNew(ask.secret)
         ELSE CASE ask.do = "sign" -> Signs(ask.signer, ask.secret, ask.request)
                [] ask.do = "p2wpkh" -> P2wpkh(ask.secret, ask.owner, ask.what)
                [] ask.do = "p2tr" -> P2tr(ask.secret, ask.owner, ask.what)
                [] ask.do = "eip1559" -> Eip1559(ask.secret, ask.owner, ask.what)
                [] ask.do = "envelope" -> EnvelopeSign(ask.secret, ask.owner, ask.message, ask.lifetime)
    /\ UNCHANGED ask

Done == answer # None /\ UNCHANGED vars
Next == Reply \/ Done
Spec == Init /\ [][Next]_vars

-----------------------------------------------------------------------------

\* Every builder is served by the key that owns its inputs, whatever the parity of
\* its points, and by no other; only a tweak that is no scalar, or one that makes the
\* zero key, is in the way of a Taproot key, and only the sighash of Taproot in that
\* of a P2WPKH input.
BuildersAreServed ==
    (answer # None /\ ask.do \in {"p2wpkh", "p2tr", "eip1559"} /\ ValidScalar(ask.secret)) =>
        LET owns == IF ask.do = "p2tr" THEN OutputKey(X(ask.secret)) = OutputKey(X(ask.owner)) ELSE ask.secret = ask.owner
            tweakable == ask.do = "p2tr" => (TagHash[X(ask.secret)] < N /\ OutputKey(X(ask.secret)) # 0)
            signable == ask.do = "p2wpkh" => ask.what.mode # "TaprootDefault"
        IN  Failed(answer) <=> ~(owns /\ tweakable /\ signable)

\* A signer answers with what was asked for: the scheme and encoding of the request,
\* a signature of exactly its payload, and the public key in its format.
AnswersWhatIsAsked ==
    (answer # None /\ ask.do = "sign" /\ ~Failed(answer)) =>
        /\ answer.scheme = ask.request.scheme /\ answer.encoding = ask.request.encoding
        /\ answer.signature.signs = ask.request.payload
        /\ answer.public.format = ask.request.format
        /\ ask.request.tweak = None => X(answer.signature.by) = answer.public.x

\* A signed Solana envelope is about one source and expires with the blockhash that
\* its message carries, which is what reconciliation waits for.
EnvelopesAgree ==
    (answer # None /\ ask.do = "envelope" /\ ~Failed(answer)) =>
        answer.by = answer.signs.payer /\ answer.lifetime = answer.signs.blockhash
=============================================================================
