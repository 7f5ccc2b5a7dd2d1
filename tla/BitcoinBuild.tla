---------------------------- MODULE BitcoinBuild ----------------------------
(***************************************************************************)
(* How a Bitcoin transaction is put together from spendable outputs: the   *)
(* fee of a transaction that is not signed yet, the coins one sender       *)
(* spends, the sweep of a whole wallet, and the single transaction that    *)
(* several senders fund together.                                          *)
(*                                                                         *)
(* Sizes and dust limits are Bitcoin's own.  A coin is its identity, its   *)
(* value and the script that locks it; identities are ordered as           *)
(* outpoints.  Amounts are unsigned 64-bit integers whose largest value is *)
(* a constant; a checked operation past it fails as in the code.           *)
(***************************************************************************)
EXTENDS Integers, Sequences, FiniteSets, FiniteSetsExt, SequencesExt

CONSTANTS
    U64Max,      \* largest u64
    ThisNet      \* the network of the wallet

Ok(inputs, outputs) == [kind |-> "ok", inputs |-> inputs, outputs |-> outputs]

Err(kind) == [kind |-> kind, inputs |-> <<>>, outputs |-> <<>>]

Total(list) == MapThenSumSet(LAMBDA i : list[i].value, DOMAIN list)

-----------------------------------------------------------------------------
(* Sizes, in bytes and weight units.                                       *)

ScriptLength(script) ==
    CASE script = "p2wpkh" -> 22
      [] script = "p2tr"   -> 34
      [] script = "p2pkh"  -> 25

OutputSize(script) == 8 + 1 + ScriptLength(script)

\* An output that costs more to spend, at 3 satoshis a byte, than it holds.
MinimalNonDust(script) ==
    3 * (OutputSize(script) + (IF script = "p2pkh" THEN 148 ELSE 67))

Spendable(script) == script \in {"p2wpkh", "p2tr"}

SatisfactionWeight(script) == IF script = "p2wpkh" THEN 109 ELSE 67

CompactSize(n) == IF n < 253 THEN 1 ELSE 3

\* The transaction with the witnesses it will have.
Weight(inputs, scripts) ==
    4 * (8 + CompactSize(Len(inputs)) + CompactSize(Len(scripts)) + 41 * Len(inputs)
           + MapThenSumSet(LAMBDA i : OutputSize(scripts[i]), DOMAIN scripts))
      + 2 + MapThenSumSet(LAMBDA i : SatisfactionWeight(inputs[i].script), DOMAIN inputs)

ForVsize(rate, vsize) == (rate * vsize + 999) \div 1000

\* More than U64Max stands for the overflow the code reports.
PredictedFee(inputs, scripts, rate) == ForVsize(rate, (Weight(inputs, scripts) + 3) \div 4)

-----------------------------------------------------------------------------
(* Checks both builders share.                                             *)

Duplicate(coins) == \E i, j \in DOMAIN coins : i # j /\ coins[i].id = coins[j].id

\* The error of an output that may not be paid, or "ok".
CheckedOutput(output, allowZero) ==
    CASE output.address.net # ThisNet -> "InvalidAddress"
      [] output.address.net = ThisNet /\ ~allowZero
           /\ output.value < MinimalNonDust(output.address.script) -> "InvalidTransaction"
      [] OTHER -> "ok"

\* The first thing in a list that is refused decides.
FirstError(list, Check(_)) ==
    LET bad == {i \in DOMAIN list : Check(list[i]) # "ok"}
    IN  IF bad = {} THEN "ok" ELSE Check(list[Min(bad)])

Scripts(outputs) == [i \in DOMAIN outputs |-> outputs[i].address.script]

ByOutpoint(coins) == SortSeq(coins, LAMBDA c, d : c.id < d.id)

-----------------------------------------------------------------------------
(* One sender.                                                             *)

RequestError(r) ==
    CASE r.available = <<>> -> "InsufficientFunds"
      [] r.available # <<>> /\ r.recipients = <<>> -> "InvalidTransaction"
      [] r.available # <<>> /\ r.recipients # <<>> /\ r.rate = 0 -> "FeeUnavailable"
      [] OTHER ->
           IF Duplicate(r.available) \/ \E i \in DOMAIN r.available : ~Spendable(r.available[i].script)
           THEN "InvalidTransaction"
           ELSE LET outputs == FirstError(r.recipients, LAMBDA o : CheckedOutput(o, r.drain))
                IN  IF outputs # "ok" THEN outputs
                    ELSE IF r.change.net # ThisNet THEN "InvalidAddress" ELSE "ok"

\* Everything the wallet has goes to the one recipient.
Drain(r) ==
    LET coins   == ByOutpoint(r.available)
        scripts == Scripts(r.recipients)
        fee     == PredictedFee(coins, scripts, r.rate)
        value   == Total(coins) - fee
    IN  IF Len(r.recipients) # 1 \/ Total(coins) > U64Max \/ fee > U64Max THEN Err("InvalidTransaction")
        ELSE IF value < MinimalNonDust(scripts[1]) THEN Err("InsufficientFunds")
        ELSE Ok(coins, <<[r.recipients[1] EXCEPT !.value = value]>>)

LargestFirst(coins) ==
    SortSeq(coins, LAMBDA c, d : c.value > d.value \/ (c.value = d.value /\ c.id < d.id))

\* What the loop finds after taking the first k coins.
Tried(r, selected) ==
    LET paid == Total(r.recipients)
        fee  == PredictedFee(selected, Scripts(r.recipients), r.rate)
    IN  IF Total(selected) > U64Max \/ fee > U64Max \/ paid + fee > U64Max THEN "InvalidTransaction"
        ELSE IF Total(selected) < paid + fee THEN "short"
        ELSE IF PredictedFee(selected, Append(Scripts(r.recipients), r.change.script), r.rate) > U64Max
             THEN "InvalidTransaction"
        ELSE "enough"

\* What is left goes back to the sender when it is worth an output, else to the fee.
Change(r, selected) ==
    LET left == Total(selected) - Total(r.recipients)
                  - PredictedFee(selected, Append(Scripts(r.recipients), r.change.script), r.rate)
    IN  IF left >= MinimalNonDust(r.change.script)
        THEN <<[address |-> r.change, value |-> left]>> ELSE <<>>

Select(r) ==
    LET coins   == LargestFirst(r.available)
        First(k) == SubSeq(coins, 1, k)
        decided == {k \in DOMAIN coins : Tried(r, First(k)) # "short"}
    IN  IF Total(r.recipients) > U64Max THEN Err("InvalidTransaction")
        ELSE IF decided = {} THEN Err("InsufficientFunds")
        ELSE LET selected == First(Min(decided))
             IN  IF Tried(r, selected) # "enough" THEN Err(Tried(r, selected))
                 ELSE Ok(selected, r.recipients \o Change(r, selected))

Build(r) ==
    IF RequestError(r) # "ok" THEN Err(RequestError(r))
    ELSE IF r.drain THEN Drain(r) ELSE Select(r)

-----------------------------------------------------------------------------
(* Several senders, one transaction: all coins of every sender, and the    *)
(* fee taken from what the senders have left over, in their order.         *)

GroupError(g) ==
    IF g.available = <<>> \/ g.recipients = <<>>
         \/ Total(g.available) > U64Max \/ Total(g.recipients) > U64Max THEN "InvalidTransaction"
    ELSE IF Total(g.available) < Total(g.recipients) THEN "InsufficientFunds"
    ELSE IF g.change.net # ThisNet THEN "InvalidAddress" ELSE "ok"

Surplus(groups) == [i \in DOMAIN groups |-> Total(groups[i].available) - Total(groups[i].recipients)]

\* Variant of AllocateFee: the last sender is charged first.
ChargeLast(surplus, fee) ==
    [i \in DOMAIN surplus |->
        LET behind == MapThenSumSet(LAMBDA j : surplus[j], (i + 1)..Len(surplus))
            owed   == IF fee < behind THEN 0 ELSE fee - behind
        IN  IF surplus[i] < owed THEN 0 ELSE surplus[i] - owed]

\* A sender pays what the senders before it could not.
AllocateFee(surplus, fee) ==
    [i \in DOMAIN surplus |->
        LET before == MapThenSumSet(LAMBDA j : surplus[j], 1..(i - 1))
            owed   == IF fee < before THEN 0 ELSE fee - before
        IN  IF surplus[i] < owed THEN 0 ELSE surplus[i] - owed]

Worth(groups, left) == {i \in DOMAIN groups : left[i] >= MinimalNonDust(groups[i].change.script)}

Coins(groups) == FlattenSeq([i \in DOMAIN groups |-> ByOutpoint(groups[i].available)])

Payments(groups) == FlattenSeq([i \in DOMAIN groups |-> groups[i].recipients])

\* The fee when the senders in `active` get their change.
GroupFee(groups, active, rate) ==
    LET kept == SelectSeq([i \in DOMAIN groups |-> i], LAMBDA i : i \in active)
    IN  PredictedFee(Coins(groups),
                     Scripts(Payments(groups)) \o [k \in DOMAIN kept |-> groups[kept[k]].change.script],
                     rate)

\* A sender whose change was dropped once does not get it back.
Keeps(groups, active, left) == active \cap Worth(groups, left)

\* The loop: the fee shrinks with every change output that is dropped.
Settle(groups, rate) ==
    LET surplus == Surplus(groups)
        owned   == MapThenSumSet(LAMBDA i : surplus[i], DOMAIN surplus)
        Round[active \in SUBSET DOMAIN groups] ==
            LET fee  == GroupFee(groups, active, rate)
                next == Keeps(groups, active, AllocateFee(surplus, fee))
            IN  IF fee > U64Max THEN [kind |-> "InvalidTransaction", active |-> active]
                ELSE IF fee > owned THEN [kind |-> "InsufficientFunds", active |-> active]
                ELSE IF next = active THEN [kind |-> "ok", active |-> active]
                ELSE Round[next]
    IN  Round[Worth(groups, surplus)]

BuildGrouped(groups, rate) ==
    LET broken  == FirstError(groups, GroupError)
        outputs == FirstError(Payments(groups), LAMBDA o : CheckedOutput(o, FALSE))
        settled == Settle(groups, rate)
        left    == AllocateFee(Surplus(groups), GroupFee(groups, settled.active, rate))
        kept    == SelectSeq([i \in DOMAIN groups |-> i], LAMBDA i : i \in settled.active)
    IN  IF groups = <<>> \/ rate = 0 THEN Err("InvalidTransaction")
        ELSE IF broken # "ok" THEN Err(broken)
        ELSE IF Duplicate(Coins(groups)) THEN Err("InvalidTransaction")
        ELSE IF outputs # "ok" THEN Err(outputs)
        ELSE IF settled.kind # "ok" THEN Err(settled.kind)
        ELSE Ok(Coins(groups),
                Payments(groups) \o [k \in DOMAIN kept |->
                    [address |-> groups[kept[k]].change, value |-> left[kept[k]]]])

-----------------------------------------------------------------------------
\* Requests to the builders, and what a transaction has to be.

AddressOf(script, net) == [script |-> script, net |-> net]

Home(script) == AddressOf(script, ThisNet)

\* A wallet's coins: all locked by one script, listed with distinct identities
\* from `first`.
Wallets(values, first, most, script) ==
    {[i \in DOMAIN held |-> [id |-> first + i, value |-> held[i], script |-> script]] :
        held \in BoundedSeq(values, most)}

BuildRequests(values, amounts, rates) ==
    LET odd == {<<[id |-> 1, value |-> 404, script |-> "p2wpkh"], [id |-> 1, value |-> 404, script |-> "p2wpkh"]>>,
                <<[id |-> 1, value |-> 404, script |-> "p2pkh"]>>}
        recipients ==
            {<<>>, <<[address |-> AddressOf("p2wpkh", "elsewhere"), value |-> 294]>>}
            \cup {<<[address |-> Home(s), value |-> a]>> : s \in {"p2wpkh", "p2pkh"}, a \in amounts}
            \cup {<<[address |-> Home("p2tr"), value |-> a], [address |-> Home("p2wpkh"), value |-> 294]>> :
                    a \in amounts}
        single ==
            [kind : {"single"}, available : Wallets(values, 0, 3, "p2wpkh") \cup Wallets(values, 0, 2, "p2tr") \cup odd,
             recipients : recipients, change : {Home("p2wpkh")}, rate : rates, drain : BOOLEAN]
            \cup [kind : {"single"}, available : Wallets(values, 0, 1, "p2tr"), recipients : recipients,
                  change : {AddressOf("p2tr", "elsewhere"), Home("p2tr")}, rate : rates, drain : BOOLEAN]
        paid(a) == <<[address |-> Home("p2wpkh"), value |-> a]>>
        group(first, script) ==
            [available : Wallets(values, first, 2, script), recipients : {paid(a) : a \in amounts},
             change : {Home(script)}]
        grouped ==
            [kind : {"grouped"}, rate : rates,
             groups : {<<>>} \cup {<<g>> : g \in group(0, "p2tr") \cup group(0, "p2wpkh")}
                      \cup {<<g, h>> : g \in group(0, "p2wpkh"), h \in group(2, "p2wpkh")}
                      \cup {<<g, h>> : g \in group(0, "p2wpkh"), h \in {k \in group(0, "p2wpkh") : k.available # <<>>}}]
    IN  single \cup grouped

BuildReply(request) ==
    IF request.kind = "single" THEN Build(request) ELSE BuildGrouped(request.groups, request.rate)

Built(reply) == reply.kind = "ok"

FeeOf(reply) == Total(reply.inputs) - Total(reply.outputs)

Asked(request) == IF request.kind = "single" THEN request.recipients ELSE Payments(request.groups)

Owned(request) == IF request.kind = "single" THEN request.available ELSE Coins(request.groups)

\* The virtual size of the signed transaction: a DER signature of 72 bytes at
\* most with a compressed key, or a Schnorr signature with its sighash byte.
SignedSize(reply) ==
    LET witness(script) == IF script = "p2wpkh" THEN 1 + 1 + 72 + 1 + 33 ELSE 1 + 1 + 65
        outputs == MapThenSumSet(LAMBDA i : OutputSize(reply.outputs[i].address.script), DOMAIN reply.outputs)
        weight  == 4 * (10 + 41 * Len(reply.inputs) + outputs) + 2
                     + MapThenSumSet(LAMBDA i : witness(reply.inputs[i].script), DOMAIN reply.inputs)
    IN  (weight + 3) \div 4

\* Once signed, the transaction pays the requested rate for every virtual byte
\* it turns out to have, with the coins it says it spends, each of them once.
FeeCoversSize(request, reply) ==
    Built(reply) =>
        /\ 1000 * FeeOf(reply) >= request.rate * SignedSize(reply)
        /\ ToSet(reply.inputs) \subseteq ToSet(Owned(request))
        /\ ~Duplicate(reply.inputs)

\* Every recipient is paid what was asked, to a sweep whatever is left, and no
\* output is below the limit at which nodes relay it.
PaidInFull(request, reply) ==
    Built(reply) =>
        /\ \A i \in DOMAIN Asked(request) :
             /\ reply.outputs[i].address = Asked(request)[i].address
             /\ reply.outputs[i].value = Asked(request)[i].value \/ (request.kind = "single" /\ request.drain)
        /\ \A i \in DOMAIN reply.outputs :
             reply.outputs[i].value >= MinimalNonDust(reply.outputs[i].address.script)

\* The coins S pay the request, with no change.
Pays(request, S) ==
    LET coins == SetToSeq(S)
    IN  Total(coins) >= Total(Asked(request)) + PredictedFee(coins, Scripts(Asked(request)), request.rate)

\* Coin selection is complete and spends as few coins as possible: it gives up
\* only when no choice of coins pays the request and its own fee, although a
\* small coin may cost more than it adds.
SelectionIsComplete(request, reply) ==
    (request.kind = "single" /\ ~request.drain /\ reply.kind \in {"ok", "InsufficientFunds"}) =>
        \A S \in SUBSET ToSet(request.available) :
            (S # {} /\ Asked(request) # <<>> /\ Pays(request, S)) => Built(reply) /\ Len(reply.inputs) <= Cardinality(S)

\* What a sender that gets no change may lose to the fee.
Forgone(request, script) == MinimalNonDust(script) + ForVsize(request.rate, OutputSize(script) + 1)

\* What is paid beyond the rate is at most the change that is not worth an
\* output: one output's worth per sender that got none back.
LittleIsWasted(request, reply) ==
    LET senders == IF request.kind = "single" THEN <<request>> ELSE request.groups
        extra   == FeeOf(reply) - PredictedFee(reply.inputs, Scripts(reply.outputs), request.rate)
        dropped == Len(Asked(request)) + Len(senders) - Len(reply.outputs)
    IN  Built(reply) =>
          extra <= (IF request.kind = "single" /\ request.drain THEN 0
                    ELSE dropped * Max({Forgone(request, senders[i].change.script) : i \in DOMAIN senders}))

\* Senders fund a grouped transaction in order: one that contributes nothing to
\* the fee gets its whole surplus back, and together they pay no less than the
\* fee of the transaction that is sent.
SendersPayInOrder(request, reply) ==
    (Built(reply) /\ request.kind = "grouped") =>
        LET surplus == Surplus(request.groups)
            change  == SubSeq(reply.outputs, Len(Asked(request)) + 1, Len(reply.outputs))
            fee     == PredictedFee(reply.inputs, Scripts(reply.outputs), request.rate)
        IN  /\ Total(change) <= MapThenSumSet(LAMBDA i : surplus[i], DOMAIN surplus) - fee
            /\ (Len(request.groups) = 2 /\ Len(change) = 2 /\ surplus[1] >= fee) =>
                 change[1].value = surplus[1] - fee /\ change[2].value = surplus[2]
=============================================================================
