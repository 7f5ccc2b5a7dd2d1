------------------------ MODULE EthereumPreparation ------------------------
(***************************************************************************)
(* How the Ethereum coordinator turns the transfers of a batch into signed *)
(* transactions: per transfer the node's chain, the token checks, the gas  *)
(* estimate and the fees, each under the operator's ceilings; then the     *)
(* balances of every sender against the whole batch; then the signatures.  *)
(* Nonces and admission are in EthereumCoordinator.                        *)
(*                                                                         *)
(* Amounts are Wei of a small width; a sum or product past WeiMax is an    *)
(* error, as in the checked U256 operations of the code.                   *)
(***************************************************************************)
EXTENDS Integers, Sequences, FiniteSets, FiniteSetsExt

CONSTANTS
    Native,        \* the native asset
    WeiMax, GasMax, FeeWidth,        \* largest U256, u64 and u128
    MaxInput, Margin, Denominator, MaxGas, MaxFee, MaxPriority, MaxTotal,  \* Limits
    GasAnswer, FeeAnswer             \* what the node may answer

\* Limits::new, for a margin in units of Denominator.

VARIABLES
    batch,      \* transfers: sender, asset, amount, size of the input
    at,         \* the question being asked
    item,       \* the transfer it is about
    context,    \* BuildContexts made so far
    draft,      \* estimate, gas limit and priority fee of the current one
    observed,   \* balances read for the whole batch, by requirement
    short,      \* indices found not to be covered
    reply

vars == <<batch, at, item, context, draft, observed, short, reply>>

IsNative(t) == t.asset = Native

Pending == [kind |-> "pending", index |-> 0]

NoDraft == [estimate |-> 0, gas |-> 0, priority |-> 0]

-----------------------------------------------------------------------------
(* Batches of up to three transfers of two senders, native and token.      *)

CONSTANTS a, b, Token

Pay(from, asset, amount, input) ==
    [from |-> from, asset |-> asset, amount |-> amount, input |-> input]

Batches ==
    {<<>>, <<Pay(a, Native, 1, 2)>>,
     <<Pay(a, Native, 1, 0), Pay(b, Native, 1, 0), Pay(a, Token, 2, 1)>>,
     <<Pay(a, Token, 1, 1), Pay(a, Token, 2, 1), Pay(b, Native, 1, 0)>>,
     <<Pay(b, Native, 3, 0), Pay(b, Native, 3, 0)>>}

-----------------------------------------------------------------------------
Init ==
    /\ batch \in Batches
    /\ at = "input" /\ item = 1
    /\ context = <<>> /\ draft = NoDraft
    /\ observed = <<>> /\ short = {}
    /\ reply = Pending

Current == batch[item]

\* Every error names the first transfer it is about.
Refuse(kind, index) ==
    /\ at' = "done"
    /\ reply' = [kind |-> kind, index |-> index]
    /\ UNCHANGED <<batch, item, context, draft, observed, short>>

Ask(next) ==
    /\ at' = next
    /\ UNCHANGED <<batch, item, context, draft, observed, short, reply>>

\* Any call may fail: the node, the transport, or an unreadable answer.
Unavailable ==
    /\ at \in {"chain", "token", "simulate", "gas", "priority", "base", "funds"}
    /\ Refuse("RpcUnavailable", item)

-----------------------------------------------------------------------------
(* build_context, call by call.                                            *)

CheckInput ==
    /\ at = "input"
    /\ IF batch = <<>> THEN Refuse("InvalidTransaction", 0)
       ELSE IF Current.input > MaxInput THEN Refuse("InvalidTransaction", item)
       ELSE Ask("chain")

\* The answering node may belong to another chain.
VerifyChain(same) ==
    /\ at = "chain"
    /\ IF ~same THEN Refuse("Divergent", item)
       ELSE Ask(IF IsNative(Current) THEN "gas" ELSE "token")

EnsureTokenAmount(balance) ==
    /\ at = "token"
    /\ IF balance < Current.amount THEN Refuse("InsufficientFunds", item) ELSE Ask("simulate")

\* eth_call: true, false, a revert or bytes that are no bool.
SimulateTransfer(transferred) ==
    /\ at = "simulate"
    /\ IF transferred THEN Ask("gas") ELSE Refuse("Rejected", item)

\* Variant of GasLimitWithMargin: the margin is rounded down.
GasMarginDown(estimated) == estimated + (estimated * Margin) \div Denominator

\* The margin is rounded up.
GasLimitWithMargin(estimated) ==
    estimated + (estimated * Margin + Denominator - 1) \div Denominator

\* eth_estimateGas, or its revert.
EstimateGas(estimated, reverted) ==
    /\ at = "gas"
    /\ LET gas == GasLimitWithMargin(estimated)
       IN  IF reverted THEN Refuse("Rejected", item)
           ELSE IF estimated = 0 \/ gas > GasMax THEN Refuse("RpcUnavailable", item)
           ELSE IF gas > MaxGas THEN Refuse("FeeUnavailable", item)
           ELSE /\ draft' = [draft EXCEPT !.estimate = estimated, !.gas = gas]
                /\ at' = "priority"
                /\ UNCHANGED <<batch, item, context, observed, short, reply>>

PriorityFee(fee) ==
    /\ at = "priority"
    /\ IF fee > MaxPriority THEN Refuse("FeeUnavailable", item)
       ELSE /\ draft' = [draft EXCEPT !.priority = fee]
            /\ at' = "base"
            /\ UNCHANGED <<batch, item, context, observed, short, reply>>

MaxFeeOf(base, priority) == 2 * base + priority

\* Twice the base fee plus the priority fee, under both fee ceilings.
BaseFee(base) ==
    /\ at = "base"
    /\ LET fee == MaxFeeOf(base, draft.priority)
       IN  IF fee > WeiMax THEN Refuse("RpcUnavailable", item)
           ELSE IF fee > MaxFee THEN Refuse("FeeUnavailable", item)
           ELSE IF fee < draft.priority THEN Refuse("RpcUnavailable", item)
           ELSE IF fee * draft.gas > WeiMax \/ fee * draft.gas > MaxTotal
                THEN Refuse("FeeUnavailable", item)
           ELSE /\ context' = Append(context, [gas |-> draft.gas, fee |-> fee,
                                               priority |-> draft.priority,
                                               estimate |-> draft.estimate])
                /\ draft' = NoDraft
                /\ at' = "funds"
                /\ UNCHANGED <<batch, item, observed, short, reply>>

Cost(i) == context[i].fee * context[i].gas

\* The loop of prepare_batch over the transfers.
Following == IF item < Len(batch) THEN <<item + 1, "input">> ELSE <<1, "requirements">>

\* ensure_native_funds: the transfer alone is covered; then the next one.
EnsureNativeFunds(balance) ==
    /\ at = "funds"
    /\ LET required == Cost(item) + (IF IsNative(Current) THEN Current.amount ELSE 0)
       IN  IF required > WeiMax THEN Refuse("FeeUnavailable", item)
           ELSE IF balance < required THEN Refuse("InsufficientFunds", item)
           ELSE /\ item' = Following[1] /\ at' = Following[2]
                /\ UNCHANGED <<batch, context, draft, observed, short, reply>>

-----------------------------------------------------------------------------
(* ensure_aggregate_balances.                                              *)

Key(from, asset) == [from |-> from, asset |-> asset]

\* What transfer i asks of an account of the batch.
Needs(i, key) ==
    IF key.from # batch[i].from THEN 0
    ELSE IF key.asset = Native
         THEN Cost(i) + (IF IsNative(batch[i]) THEN batch[i].amount ELSE 0)
         ELSE IF key.asset = batch[i].asset THEN batch[i].amount ELSE 0

\* A requirement lists the transfers that contribute to it: every transfer
\* of the sender for the native asset, those of the token for a token.
Contributes(i, key) ==
    key.from = batch[i].from /\ (key.asset = Native \/ key.asset = batch[i].asset)

Keys == {Key(batch[i].from, Native) : i \in DOMAIN batch}
            \cup {Key(batch[i].from, batch[i].asset) : i \in DOMAIN batch}

FirstIndex(key) == Min({i \in DOMAIN batch : Contributes(i, key)})

Through(key, last) ==
    MapThenSumSet(LAMBDA i : Needs(i, key), {i \in DOMAIN batch : i <= last})

Amount(key) == Through(key, Len(batch))

\* Requirements::from_drafts and add: a sum that does not fit names the
\* transfer that made it so.
Overflowing == {i \in DOMAIN batch : \E key \in Keys : Through(key, i) > WeiMax}

AddUp ==
    /\ at = "requirements"
    /\ IF Overflowing # {} THEN Refuse("InsufficientFunds", Min(Overflowing))
       ELSE Ask("balances")

\* failure_index: the first transfer the balance no longer covers.
FailureIndex(key, balance) ==
    Min({i \in DOMAIN batch : Contributes(i, key) /\ Through(key, i) > balance})

\* The requirements are asked in the order of their first transfers.
Unread ==
    LET left == Keys \ DOMAIN observed
    IN  {key \in left : \A other \in left : FirstIndex(key) <= FirstIndex(other)}

\* No account that is left can name an earlier transfer.
Decided == Unread = {} \/ \E key \in Unread : \E i \in short : FirstIndex(key) >= i

ReadBalance(key, balance) ==
    /\ at = "balances" /\ ~Decided /\ key \in Unread
    /\ observed' = [k \in DOMAIN observed \cup {key} |->
                       IF k = key THEN balance ELSE observed[k]]
    /\ short' = IF balance >= Amount(key) THEN short
                ELSE short \cup {FailureIndex(key, balance)}
    /\ UNCHANGED <<batch, at, item, context, draft, reply>>

BalanceFails(key) ==
    /\ at = "balances" /\ ~Decided /\ key \in Unread
    /\ Refuse("RpcUnavailable", FirstIndex(key))

Balanced ==
    /\ at = "balances" /\ Decided
    /\ IF short # {} THEN Refuse("InsufficientFunds", Min(short)) ELSE Ask("sign")

\* UnsignedTransaction::new, eip1559 and sign: a fee past u128, a signer that
\* fails, or a signature of somebody else.
Sign(mine) ==
    /\ at = "sign"
    /\ IF context[item].fee > FeeWidth THEN Refuse("InvalidTransaction", item)
       ELSE IF ~mine THEN Refuse("Signer", item)
       ELSE IF item < Len(batch)
       THEN /\ item' = item + 1
            /\ UNCHANGED <<batch, at, context, draft, observed, short, reply>>
       ELSE /\ at' = "done"
            /\ reply' = [kind |-> "prepared", index |-> 0]
            /\ UNCHANGED <<batch, item, context, draft, observed, short>>

Done == at = "done" /\ UNCHANGED vars

Next ==
    \/ Unavailable \/ CheckInput \/ AddUp \/ Balanced \/ Done
    \/ \E yes \in BOOLEAN : VerifyChain(yes) \/ SimulateTransfer(yes) \/ Sign(yes)
    \/ \E gas \in GasAnswer, reverted \in BOOLEAN : EstimateGas(gas, reverted)
    \/ \E fee \in FeeAnswer : PriorityFee(fee) \/ BaseFee(fee)
    \/ \E balance \in 0..WeiMax : EnsureTokenAmount(balance) \/ EnsureNativeFunds(balance)
    \/ \E key \in Keys : BalanceFails(key) \/ \E balance \in 0..WeiMax : ReadBalance(key, balance)

Spec == Init /\ [][Next]_vars

-----------------------------------------------------------------------------

TypeOK ==
    /\ item \in DOMAIN batch \cup {1}
    /\ \A i \in DOMAIN context : context[i].gas \in 1..GasMax /\ context[i].fee \in 0..WeiMax
    /\ DOMAIN observed \subseteq Keys
    /\ \A key \in DOMAIN observed : observed[key] \in 0..WeiMax
    /\ reply.index \in 0..Len(batch)

\* No answer of the node makes the wallet sign above a ceiling, or with less
\* gas than the estimate and its margin.
WithinCeilings ==
    \A i \in DOMAIN context :
        /\ context[i].gas <= MaxGas /\ context[i].fee <= MaxFee
        /\ context[i].priority <= MaxPriority /\ context[i].priority <= context[i].fee
        /\ Cost(i) <= MaxTotal
        /\ context[i].gas * Denominator >= context[i].estimate * (Denominator + Margin)

\* A prepared batch is payable: what all its transfers ask of an account,
\* fees included, was in that account when its balance was read.
BatchPayable ==
    reply.kind = "prepared" =>
        \A i \in DOMAIN batch : \A key \in Keys :
            Contributes(i, key) => key \in DOMAIN observed /\ Through(key, Len(batch)) <= observed[key]

\* A batch that its accounts cannot pay names the first transfer that is not
\* covered, although not every account is asked.
FirstShortNamed ==
    reply.kind = "InsufficientFunds" /\ at = "done" /\ short # {} =>
        /\ \E key \in DOMAIN observed :
               Contributes(reply.index, key) /\ Through(key, reply.index) > observed[key]
        /\ \A i \in 1..(reply.index - 1) : \A key \in Keys :
               Contributes(i, key) => key \in DOMAIN observed /\ Through(key, i) <= observed[key]
=============================================================================
