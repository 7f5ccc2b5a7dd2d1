--------------------------- MODULE SolanaInterpret ---------------------------
(***************************************************************************)
(* From the JSON of a finalized Solana block to the drafts the index       *)
(* stores: interpreter_wire, interpreter_movement and interpreter.         *)
(*                                                                         *)
(* Addresses and signatures are model values, indexes count from 0.  The   *)
(* data of a System instruction is what it decodes to, and whether its     *)
(* text and its bytes are the canonical ones.                              *)
(***************************************************************************)
EXTENDS Integers, Sequences, FiniteSets, SequencesExt

CONSTANTS
    None, Error,
    System,        \* the System program
    Scope,
    MaxKeys,       \* account keys of a transaction (256)
    ParsedText     \* the address an address text stands for, or Error

-----------------------------------------------------------------------------
\* interpreter_wire.

\* Instruction::parse.
Instruction(wire, keyCount) ==
    IF wire.program >= keyCount \/ \E i \in DOMAIN wire.accounts : wire.accounts[i] >= keyCount
    THEN Error ELSE wire

\* parse_inner: at most one group for each outer instruction.
Inner(groups, outerCount, keyCount) ==
    LET parsed == [g \in DOMAIN groups |-> [i \in DOMAIN groups[g].instructions |->
                                              Instruction(groups[g].instructions[i], keyCount)]]
        of(outer) == {g \in DOMAIN groups : groups[g].index = outer}
    IN  IF \/ \E g \in DOMAIN groups : groups[g].index >= outerCount \/ Error \in Range(parsed[g])
           \/ \E outer \in 0..outerCount - 1 : Cardinality(of(outer)) > 1
        THEN Error
        ELSE [outer \in 0..outerCount - 1 |->
                IF of(outer) = {} THEN <<>> ELSE parsed[CHOOSE g \in of(outer) : TRUE]]

\* Whether the static account key at `index` is writable, by the message header.
Writable(header, count, index) ==
    IF index < header.required THEN index < header.required - header.readonlySigned
    ELSE index < count - header.readonlyUnsigned

\* The resolved account keys: static, then loaded writable, then loaded readonly.
Keys(message, loaded) ==
    [i \in DOMAIN message.keys |->
        [address |-> message.keys[i], writable |-> Writable(message.header, Len(message.keys), i - 1)]]
    \o [i \in DOMAIN loaded.writable |-> [address |-> loaded.writable[i], writable |-> TRUE]]
    \o [i \in DOMAIN loaded.readonly |-> [address |-> loaded.readonly[i], writable |-> FALSE]]

Nothing == [writable |-> <<>>, readonly |-> <<>>]

\* Transaction::parse.
ParsedTransaction(wire) ==
    LET message == wire.message
        header == message.header
        count == Len(message.keys)
        meta == wire.meta
        loaded == IF meta.loaded = None THEN Nothing ELSE meta.loaded
        keys == Keys(message, loaded)
        addresses == [i \in DOMAIN keys |-> keys[i].address]
        instructions == [i \in DOMAIN message.instructions |-> Instruction(message.instructions[i], Len(keys))]
        inner == IF meta.inner = None THEN None ELSE Inner(meta.inner, Len(instructions), Len(keys))
    IN  IF \/ wire.version \notin {"legacy", "zero"}
           \/ header.required = 0 \/ header.required > count
           \/ header.readonlySigned >= header.required
           \/ header.readonlyUnsigned > count - header.required
           \/ Len(wire.signatures) # header.required
           \/ Error \in Range(wire.signatures) \/ meta = None
        THEN Error
        ELSE IF \/ wire.version = "legacy" /\ loaded # Nothing
                \/ wire.version = "zero" /\ meta.loaded = None
                \/ Error \in Range(addresses) \/ Len(keys) > MaxKeys
                \/ Cardinality(Range(addresses)) # Len(keys)
                \/ Len(meta.pre) # Len(keys) \/ Len(meta.post) # Len(keys)
                \/ Error \in Range(instructions) \/ inner = Error
                \/ ~keys[1].writable
        THEN Error
        ELSE [signature |-> wire.signatures[1], keys |-> keys, instructions |-> instructions,
              inner |-> inner, pre |-> meta.pre, post |-> meta.post, fee |-> meta.fee,
              succeeded |-> ~meta.err]

\* Transactions::parse.
ParsedTransactions(wires) ==
    LET ts == [i \in DOMAIN wires |-> ParsedTransaction(wires[i])]
    IN  IF Error \in Range(ts) THEN Error
        ELSE IF \E i, j \in DOMAIN ts : i # j /\ ts[i].signature = ts[j].signature THEN Error
        ELSE ts

-----------------------------------------------------------------------------
\* interpreter_movement.

\* Movement::decode: the transfer a System instruction makes, None, or an error.
Movement(t, instruction, id) ==
    LET data == instruction.data
        accounts == instruction.accounts
        at == IF data.kind = "transfer" THEN 2 ELSE 3
    IN  IF t.keys[instruction.program + 1].address # System THEN None
        ELSE IF ~data.canonical THEN Error
        ELSE IF data.kind \notin {"transfer", "seed"} THEN None
        ELSE IF Len(accounts) < at THEN Error
        ELSE IF data.lamports = 0 THEN None
        ELSE [id |-> id, lamports |-> data.lamports,
              source |-> t.keys[accounts[1] + 1].address, destination |-> t.keys[accounts[at] + 1].address]

\* Movements::decode: each outer instruction, then its inner ones.
Movements(t) ==
    LET inner(i) == IF t.inner = None THEN <<>> ELSE t.inner[i - 1]
        of(i) == <<Movement(t, t.instructions[i], <<t.signature, i, 0>>)>>
                 \o [j \in DOMAIN inner(i) |-> Movement(t, inner(i)[j], <<t.signature, i, j>>)]
        all == FlattenSeq([i \in DOMAIN t.instructions |-> of(i)])
    IN  IF Error \in Range(all) THEN Error ELSE SelectSeq(all, LAMBDA m : m # None)

Touches(movements, address) ==
    \E i \in DOMAIN movements : address \in {movements[i].source, movements[i].destination}

\* Movements::delta.
Delta(movements, address) ==
    FoldLeft(LAMBDA d, m : d + (IF m.destination = address THEN m.lamports ELSE 0)
                             - (IF m.source = address THEN m.lamports ELSE 0), 0, movements)

-----------------------------------------------------------------------------
\* reconcile_selected and inspect.

FeePayer(t) == t.keys[1].address

\* selected_effects: the accounts whose balance must be explained.
SelectedEffects(t, selected, movements) ==
    {i \in DOMAIN t.keys :
        /\ t.keys[i].address \in selected
        /\ t.keys[i].writable \/ i = 1 \/ Touches(movements, t.keys[i].address)}

\* reconcile: the balance changed by the transfers, and the fee of the payer, exactly.
Reconciled(t, i, movements) ==
    t.post[i] - t.pre[i] = Delta(movements, t.keys[i].address) - (IF i = 1 THEN t.fee ELSE 0)

\* Whether inspect goes on after reconcile_selected.
Complete(t, selected, movements) ==
    LET affected == SelectedEffects(t, selected, movements)
    IN  /\ affected # {} => t.inner # None
        /\ \A i \in affected : Reconciled(t, i, movements)

\* inspect for one transaction.
Draft(t, selected) ==
    LET movements == IF t.succeeded THEN Movements(t) ELSE <<>>
        draft == [id |-> t.signature, failed |-> ~t.succeeded, movements |-> movements,
                  fee |-> [amount |-> t.fee, payer |-> FeePayer(t)]]
    IN  IF movements = Error THEN Error
        ELSE IF t.succeeded /\ ~Complete(t, selected, movements) THEN Error
        ELSE IF FeePayer(t) \in selected \/ \E a \in selected : Touches(movements, a) THEN draft ELSE None

\* selected: every filter must be an address of this scope.
Selected(filters) ==
    IF \E i \in DOMAIN filters : filters[i].scope # Scope \/ ParsedText[filters[i].value] = Error THEN Error
    ELSE {ParsedText[filters[i].value] : i \in DOMAIN filters}

\* inspect.
Inspect(wires, filters) ==
    LET Kept(drafts) ==
            IF Error \in Range(drafts) THEN Error ELSE SelectSeq(drafts, LAMBDA d : d # None)
        Drafts(selected, parsed) ==
            IF selected = Error \/ parsed = Error THEN Error
            ELSE Kept([i \in DOMAIN parsed |-> Draft(parsed[i], selected)])
    IN  Drafts(Selected(filters), ParsedTransactions(wires))

-----------------------------------------------------------------------------
(***************************************************************************)
(* SolanaInterpret over every block of one or two small transactions, told *)
(* truly or with one claim made false.                                     *)
(***************************************************************************)

CONSTANTS
    A, B, C, D,      \* accounts; A pays the fees
    Program,         \* a program that may move lamports of its accounts
    Fee              \* of a transaction

VARIABLES request, reply

\* The claims made false.
Faults ==
    {"version", "no signer", "signers", "unsigned", "payer", "signature", "meta", "loaded",
     "not loaded", "key twice", "bad key", "too many", "balances", "program", "account", "group",
     "group twice", "data", "short", "signature twice"}

-----------------------------------------------------------------------------
\* What a transaction did, and how a node tells it.

Sys(op, from, to, n) == [op |-> op, from |-> from, to |-> to, n |-> n, inner |-> <<>>]

SystemOps ==
    {Sys("transfer", A, B, 5), Sys("transfer", B, C, 2), Sys("transfer", C, C, 4), Sys("transfer", A, C, 0),
     Sys("seed", C, A, 3), Sys("create", A, C, 6), Sys("assign", B, B, 0)}

\* A call of the program moves n lamports from C to B by itself.
Calls ==
    {[op |-> "call", from |-> C, to |-> B, n |-> n, inner |-> i] :
        n \in {0, 1}, i \in {<<>>, <<Sys("transfer", C, A, 3)>>, <<Sys("seed", A, B, 1), Sys("transfer", B, A, 2)>>}}

OpSeqs == {<<>>} \cup {<<o>> : o \in SystemOps \cup Calls} \cup {<<o, p>> : o, p \in SystemOps \cup Calls}

Txs == {t \in [ops : OpSeqs, version : {"legacy", "zero"}, ok : BOOLEAN, recorded : BOOLEAN] :
          Len(t.ops) = 2 => t.ok}

KeyList(version) == IF version = "legacy" THEN <<A, B, C, System, Program>> ELSE <<A, B, System, Program, C, D>>
IndexOf(version, x) == (CHOOSE i \in DOMAIN KeyList(version) : KeyList(version)[i] = x) - 1

\* What op does to the balance of `a`, its inner instructions included.
Gain(o, a) == (IF o.to = a THEN o.n ELSE 0) - (IF o.from = a THEN o.n ELSE 0)
OpEffect(o, a) == Gain(o, a) + FoldLeft(LAMBDA n, i : n + Gain(i, a), 0, o.inner)
Effect(t, a) ==
    (IF t.ok THEN FoldLeft(LAMBDA n, o : n + OpEffect(o, a), 0, t.ops) ELSE 0) - (IF a = A THEN Fee ELSE 0)

\* What of it no System transfer explains.
Unexplained(t, a) ==
    FoldLeft(LAMBDA n, o : n + (IF o.op \in {"create", "call"} THEN Gain(o, a) ELSE 0), 0, t.ops)

WireOp(v, o) ==
    [program |-> IndexOf(v, IF o.op = "call" THEN Program ELSE System),
     accounts |-> IF o.op = "seed" THEN <<IndexOf(v, o.from), 0, IndexOf(v, o.to)>>
                  ELSE <<IndexOf(v, o.from), IndexOf(v, o.to)>>,
     data |-> [kind |-> o.op, lamports |-> o.n, canonical |-> TRUE]]

Wire(t, pre, signature) ==
    LET v == t.version
        keys == KeyList(v)
    IN  [version |-> v, signatures |-> <<signature>>,
         message |-> [header |-> [required |-> 1, readonlySigned |-> 0, readonlyUnsigned |-> 2],
                      keys |-> IF v = "legacy" THEN keys ELSE SubSeq(keys, 1, 4),
                      instructions |-> [i \in DOMAIN t.ops |-> WireOp(v, t.ops[i])]],
         meta |-> [err |-> ~t.ok, fee |-> Fee,
                   loaded |-> IF v = "legacy" THEN None ELSE [writable |-> <<C>>, readonly |-> <<D>>],
                   pre |-> [i \in DOMAIN keys |-> pre[keys[i]]],
                   post |-> [i \in DOMAIN keys |-> pre[keys[i]] + Effect(t, keys[i])],
                   inner |-> IF ~t.recorded THEN None
                             ELSE LET calls == SelectSeq([i \in DOMAIN t.ops |-> i], LAMBDA i : t.ops[i].inner # <<>>)
                                  IN  [k \in DOMAIN calls |->
                                         [index |-> calls[k] - 1,
                                          instructions |-> [j \in DOMAIN t.ops[calls[k]].inner |->
                                                              WireOp(v, t.ops[calls[k]].inner[j])]]]]]

Opening == [x \in {A, B, C, D, System, Program} |-> 50]

Wires(ts) ==
    [i \in DOMAIN ts |->
        Wire(ts[i], [x \in DOMAIN Opening |-> Opening[x] + (IF i = 2 THEN Effect(ts[1], x) ELSE 0)], i)]

\* The block with one claim of its first transaction made false.
Falsified(ws, fault) ==
    CASE fault = "none" -> ws
      [] fault = "version" -> [ws EXCEPT ![1].version = "one"]
      [] fault = "no signer" -> [ws EXCEPT ![1].message.header.required = 0, ![1].signatures = <<>>]
      [] fault = "signers" -> [ws EXCEPT ![1].message.header.required = 2]
      [] fault = "unsigned" -> [ws EXCEPT ![1].message.header.readonlyUnsigned = 4]
      [] fault = "payer" -> [ws EXCEPT ![1].message.header.readonlySigned = 1]
      [] fault = "signature" -> [ws EXCEPT ![1].signatures = <<Error>>]
      [] fault = "meta" -> [ws EXCEPT ![1].meta = None]
      [] fault = "loaded" -> [ws EXCEPT ![1].version = "legacy"]
      [] fault = "not loaded" -> [ws EXCEPT ![1].meta.loaded = None]
      [] fault = "key twice" -> [ws EXCEPT ![1].message.keys[2] = A]
      [] fault = "bad key" -> [ws EXCEPT ![1].message.keys[2] = Error]
      [] fault = "too many" -> [ws EXCEPT ![1].meta.loaded.readonly = <<D, 1, 2>>,
                                          ![1].meta.pre = @ \o <<0, 0>>, ![1].meta.post = @ \o <<0, 0>>]
      [] fault = "balances" -> [ws EXCEPT ![1].meta.pre = Front(@)]
      [] fault = "program" -> [ws EXCEPT ![1].message.instructions[1].program = 6]
      [] fault = "account" -> [ws EXCEPT ![1].meta.inner[1].instructions[1].accounts = <<0, 6>>]
      [] fault = "group" -> [ws EXCEPT ![1].meta.inner[1].index = 2]
      [] fault = "group twice" -> [ws EXCEPT ![1].meta.inner = @ \o @]
      [] fault = "data" -> [ws EXCEPT ![1].message.instructions[1].data.canonical = FALSE]
      [] fault = "short" -> [ws EXCEPT ![1].message.instructions[1].accounts = <<0>>]
      [] fault = "signature twice" -> [ws EXCEPT ![2].signatures = <<1>>]

Witness ==
    LET t == [ops |-> <<Sys("transfer", A, B, 5), [op |-> "call", from |-> C, to |-> B, n |-> 0,
                                                   inner |-> <<Sys("transfer", C, A, 3)>>]>>,
              version |-> "zero", ok |-> TRUE, recorded |-> TRUE]
    IN  <<t, t>>

Filter(text) == [scope |-> Scope, value |-> text]
FilterSeqs ==
    {<<Filter("a")>>, <<Filter("b")>>, <<Filter("c"), Filter("b")>>, <<Filter("b"), Filter("bad")>>,
     <<[scope |-> None, value |-> "a"]>>}

Init ==
    /\ \/ \E t \in Txs, f \in FilterSeqs : request = [txs |-> <<t>>, fault |-> "none", filters |-> f]
       \/ \E t \in Txs, u \in {x \in Txs : Len(x.ops) = 1}, f \in {<<Filter("a")>>, <<Filter("c"), Filter("b")>>} :
            Len(t.ops) = 1 /\ request = [txs |-> <<t, u>>, fault |-> "none", filters |-> f]
       \/ \E x \in Faults : request = [txs |-> Witness, fault |-> x, filters |-> <<Filter("b")>>]
    /\ reply = None

Answer ==
    /\ reply = None
    /\ reply' = [value |-> Inspect(Falsified(Wires(request.txs), request.fault), request.filters)]
    /\ UNCHANGED request

Done == reply # None /\ UNCHANGED <<request, reply>>

Next == Answer \/ Done

Spec == Init /\ [][Next]_<<request, reply>>

-----------------------------------------------------------------------------
Honest == reply # None /\ request.fault = "none" /\ Selected(request.filters) # Error

Registered == Selected(request.filters)

\* What the drafts say happened to the balance of `a`, fees included.
Reported(drafts, a) ==
    FoldLeft(LAMBDA n, d : n + Delta(d.movements, a) - (IF d.fee.payer = a THEN d.fee.amount ELSE 0), 0, drafts)

\* A block that is indexed accounts for every lamport of every registered address: what its
\* drafts say is what the block did, with inner transfers, loaded addresses, reverted
\* transactions and fees; a block with an effect that no System transfer explains is
\* refused rather than indexed without it (reconcile_selected).
EveryLamportIsExplained ==
    Honest /\ reply.value # Error =>
        \A a \in Registered :
            Reported(reply.value, a) = FoldLeft(LAMBDA n, t : n + Effect(t, a), 0, request.txs)

\* A block is indexed when the System transfers of its successful transactions explain the
\* registered addresses and their inner instructions are recorded: other instructions,
\* and effects on other accounts, do not stop the index.
ExplainedBlocksAreIndexed ==
    Honest /\ (\A i \in DOMAIN request.txs : LET t == request.txs[i] IN
                 t.ok => t.recorded /\ \A a \in Registered : Unexplained(t, a) = 0)
      => reply.value # Error

\* No two movements of a block have one id.
MovementIdsAreDistinct ==
    Honest /\ reply.value # Error =>
        LET ms == FlattenSeq([k \in DOMAIN reply.value |-> reply.value[k].movements])
        IN  \A i, j \in DOMAIN ms : ms[i].id = ms[j].id => i = j

\* A block is refused whole when one claim of a transaction is false or cannot be read.
FalseClaimsAreRefused ==
    reply # None /\ request.fault # "none" => reply.value = Error
=============================================================================
