------------------------- MODULE SolanaPreparation -------------------------
(***************************************************************************)
(* How a native SOL batch becomes signed envelopes: the checks of the      *)
(* wallet and of the coordinator, the acquisition of account snapshots     *)
(* between two slots, the lifetime, the fees, the sufficiency check and    *)
(* the simulations, each of them a call to a node that may answer from an  *)
(* older state than the evidence already in hand.                          *)
(***************************************************************************)
EXTENDS Integers, Sequences, FiniteSets, FiniteSetsExt, Functions, SequencesExt

CONSTANTS
    Malformed,     \* a destination that does not parse
    OffCurve,      \* a destination no key can own
    MaxTransfers,  \* items a batch may have
    QueryLimit,    \* accounts one read may name
    MaxSlot,       \* bound: slots a node answers from
    MaxFee,        \* bound
    MaxLamport     \* the largest value of the lamport width

-----------------------------------------------------------------------------
(* An instance of SolanaPreparation: batches of up to two transfers, and   *)
(* one of three, between two wallets and one foreign account.              *)

CONSTANTS a, b, x

Account == {a, b, x}

Single == [from : {a}, to : {a, b, Malformed, OffCurve}, amount : 0..1]

Pairs == [from : {a, b}, to : {x}, amount : 1..2]

Requests ==
    [transfers : {<<>>} \cup {<<t>> : t \in Single} \cup {<<t, u>> : t \in Pairs, u \in {p \in Pairs : p.from = a}}
                   \cup {<<t, t, t>> : t \in Single},
     keys : {{a, b}, {a}}]

-----------------------------------------------------------------------------
VARIABLES
    request,     \* [transfers, keys]: what was asked, and the live keys
    at,          \* the call the send is waiting for
    floor,       \* the slot no later evidence may be older than
    observed,    \* the account snapshots, all from one context
    fees,        \* the fees read so far
    simulated,   \* simulations passed so far
    evidence,    \* the context slots of every answer used, in order
    reply

vars == <<request, at, floor, observed, fees, simulated, evidence, reply>>

Transfer == [from : Account, to : Account \cup {Malformed, OffCurve}, amount : Nat]

\* An account as a snapshot tells it: its balance, zero when it is absent, and
\* whether it is owned by the system program, not executable and without data.
Snapshot == [lamports : 0..MaxLamport, native : BOOLEAN]

\* An error belongs to an item, counted from 1, or to the whole send.  Both
\* "Insufficient" and "Simulation" are ErrorKind::Transaction in the code.
Error(kind, item) == [kind |-> kind, item |-> item]

Pending == Error("pending", 0)

transfers == request.transfers

Items == DOMAIN transfers

Init ==
    /\ request \in Requests
    /\ at = "new"
    /\ floor = 0 /\ observed = <<>> /\ fees = <<>> /\ simulated = 0
    /\ evidence = <<>> /\ reply = Pending

Ends(error) == at' = "done" /\ reply' = error

FirstOf(S) == Min(S)

-----------------------------------------------------------------------------

\* BatchSender::transfer: what is wrong with one item, the first thing first.
ItemError(t) ==
    CASE t.to = Malformed         -> "InvalidAddress"
      [] t.to = OffCurve          -> "Unsupported"
      [] t.to = t.from            -> "AddressMismatch"
      [] t.amount = 0             -> "InvalidAmount"
      [] t.from \notin request.keys -> "NotFound"
      [] OTHER                    -> "none"

WrongItems == {i \in Items : ItemError(transfers[i]) # "none"}

\* BatchSender::send and the synchronous part of Coordinator::send and
\* Acquirer::acquire, up to its first call.
Admit ==
    /\ at = "new"
    /\ IF transfers = <<>> \/ Len(transfers) > MaxTransfers
       THEN Ends(Error("InvalidBatch", 0))
       ELSE IF WrongItems # {}
       THEN Ends(Error(ItemError(transfers[FirstOf(WrongItems)]), FirstOf(WrongItems)))
       ELSE at' = "health" /\ UNCHANGED reply
    /\ UNCHANGED <<request, floor, observed, fees, simulated, evidence>>

\* A call fails or is answered with something unusable.
CallFails ==
    /\ at \in {"health", "opening", "accounts", "closing", "blockhash", "fee", "simulate"}
    /\ Ends(Error("Unavailable", 0))
    /\ UNCHANGED <<request, floor, observed, fees, simulated, evidence>>

Health ==
    /\ at = "health" /\ at' = "opening"
    /\ UNCHANGED <<request, floor, observed, fees, simulated, evidence, reply>>

\* ContextWire::require_floor, and slot with a minimum.
RequireFloor(slot) == slot >= floor

Used(slot) == floor' = slot /\ evidence' = Append(evidence, slot)

\* The opening slot: every later answer is at least as new.
Opening(slot) ==
    /\ at = "opening" /\ at' = "accounts"
    /\ Used(slot)
    /\ UNCHANGED <<request, observed, fees, simulated, reply>>

\* Every source and destination once.
Query == {transfers[i].from : i \in Items} \cup {transfers[i].to : i \in Items}

\* getMultipleAccounts: one answer from one context for all of them.
Accounts(slot, snapshot) ==
    /\ at = "accounts"
    /\ Cardinality(Query) <= QueryLimit
    /\ RequireFloor(slot)
    /\ at' = "closing"
    /\ observed' = snapshot
    /\ Used(slot)
    /\ UNCHANGED <<request, fees, simulated, reply>>

Foreign == {i \in Items : ~observed[transfers[i].from].native \/ ~observed[transfers[i].to].native}

\* The closing slot, then classify: only plain system accounts take part.
Closing(slot) ==
    /\ at = "closing"
    /\ RequireFloor(slot)
    /\ Used(slot)
    /\ IF Foreign # {}
       THEN Ends(Error("Unsupported", FirstOf(Foreign)))
       ELSE at' = "blockhash" /\ UNCHANGED reply
    /\ UNCHANGED <<request, observed, fees, simulated>>

\* getLatestBlockhash; the messages, distinct by their memos, are built on it.
Blockhash(slot) ==
    /\ at = "blockhash"
    /\ RequireFloor(slot)
    /\ at' = "fee"
    /\ Used(slot)
    /\ UNCHANGED <<request, observed, fees, simulated, reply>>

-----------------------------------------------------------------------------

\* What item i adds to the requirement of its source.
Needs(i, allFees) == transfers[i].amount + allFees[i]

\* The running requirement of the source of item i, item i included.
Required(i, allFees) ==
    MapThenSumSet(LAMBDA k : Needs(k, allFees),
                  {k \in 1..i : transfers[k].from = transfers[i].from})

\* check_sufficiency: the first item at which the width or the balance is
\* exceeded.
Short(allFees) ==
    {i \in Items : \/ Required(i, allFees) > MaxLamport
                   \/ Required(i, allFees) > observed[transfers[i].from].lamports}

\* getFeeForMessage for the next message; after the last one the batch is
\* checked and every envelope signed.
Fee(slot, fee) ==
    /\ at = "fee"
    /\ RequireFloor(slot)
    /\ Used(slot)
    /\ fees' = Append(fees, fee)
    /\ IF Len(fees') < Len(transfers)
       THEN UNCHANGED <<at, reply>>
       ELSE IF Short(fees') # {}
       THEN Ends(Error("Insufficient", FirstOf(Short(fees'))))
       ELSE at' = "simulate" /\ UNCHANGED reply
    /\ UNCHANGED <<request, observed, simulated>>

\* simulateTransaction for the next envelope; after the last one the batch
\* is handed to submission.
Simulate(slot) ==
    /\ at = "simulate"
    /\ RequireFloor(slot)
    /\ Used(slot)
    /\ simulated' = simulated + 1
    /\ IF simulated' < Len(transfers)
       THEN UNCHANGED <<at, reply>>
       ELSE Ends(Error("prepared", 0))
    /\ UNCHANGED <<request, observed, fees>>

\* The node reports that the transaction would fail; a report older than the floor
\* is unusable (CallFails).
SimulationFails(slot) ==
    /\ at = "simulate"
    /\ RequireFloor(slot)
    /\ Ends(Error("Simulation", simulated + 1))
    /\ UNCHANGED <<request, floor, observed, fees, simulated, evidence>>

Rest == at = "done" /\ UNCHANGED vars

Slots == 0..MaxSlot

Next ==
    \/ Admit \/ Health \/ CallFails \/ Rest
    \/ \E slot \in Slots : Opening(slot) \/ Closing(slot) \/ Blockhash(slot) \/ Simulate(slot) \/ SimulationFails(slot)
    \/ \E slot \in Slots : \E snapshot \in [Query -> Snapshot] : Accounts(slot, snapshot)
    \/ \E slot \in Slots : \E fee \in 0..MaxFee : Fee(slot, fee)

Spec == Init /\ [][Next]_vars

-----------------------------------------------------------------------------

TypeOK ==
    /\ at \in {"new", "health", "opening", "accounts", "closing", "blockhash", "fee",
               "simulate", "done"}
    /\ floor \in Slots
    /\ Len(fees) <= Len(transfers) /\ simulated <= Len(transfers)
    /\ at = "done" <=> reply.kind # "pending"

\* The evidence behind a prepared batch never goes back in time: the
\* accounts lie between the opening and the closing slot, the lifetime, the
\* fees and the simulations follow, and the floor handed to submission is
\* the newest of all.
EvidenceOrdered ==
    /\ \A i, j \in DOMAIN evidence : i <= j => evidence[i] <= evidence[j]
    /\ reply.kind = "prepared" =>
          /\ Len(evidence) = 4 + 2 * Len(transfers)
          /\ \A i \in DOMAIN evidence : evidence[i] <= floor

\* What a source pays for the whole batch.
Total(s) == MapThenSumSet(LAMBDA i : transfers[i].amount + fees[i],
                          {i \in Items : transfers[i].from = s})

\* Every source of a prepared batch can pay all its transfers and all their
\* fees out of the one balance observed for it, in the width of a lamport
\* value; a batch is refused for lack of funds only when the source of the
\* named item cannot.
Solvent ==
    /\ at = "simulate" \/ reply.kind = "prepared" => \A i \in Items :
          Total(transfers[i].from) <= observed[transfers[i].from].lamports
    /\ reply.kind = "Insufficient" =>
          LET s == transfers[reply.item].from
          IN  Total(s) > observed[s].lamports

\* A batch that is prepared moves value between different, plain accounts
\* whose keys are held, whatever was asked for.
OnlyPlainTransfers ==
    reply.kind = "prepared" => \A i \in Items :
        /\ transfers[i].to \in Account \ {transfers[i].from}
        /\ transfers[i].amount > 0
        /\ transfers[i].from \in request.keys
        /\ observed[transfers[i].from].native /\ observed[transfers[i].to].native
=============================================================================
