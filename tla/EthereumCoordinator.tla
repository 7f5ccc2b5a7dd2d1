------------------------ MODULE EthereumCoordinator ------------------------
(***************************************************************************)
(* The Ethereum transaction coordinator                                    *)
(* (sdk/chains/ethereum/src/transaction/coordinator.rs and                 *)
(* coordinator_state.rs): admission of senders, nonce assignment, exact    *)
(* envelopes and the recovery of submissions whose outcome is unknown.     *)
(*                                                                         *)
(* A task is a caller, with one call open at a time; its steps are cut at  *)
(* the awaits and at the acquisitions of the state mutex, and it may be    *)
(* dropped at every await.  An envelope stands for its hash.               *)
(***************************************************************************)
EXTENDS Integers, Sequences, FiniteSets

CONSTANTS
    Sender,      \* managed accounts
    Task,        \* callers of the coordinator; each makes payments of its own
    None,        \* Option::None
    MaxNonce,    \* u64::MAX
    MaxTransfers,\* MAX_TRANSFERS, items of a batch
    Job,         \* calls a task may make: [kind, items]
    MaxCalls     \* bound on the calls of a task

ASSUME TaskSenderAssumption == None \notin Task
ASSUME MaxNonceAssumption == MaxNonce \in Nat
ASSUME MaxTransfersAssumption == MaxTransfers \in Nat \ {0}
ASSUME JobAssumption ==
    /\ Job # {}
    /\ Job \subseteq [kind : {"batch", "send", "prepare"}, items : Seq(Sender)]
    /\ \A j \in Job : Len(j.items) \in 1 .. (IF j.kind = "batch" THEN MaxTransfers ELSE 1)
ASSUME MaxCallsAssumption == MaxCalls \in Nat

\* A task pays the same for the same item of every call.
Envelope == [from : Sender, nonce : 0 .. MaxNonce, payment : Task, item : 1 .. MaxTransfers]

ASSUME NoneIsNoEnvelope == None \notin Envelope

VARIABLES
    active,     \* active[s]: the operation that holds sender s
    floor,      \* floor[s]: first nonce above the accepted ones, 0 at first
    records,    \* records[e]: the coordinated envelopes
    pc,         \* pc[t]: where the call of t stands
    job,        \* job[t]: the call t makes
    via,        \* via[t]: what awaits the submission of t
    unread,     \* unread[t]: senders whose pending nonce t has not read
    start,      \* start[t]: the first nonce of each sender read
    entries,    \* entries[t]: the envelopes of the prepared batch
    cursor,     \* cursor[t]: how many of them were acknowledged
    claimed,    \* claimed[t]: the envelope t submits
    recovery,   \* recovery[t]: the claim is on an envelope already tried
    signed,     \* signed[t]: a prepared envelope t has no receipt for
    result,     \* result[t]: what the last call of t returned
    asleep,     \* tasks awaiting a notification
    calls,      \* calls[t]: calls made so far
    sent,       \* envelopes whose bytes left the process
    pool,       \* envelopes the node has
    accepted    \* history: envelopes the coordinator saw accepted

stateVars == <<active, floor, records>>
prepareVars == <<unread, start, entries>>
callVars == <<job, signed, calls>>
submitVars == <<via, claimed, recovery>>
nodeVars == <<sent, pool>>
vars == <<stateVars, pc, prepareVars, cursor, callVars, submitVars, result,
          asleep, nodeVars, accepted>>

NoRecord == [status |-> "none", op |-> None]
Record == [status : {"none", "prepared", "unknown", "reconciling"},
           op : Task \cup {None}]
NoResult == [kind |-> "none", id |-> None]

Init ==
    /\ active = [s \in Sender |-> None]
    /\ floor = [s \in Sender |-> 0]
    /\ records = [e \in Envelope |-> NoRecord]
    /\ pc = [t \in Task |-> "idle"]
    /\ job = [t \in Task |-> CHOOSE j \in Job : TRUE]
    /\ via = [t \in Task |-> "none"]
    /\ unread = [t \in Task |-> {}]
    /\ start = [t \in Task |-> [s \in Sender |-> 0]]
    /\ entries = [t \in Task |-> << >>]
    /\ cursor = [t \in Task |-> 0]
    /\ claimed = [t \in Task |-> None]
    /\ recovery = [t \in Task |-> FALSE]
    /\ signed = [t \in Task |-> None]
    /\ result = [t \in Task |-> NoResult]
    /\ asleep = {}
    /\ calls = [t \in Task |-> 0]
    /\ sent = {}
    /\ pool = {}
    /\ accepted = {}

-----------------------------------------------------------------------------
(* The state behind the mutex.                                             *)

RecordsOf(s) == {e \in Envelope : e.from = s /\ records[e].status # "none"}

\* A sender no operation and no record occupies.
Free(s) == active[s] = None /\ RecordsOf(s) = {}

\* The senders of a call, in the order of their first occurrence.
Senders(items) == {items[i] : i \in DOMAIN items}
FirstIndex(items, s) ==
    CHOOSE i \in DOMAIN items : items[i] = s /\ \A k \in 1 .. i - 1 : items[k] # s

\* The first sender that blocks the admission of t.
IsBlocker(t, s) ==
    LET items == job[t].items
    IN  /\ s \in Senders(items) /\ ~ Free(s)
        /\ \A r \in Senders(items) :
               FirstIndex(items, r) < FirstIndex(items, s) => Free(r)

\* admission answers Recover for e; a sender's records are visited by hash.
CanRecover(t, e) ==
    /\ IsBlocker(t, e.from)
    /\ active[e.from] = None
    /\ records[e].status = "unknown"

MustWait(t) ==
    \E s \in Senders(job[t].items) :
        /\ IsBlocker(t, s)
        /\ active[s] # None \/ \E e \in RecordsOf(s) : records[e].status # "unknown"

\* Operation::drop, finish_operation: what was prepared and never claimed goes.
Finished(t, recs) ==
    [e \in Envelope |->
        IF recs[e].op = t /\ recs[e].status = "prepared" THEN NoRecord ELSE recs[e]]
Released(t) == [s \in Sender |-> IF active[s] = t THEN None ELSE active[s]]

\* Submission::drop with the guard armed: the outcome is unknown.
Ambiguous(e) ==
    [records EXCEPT ![e].status = IF @ = "reconciling" THEN "unknown" ELSE @]

-----------------------------------------------------------------------------
(* The calls.                                                              *)

At(t, p) == pc[t] = p /\ t \notin asleep
GoTo(t, p) == pc' = [pc EXCEPT ![t] = p]

\* The call of t is over.
Return(t, kind, id) ==
    /\ GoTo(t, "idle")
    /\ result' = [result EXCEPT ![t] = [kind |-> kind, id |-> id]]
    /\ via' = [via EXCEPT ![t] = "none"]
    /\ claimed' = [claimed EXCEPT ![t] = None]
    /\ recovery' = [recovery EXCEPT ![t] = FALSE]

Called(t) ==
    /\ pc[t] = "idle" /\ calls[t] < MaxCalls
    /\ calls' = [calls EXCEPT ![t] = @ + 1]
    /\ result' = [result EXCEPT ![t] = NoResult]

\* Batch::execute and Builder::prepare, up to the admission of the senders.
Call(t, j) ==
    /\ Called(t)
    /\ GoTo(t, "admit")
    /\ job' = [job EXCEPT ![t] = j]
    /\ entries' = [entries EXCEPT ![t] = << >>]
    /\ cursor' = [cursor EXCEPT ![t] = 0]
    /\ UNCHANGED <<stateVars, unread, start, signed, submitVars, asleep, nodeVars, accepted>>

\* Broadcaster::broadcast of the envelope a single preparation returned: the
\* caller keeps it, and may broadcast it again until one call succeeds.
Broadcast(t) ==
    /\ signed[t] # None
    /\ Called(t)
    /\ GoTo(t, "submit")
    /\ via' = [via EXCEPT ![t] = "single"]
    /\ claimed' = [claimed EXCEPT ![t] = signed[t]]
    /\ UNCHANGED <<stateVars, prepareVars, cursor, job, signed, recovery, asleep,
                   nodeVars, accepted>>

\* admission answers Acquired: all the senders of the call at once.
Acquire(t) ==
    /\ At(t, "admit")
    /\ \A s \in Senders(job[t].items) : Free(s)
    /\ active' = [s \in Sender |-> IF s \in Senders(job[t].items) THEN t ELSE active[s]]
    /\ unread' = [unread EXCEPT ![t] = Senders(job[t].items)]
    /\ GoTo(t, "nonces")
    /\ UNCHANGED <<floor, records, start, entries, cursor, callVars, submitVars,
                   result, asleep, nodeVars, accepted>>

\* admission answers Recover: the envelope that blocks is submitted again.
Recover(t, e) ==
    /\ At(t, "admit")
    /\ CanRecover(t, e)
    /\ GoTo(t, "submit")
    /\ via' = [via EXCEPT ![t] = "admit"]
    /\ claimed' = [claimed EXCEPT ![t] = e]
    /\ UNCHANGED <<stateVars, prepareVars, cursor, callVars, recovery, result, asleep,
                   nodeVars, accepted>>

\* admission answers Wait: t sleeps, having enabled its notification before.
AdmitWait(t) ==
    /\ At(t, "admit")
    /\ MustWait(t)
    /\ asleep' = asleep \cup {t}
    /\ UNCHANGED <<stateVars, pc, prepareVars, cursor, callVars, submitVars, result,
                   nodeVars, accepted>>

\* An error or the drop of a future that holds its operation.
Abort(t) ==
    /\ records' = Finished(t, records)
    /\ active' = Released(t)
    /\ asleep' = {}
    /\ Return(t, "failed", None)
    /\ UNCHANGED <<floor, prepareVars, cursor, callVars, nodeVars, accepted>>

\* A nonce, build_context, balance or signing error, or a cancellation.
PreparationFails(t) == pc[t] \in {"nonces", "build"} /\ Abort(t)

Occurrences(items, s) == Cardinality({i \in DOMAIN items : items[i] = s})

FirstNonce(s, pending) == IF floor[s] > pending THEN floor[s] ELSE pending

\* Variant of Assigned that gives a sender one nonce.
AssignedSame(t, i) == start[t][job[t].items[i]]

\* The nonce of the i-th item: consecutive for each sender.
Assigned(t, i) ==
    LET items == job[t].items
    IN  start[t][items[i]] + Cardinality({k \in 1 .. i - 1 : items[k] = items[i]})

\* The next sender whose pending nonce is read.
IsUnread(t, s) ==
    /\ s \in unread[t]
    /\ \A r \in unread[t] : FirstIndex(job[t].items, s) <= FirstIndex(job[t].items, r)

Fits(t, s, pending) ==
    FirstNonce(s, pending) + Occurrences(job[t].items, s) <= MaxNonce

\* nonces: one answer of eth_getTransactionCount; the range must fit in u64.
ReadNonce(t, s, pending) ==
    /\ At(t, "nonces")
    /\ IsUnread(t, s) /\ Fits(t, s, pending)
    /\ start' = [start EXCEPT ![t] = [@ EXCEPT ![s] = FirstNonce(s, pending)]]
    /\ unread' = [unread EXCEPT ![t] = @ \ {s}]
    /\ GoTo(t, IF unread[t] = {s} THEN "build" ELSE "nonces")
    /\ UNCHANGED <<stateVars, entries, cursor, callVars, submitVars, result, asleep,
                   nodeVars, accepted>>

NoncesExhausted(t, s, pending) ==
    /\ At(t, "nonces")
    /\ IsUnread(t, s) /\ ~ Fits(t, s, pending)
    /\ Abort(t)

Entries(t) ==
    [i \in DOMAIN job[t].items |->
        [from |-> job[t].items[i], nonce |-> Assigned(t, i), payment |-> t,
         item |-> i]]
EntrySet(t) == {Entries(t)[i] : i \in DOMAIN job[t].items}

Registered(t, op) ==
    [e \in Envelope |->
        IF e \in EntrySet(t) THEN [status |-> "prepared", op |-> op] ELSE records[e]]

\* prepare_batch from the build contexts on: every item is preflighted and
\* signed before the envelopes are registered together, then the first is
\* submitted.
Register(t) ==
    /\ At(t, "build") /\ job[t].kind = "batch"
    /\ records' = Registered(t, t)
    /\ entries' = [entries EXCEPT ![t] = Entries(t)]
    /\ claimed' = [claimed EXCEPT ![t] = Entries(t)[1]]
    /\ via' = [via EXCEPT ![t] = "batch"]
    /\ GoTo(t, "submit")
    /\ UNCHANGED <<active, floor, unread, start, cursor, callVars, recovery, result,
                   asleep, nodeVars, accepted>>

\* prepare_one: the envelope leaves the operation, which ends.  prepare hands
\* it to its caller; send_with_transaction broadcasts it without an await
\* between.
DetachOne(t) ==
    /\ At(t, "build") /\ job[t].kind # "batch"
    /\ records' = Registered(t, None)
    /\ active' = Released(t)
    /\ asleep' = {}
    /\ IF job[t].kind = "prepare"
       THEN /\ signed' = [signed EXCEPT ![t] = Entries(t)[1]]
            /\ Return(t, "prepared", Entries(t)[1])
       ELSE /\ claimed' = [claimed EXCEPT ![t] = Entries(t)[1]]
            /\ via' = [via EXCEPT ![t] = "single"]
            /\ GoTo(t, "submit")
            /\ UNCHANGED <<recovery, result, signed>>
    /\ UNCHANGED <<floor, prepareVars, cursor, job, calls, nodeVars, accepted>>

-----------------------------------------------------------------------------
(* submit.                                                                 *)

\* Variant of EndSubmit without the notifications.
EndSubmitSilent(t, recs, kind, notified) ==
    LET batch == via[t] = "batch"
    IN  /\ records' = IF batch THEN Finished(t, recs) ELSE recs
        /\ active' = IF batch THEN Released(t) ELSE active
        /\ asleep' = asleep \ {t}
        /\ Return(t, IF via[t] = "admit" THEN "failed" ELSE kind, claimed[t])

\* The submission ends without acceptance: an error inside prepare_batch, the
\* end of the batch, or the error of a single broadcast.
EndSubmit(t, recs, kind, notified) ==
    LET batch == via[t] = "batch"
    IN  /\ records' = IF batch THEN Finished(t, recs) ELSE recs
        /\ active' = IF batch THEN Released(t) ELSE active
        /\ asleep' = IF batch \/ notified THEN {} ELSE asleep \ {t}
        /\ Return(t, IF via[t] = "admit" THEN "failed" ELSE kind, claimed[t])

\* claim on an envelope that is free to submit.
Claim(t) ==
    LET e == claimed[t]
    IN  /\ At(t, "submit")
        /\ records[e].status \in {"prepared", "unknown"}
        /\ records' = [records EXCEPT ![e].status = "reconciling"]
        /\ recovery' = [recovery EXCEPT ![t] = records[e].status = "unknown"]
        /\ GoTo(t, IF records[e].status = "unknown" THEN "lookup" ELSE "wire")
        /\ UNCHANGED <<active, floor, prepareVars, cursor, callVars, via, claimed, result,
                       asleep, nodeVars, accepted>>

\* claim while another task submits the same envelope.
ClaimWait(t) ==
    /\ At(t, "submit")
    /\ records[claimed[t]].status = "reconciling"
    /\ asleep' = asleep \cup {t}
    /\ UNCHANGED <<stateVars, pc, prepareVars, cursor, callVars, submitVars, result,
                   nodeVars, accepted>>

\* claim without a reservation.
ClaimMissing(t) ==
    /\ At(t, "submit")
    /\ records[claimed[t]].status = "none"
    /\ EndSubmit(t, records, "rejected", FALSE)
    /\ UNCHANGED <<floor, prepareVars, cursor, callVars, nodeVars, accepted>>

Raised(s, n) == IF floor[s] > n + 1 THEN floor[s] ELSE n + 1

\* Submission::accept, and what the caller does next: admission is tried again,
\* the batch goes on or ends, the broadcast returns.
Accept(t) ==
    LET e == claimed[t]
        more == via[t] = "batch" /\ cursor[t] + 1 < Len(entries[t])
    IN  /\ records' = [records EXCEPT ![e] = NoRecord]
        /\ floor' = [floor EXCEPT ![e.from] = Raised(e.from, e.nonce)]
        /\ accepted' = accepted \cup {e}
        /\ asleep' = {}
        /\ cursor' = [cursor EXCEPT ![t] = IF via[t] = "batch" THEN @ + 1 ELSE @]
        /\ active' = IF via[t] = "batch" /\ ~ more THEN Released(t) ELSE active
        /\ IF via[t] = "admit" \/ more
           THEN /\ GoTo(t, IF more THEN "submit" ELSE "admit")
                /\ via' = [via EXCEPT ![t] = IF more THEN @ ELSE "none"]
                /\ claimed' = [claimed EXCEPT
                                   ![t] = IF more THEN entries[t][cursor[t] + 2] ELSE None]
                /\ recovery' = [recovery EXCEPT ![t] = FALSE]
                /\ UNCHANGED result
           ELSE Return(t, "ok", e)
        /\ signed' = [signed EXCEPT ![t] = IF @ = e THEN None ELSE @]
        /\ UNCHANGED <<prepareVars, job, calls, nodeVars>>

\* The outcome stays unknown; so it does when the caller is dropped.
Undecided(t) ==
    /\ EndSubmit(t, Ambiguous(claimed[t]), "ambiguous", TRUE)
    /\ UNCHANGED <<floor, prepareVars, cursor, callVars, nodeVars, accepted>>

\* known: a recovery first asks for the exact hash.
LookupFound(t) == At(t, "lookup") /\ claimed[t] \in pool /\ Accept(t)
LookupAbsent(t) ==
    /\ At(t, "lookup")
    /\ GoTo(t, "wire")
    /\ UNCHANGED <<stateVars, prepareVars, cursor, callVars, submitVars, result, asleep,
                   nodeVars, accepted>>
LookupFails(t) == At(t, "lookup") /\ Undecided(t)

\* Variant of Refuse that trusts a refusal of a replayed envelope.
RefuseAlways(t) ==
    /\ At(t, "wire")
    /\ EndSubmit(t, [records EXCEPT ![claimed[t]] = NoRecord], "rejected", TRUE)
    /\ UNCHANGED <<floor, prepareVars, cursor, callVars, nodeVars, accepted>>

\* broadcast refuses before the wire, with an error that carries no ID: a first
\* submission is rejected, a replay stays unknown.
Refuse(t) ==
    /\ At(t, "wire")
    /\ IF recovery[t]
       THEN EndSubmit(t, Ambiguous(claimed[t]), "ambiguous", TRUE)
       ELSE EndSubmit(t, [records EXCEPT ![claimed[t]] = NoRecord], "rejected", TRUE)
    /\ UNCHANGED <<floor, prepareVars, cursor, callVars, nodeVars, accepted>>

\* eth_sendRawTransaction goes out, once; from here on no error proves that the
\* bytes did not arrive.
Dispatch(t) ==
    /\ At(t, "wire")
    /\ sent' = sent \cup {claimed[t]}
    /\ GoTo(t, "answer")
    /\ UNCHANGED <<stateVars, prepareVars, cursor, callVars, submitVars, result, asleep,
                   pool, accepted>>

\* The node returns the hash, or knows the transaction already.
AnswerOk(t) == At(t, "answer") /\ claimed[t] \in pool /\ Accept(t)
\* An error, no answer, or another hash.
AnswerUnclear(t) == At(t, "answer") /\ Undecided(t)

\* The bytes reach the node, possibly after the caller gave up.
Deliver(e) ==
    /\ e \in sent \ pool
    /\ pool' = pool \cup {e}
    /\ UNCHANGED <<stateVars, pc, prepareVars, cursor, callVars, submitVars, result,
                   asleep, sent, accepted>>

\* The future of t is dropped while it waits for a notification.
CancelWait(t) ==
    /\ t \in asleep
    /\ IF pc[t] = "admit"
       THEN /\ Return(t, "failed", None)
            /\ asleep' = asleep \ {t}
            /\ UNCHANGED <<active, records>>
       ELSE EndSubmit(t, records, "failed", FALSE)
    /\ UNCHANGED <<floor, prepareVars, cursor, callVars, nodeVars, accepted>>

-----------------------------------------------------------------------------

Prepares(t) ==
    \/ Acquire(t) \/ AdmitWait(t)
    \/ \E e \in Envelope : Recover(t, e)
    \/ \E s \in Sender, n \in 0 .. MaxNonce : ReadNonce(t, s, n) \/ NoncesExhausted(t, s, n)
    \/ Register(t) \/ DetachOne(t)

Submits(t) ==
    \/ Claim(t) \/ ClaimWait(t) \/ ClaimMissing(t)
    \/ LookupFound(t) \/ LookupAbsent(t) \/ Dispatch(t) \/ AnswerOk(t)

Fails(t) ==
    \/ PreparationFails(t) \/ LookupFails(t) \/ Refuse(t) \/ AnswerUnclear(t) \/ CancelWait(t)

Step(t) ==
    \/ \E j \in Job : Call(t, j)
    \/ Broadcast(t) \/ Prepares(t) \/ Submits(t) \/ Fails(t)

\* Nobody calls.
Quiet == (\A t \in Task : pc[t] = "idle") /\ UNCHANGED vars

Next == (\E t \in Task : Step(t)) \/ (\E e \in Envelope : Deliver(e)) \/ Quiet

Spec == Init /\ [][Next]_vars

\* The runtime polls every task that can go on, and the network delivers.
Fairness ==
    /\ \A t \in Task : WF_vars(Prepares(t)) /\ WF_vars(Submits(t))
    /\ \A e \in Envelope : WF_vars(Deliver(e))

FairSpec == Spec /\ Fairness

-----------------------------------------------------------------------------
(* Properties.                                                             *)

Holding(t) == pc[t] \in {"nonces", "build"} \/ via[t] = "batch"
InFlight(e) == records[e].status \in {"unknown", "reconciling"}

TypeOK ==
    /\ active \in [Sender -> Task \cup {None}]
    /\ floor \in [Sender -> Nat]
    /\ records \in [Envelope -> Record]
    /\ pc \in [Task -> {"idle", "admit", "nonces", "build", "submit", "lookup", "wire",
                       "answer"}]
    /\ job \in [Task -> Job]
    /\ via \in [Task -> {"none", "admit", "batch", "single"}]
    /\ unread \in [Task -> SUBSET Sender]
    /\ start \in [Task -> [Sender -> Nat]]
    /\ entries \in [Task -> Seq(Envelope)]
    /\ cursor \in [Task -> Nat]
    /\ claimed \in [Task -> Envelope \cup {None}]
    /\ recovery \in [Task -> BOOLEAN]
    /\ signed \in [Task -> Envelope \cup {None}]
    /\ result \in [Task -> [kind : {"none", "prepared", "ok", "rejected", "ambiguous", "failed"},
                            id : Envelope \cup {None}]]
    /\ asleep \subseteq Task
    /\ calls \in [Task -> Nat]
    /\ sent \subseteq Envelope /\ pool \subseteq sent /\ accepted \subseteq sent

\* An envelope that may have reached a node stays coordinated, in its exact
\* form, until its acceptance is known: no error, cancellation or concurrent
\* recovery forgets it (claim, accept, reject and the drops of the guards).
OpenFateRetained == \A e \in sent \ accepted : InFlight(e)

\* From its admission until the last envelope, an operation holds every sender
\* of its call, across all its awaits, and no other record of theirs exists
\* while it reads nonces and signs: register never finds the admission lost.
AdmissionKept ==
    \A t \in Task : Holding(t) =>
        \A s \in Senders(job[t].items) :
            /\ active[s] = t
            /\ pc[t] \in {"nonces", "build"} => RecordsOf(s) = {}

\* Once no operation holds a sender, at most one envelope of it is retained:
\* a batch that stops leaves the one it could not decide and nothing else.
OneRetained ==
    \A s \in Sender : active[s] = None =>
        \A e, f \in RecordsOf(s) : e = f

\* PreparedBatch::next submits in order and stops at the first failure: bytes
\* of a batch entry leave only after every earlier entry was accepted.
PrefixAccepted ==
    \A t \in Task : \A i \in DOMAIN entries[t] :
        entries[t][i] \in sent => \A k \in 1 .. i - 1 : entries[t][k] \in accepted

\* No wakeup is lost: a task sleeps only while what it sleeps on still blocks
\* it, as the notification is enabled before the state is examined and every
\* release notifies.
SleepsOnlyBlocked ==
    \A t \in asleep :
        \/ pc[t] = "admit" /\ MustWait(t)
        \/ pc[t] = "submit" /\ records[claimed[t]].status = "reconciling"

\* A batch item reported rejected, without an ambiguous ID, never left the
\* process.
RejectedNeverSent ==
    \A t \in Task :
        result[t].kind = "rejected" /\ result[t].id # signed[t] => result[t].id \notin sent

\* The envelopes of a sender are accounted for: what may have reached a node is
\* retained until its fate is known, one of them at most outlives its operation,
\* batches go out in order, and what is reported rejected never left.
EnvelopesKept == OpenFateRetained /\ OneRetained /\ PrefixAccepted /\ RejectedNeverSent

\* Admission is all or nothing and kept, and whoever sleeps on it is blocked.
AdmissionSound == AdmissionKept /\ SleepsOnlyBlocked

\* Two transactions of a sender never compete for a nonce, at most one of them
\* has an open fate, and new ones go above the settled ones, whatever pending
\* counts the node reports and however calls are dropped.
Ledger == INSTANCE NonceLedger WITH wire <- sent, settled <- accepted
LedgerSpec == Ledger!LedgerSpec

=============================================================================
