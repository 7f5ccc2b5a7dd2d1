------------------------------ MODULE Wallets ------------------------------
(***************************************************************************)
(* The wallet collection of one scope (sdk/wallets/src/wallets.rs), its    *)
(* durable registry, and the admission lock they share with the            *)
(* synchronizer (sdk/indexing/src/admission.rs): the lock makes the        *)
(* commits of a synchronization pass and the publication of a new address  *)
(* exclude each other.  A sync pass is a member of Task, a caller that     *)
(* publishes an address is a member of Publisher.  The passes here are     *)
(* those any FilterSource client may run, over a repository whose          *)
(* checkpoint is arbitrary; Indexing puts the real synchronizer and        *)
(* repository there.                                                       *)
(*                                                                         *)
(* Every operator of the lock is one critical section under                *)
(* ScopeAdmission::lock.  The runtime is multi-threaded, so the steps of a *)
(* publisher interleave with those of a pass even where the code does not  *)
(* await.                                                                  *)
(***************************************************************************)
EXTENDS Chain

CONSTANTS
    NoReload,     \* a publication call that has already seen the lock busy
    Task,         \* concurrent callers of sync
    Publisher,    \* concurrent callers of generate and adopt
    MaxRevision   \* the last value of the revision counter, u64::MAX in the code

ASSUME NoReloadIsNoCheckpoint == NoReload \notin Checkpoint
ASSUME RevisionBound == MaxRevision \in Nat

CONSTANTS
    Wallet,      \* wallet identities
    AddressOf,   \* AddressOf[w]: the address derived from w's secret
    Imported,    \* the entries imported at startup, before anything runs
    HasRegistry  \* the wallet family was registered with a durable registry

Entry == [id : Wallet, start : Nat]

ASSUME WalletExists == Wallet # {}
ASSUME AddressType == AddressOf \in [Wallet -> Address]
ASSUME HasRegistryType == HasRegistry \in BOOLEAN
ASSUME ImportedType == /\ Imported \subseteq Entry
                       /\ \A e, f \in Imported : e.id = f.id => e = f

VARIABLES
    initialized, persisted, revision, commit, publication, recovery, waiters,
    stage,        \* stage[t]: how far sync pass t is with its plan and permit
    plan,         \* plan[t]: the SyncPlan of t, meaningful when stage[t] # "idle"
    phase,        \* phase[p]: where publisher p stands
    reload,       \* reload[p]: the caller's checkpoint while it may still be used
    granted       \* granted[p]: the checkpoint of p's PublicationPermit

VARIABLES
    values,      \* the in-memory collection
    registry,    \* the durable registry (payments_wallet)
    target,      \* target[p]: the entry p publishes; its start is set by store
    durable,     \* durable[p]: p came through adopt on a family with a registry
    published    \* history: entries whose publication succeeded

-----------------------------------------------------------------------------
(* ScopeAdmission.                                                         *)

stateVars == <<initialized, persisted, revision, commit, publication, recovery, waiters>>
taskVars == <<stage, plan>>
publisherVars == <<phase, reload, granted>>
admissionVars == <<stateVars, taskVars, publisherVars>>

Filter == [address : Address, start : Nat]
Plan == [filters : SUBSET Filter, checkpoint : Checkpoint, revision : 0..MaxRevision]
NoPlan == [filters |-> {}, checkpoint |-> None, revision |-> 0]
\* A publisher holds the permit from the grant until complete or Drop.
Holding == {"holding", "registering", "inserted"}

AdmissionInit ==
    /\ initialized = FALSE
    /\ persisted = None
    /\ revision = 0
    /\ commit = FALSE
    /\ publication = FALSE
    /\ recovery = FALSE
    /\ waiters = {}
    /\ stage = [t \in Task |-> "idle"]
    /\ plan = [t \in Task |-> NoPlan]
    /\ phase = [p \in Publisher |-> "idle"]
    /\ reload = [p \in Publisher |-> NoReload]
    /\ granted = [p \in Publisher |-> None]

Busy == commit \/ publication

\* State::notify: every waiter is woken and goes round the publication loop again.
Notified(ph) == [p \in Publisher |-> IF p \in waiters THEN "arrived" ELSE ph[p]]

-----------------------------------------------------------------------------
(* plan: a first critical section, the filter capture, a second section.   *)

\* Variant of PlanLock that does not look at the permits.
PlanLockBusy(t, c) ==
    /\ stage[t] = "idle"
    /\ persisted' = c
    /\ initialized' = TRUE
    /\ recovery' = FALSE
    /\ stage' = [stage EXCEPT ![t] = "capturing"]
    /\ plan' = [plan EXCEPT ![t] = [filters |-> {}, checkpoint |-> c, revision |-> revision]]
    /\ UNCHANGED <<revision, commit, publication, waiters, publisherVars>>

\* Variant of PlanLock that reloads the checkpoint and forgets to clear recovery.
PlanLockRecovering(t, c) ==
    /\ stage[t] = "idle"
    /\ ~Busy
    /\ persisted' = c
    /\ initialized' = TRUE
    /\ stage' = [stage EXCEPT ![t] = "capturing"]
    /\ plan' = [plan EXCEPT ![t] = [filters |-> {}, checkpoint |-> c, revision |-> revision]]
    /\ UNCHANGED <<revision, commit, publication, recovery, waiters, publisherVars>>

\* All three reload conditions leave the same state: with none of them true,
\* persisted is already c, initialized is set and recovery is clear.
PlanLock(t, c) ==
    /\ stage[t] = "idle"
    /\ ~Busy
    /\ persisted' = c
    /\ initialized' = TRUE
    /\ recovery' = FALSE
    /\ stage' = [stage EXCEPT ![t] = "capturing"]
    /\ plan' = [plan EXCEPT ![t] = [filters |-> {}, checkpoint |-> c, revision |-> revision]]
    /\ UNCHANGED <<revision, commit, publication, waiters, publisherVars>>

PlanCapture(t, filters) ==
    /\ stage[t] = "capturing"
    /\ stage' = [stage EXCEPT ![t] = "captured"]
    /\ plan' = [plan EXCEPT ![t].filters = filters]
    /\ UNCHANGED <<stateVars, publisherVars>>

PlanUnchanged(t) ==
    /\ ~Busy
    /\ ~recovery
    /\ persisted = plan[t].checkpoint
    /\ revision = plan[t].revision

PlanCheck(t) ==
    /\ stage[t] = "captured"
    /\ PlanUnchanged(t)
    /\ stage' = [stage EXCEPT ![t] = "planned"]
    /\ UNCHANGED <<stateVars, plan, publisherVars>>

\* The pass ends without a permit: a refused check, an error or a dropped future.
PlanDrop(t) ==
    /\ stage[t] \in {"capturing", "captured", "planned"}
    /\ stage' = [stage EXCEPT ![t] = "idle"]
    /\ plan' = [plan EXCEPT ![t] = NoPlan]
    /\ UNCHANGED <<stateVars, publisherVars>>

-----------------------------------------------------------------------------
(* CommitPermit.  Both callers start the permit right after begin.         *)

CanBeginAnyRevision(t) ==
    ~recovery /\ ~Busy /\ persisted = plan[t].checkpoint

CanBegin(t) ==
    /\ ~recovery
    /\ ~Busy
    /\ persisted = plan[t].checkpoint
    /\ revision = plan[t].revision

Begin(t) ==
    /\ stage[t] = "planned"
    /\ CanBegin(t)
    /\ commit' = TRUE
    /\ stage' = [stage EXCEPT ![t] = "committing"]
    /\ UNCHANGED <<initialized, persisted, revision, publication, recovery, waiters,
                   plan, publisherVars>>

CommitPersist(t, c) ==
    /\ stage[t] = "committing"
    /\ persisted' = c
    /\ UNCHANGED <<initialized, revision, commit, publication, recovery, waiters,
                   taskVars, publisherVars>>

\* Variant of CommitComplete that wakes nobody.
CommitCompleteSilent(t, c) ==
    /\ stage[t] = "committing"
    /\ persisted' = c
    /\ commit' = FALSE
    /\ stage' = [stage EXCEPT ![t] = "planned"]
    /\ plan' = [plan EXCEPT ![t].checkpoint = IF c = None THEN @ ELSE c]
    /\ UNCHANGED <<initialized, revision, publication, recovery, waiters, publisherVars>>

\* complete, then SyncPlan::advance.
CommitComplete(t, c) ==
    /\ stage[t] = "committing"
    /\ persisted' = c
    /\ commit' = FALSE
    /\ waiters' = {}
    /\ phase' = Notified(phase)
    /\ stage' = [stage EXCEPT ![t] = "planned"]
    /\ plan' = [plan EXCEPT ![t].checkpoint = IF c = None THEN @ ELSE c]
    /\ UNCHANGED <<initialized, revision, publication, recovery, reload, granted>>

\* Variant of CommitDrop that wakes nobody.
CommitDropSilent(t) ==
    /\ stage[t] = "committing"
    /\ commit' = FALSE
    /\ recovery' = TRUE
    /\ stage' = [stage EXCEPT ![t] = "idle"]
    /\ plan' = [plan EXCEPT ![t] = NoPlan]
    /\ UNCHANGED <<initialized, persisted, revision, publication, waiters, publisherVars>>

\* Drop of a started, unfinished permit; the pass ends with it.
CommitDrop(t) ==
    /\ stage[t] = "committing"
    /\ commit' = FALSE
    /\ recovery' = TRUE
    /\ waiters' = {}
    /\ phase' = Notified(phase)
    /\ stage' = [stage EXCEPT ![t] = "idle"]
    /\ plan' = [plan EXCEPT ![t] = NoPlan]
    /\ UNCHANGED <<initialized, persisted, revision, publication, reload, granted>>

-----------------------------------------------------------------------------
(* PublicationPermit.                                                      *)

\* One turn of the publication loop that finds the lock free.
PublicationGrant(p) ==
    /\ phase[p] = "arrived"
    /\ ~Busy
    /\ publication' = TRUE
    /\ IF reload[p] = NoReload
       THEN /\ granted' = [granted EXCEPT ![p] = persisted]
            /\ UNCHANGED <<initialized, persisted, recovery>>
       ELSE /\ persisted' = reload[p]
            /\ initialized' = TRUE
            /\ recovery' = FALSE
            /\ granted' = [granted EXCEPT ![p] = reload[p]]
    /\ phase' = [phase EXCEPT ![p] = "holding"]
    /\ reload' = [reload EXCEPT ![p] = NoReload]
    /\ UNCHANGED <<revision, commit, waiters, taskVars>>

\* One turn that finds it busy: the caller's checkpoint is forgotten.
PublicationWait(p) ==
    /\ phase[p] = "arrived"
    /\ Busy
    /\ waiters' = waiters \cup {p}
    /\ phase' = [phase EXCEPT ![p] = "waiting"]
    /\ reload' = [reload EXCEPT ![p] = NoReload]
    /\ UNCHANGED <<initialized, persisted, revision, commit, publication, recovery,
                   taskVars, granted>>

\* PublicationPermit::complete.  An exhausted revision counter is an error, and
\* the permit is then dropped without a new revision.
PublicationComplete(p) ==
    /\ phase[p] = "inserted"
    /\ revision' = IF revision < MaxRevision THEN revision + 1 ELSE revision
    /\ publication' = FALSE
    /\ waiters' = {}
    /\ phase' = [Notified(phase) EXCEPT ![p] = "idle"]
    /\ granted' = [granted EXCEPT ![p] = None]
    /\ UNCHANGED <<initialized, persisted, commit, recovery, taskVars, reload>>

\* Drop of an unfinished permit: the revision stays.
PublicationDrop(p) ==
    /\ phase[p] \in Holding
    /\ publication' = FALSE
    /\ waiters' = {}
    /\ phase' = [Notified(phase) EXCEPT ![p] = "idle"]
    /\ granted' = [granted EXCEPT ![p] = None]
    /\ UNCHANGED <<initialized, persisted, revision, commit, recovery, taskVars, reload>>

\* The publication future is dropped before it got the permit.  Its sender may
\* stay in the waiter list, where sending to it has no effect.
PublicationAbandon(p) ==
    /\ phase[p] \in {"arrived", "waiting"}
    /\ phase' = [phase EXCEPT ![p] = "idle"]
    /\ reload' = [reload EXCEPT ![p] = NoReload]
    /\ waiters' = waiters \ {p}
    /\ UNCHANGED <<initialized, persisted, revision, commit, publication, recovery,
                   taskVars, granted>>

-----------------------------------------------------------------------------
(* Wallets.                                                                *)

walletVars == <<values, registry, target, durable, published>>
vars == <<admissionVars, walletVars>>

-----------------------------------------------------------------------------
(* Filters.                                                                *)

FilterOf(e) == [address |-> AddressOf[e.id], start |-> e.start]

\* Wallets::filters: one filter for each address, with the earliest birthday.
Filters(entries) ==
    LET all == {FilterOf(e) : e \in entries}
    IN  {f \in all : \A g \in all : g.address = f.address => f.start <= g.start}

\* Variant of ActiveAddresses that leaves out the block of the birthday itself.
ActiveAddressesAfter(filters, position) ==
    {f.address : f \in {g \in filters : g.start < position}}

\* SyncPlan::active_addresses
ActiveAddresses(filters, position) ==
    {f.address : f \in {g \in filters : g.start <= position}}

\* The filters inspect the address of e from its birthday on.
Covers(filters, e) ==
    \E f \in filters : f.address = AddressOf[e.id] /\ f.start <= e.start

\* store: the successor of the permit's checkpoint, or the first position.
Birthday(c) == IF c = None THEN 0 ELSE Pos[c] + 1

-----------------------------------------------------------------------------

\* What target[p] is worth while p publishes nothing.
SomeEntry == [id |-> CHOOSE w \in Wallet : TRUE, start |-> 0]

WalletsInit ==
    /\ AdmissionInit
    /\ values = Imported
    /\ registry = {}
    /\ target = [p \in Publisher |-> SomeEntry]
    /\ durable = [p \in Publisher |-> FALSE]
    /\ published = Imported

\* The call of p is over.
Return(p) ==
    /\ target' = [target EXCEPT ![p] = SomeEntry]
    /\ durable' = [durable EXCEPT ![p] = FALSE]

\* generate or adopt up to the call of publication: the repository checkpoint c
\* has been read, the admission lock has not been taken.
Request(p, w, adopted, c) ==
    /\ phase[p] = "idle"
    /\ phase' = [phase EXCEPT ![p] = "arrived"]
    /\ reload' = [reload EXCEPT ![p] = c]
    /\ target' = [target EXCEPT ![p] = [id |-> w, start |-> 0]]
    /\ durable' = [durable EXCEPT ![p] = adopted /\ HasRegistry]
    /\ UNCHANGED <<stateVars, taskVars, granted, values, registry, published>>

\* store, with the permit held: the entry goes into the collection.
Store(p) ==
    LET e == [id |-> target[p].id, start |-> Birthday(granted[p])]
    IN  /\ phase[p] = "holding"
        /\ \A v \in values : v.id # e.id
        /\ values' = values \cup {e}
        /\ target' = [target EXCEPT ![p] = e]
        /\ phase' = [phase EXCEPT ![p] = IF durable[p] THEN "registering" ELSE "inserted"]
        /\ UNCHANGED <<stateVars, taskVars, reload, granted, registry, durable, published>>

\* Variant of StoreDuplicate that cleans up as after a failed registration.
StoreDuplicateForgets(p) ==
    /\ phase[p] = "holding"
    /\ \E v \in values : v.id = target[p].id
    /\ values' = {v \in values : v.id # target[p].id}
    /\ PublicationDrop(p)
    /\ Return(p)
    /\ UNCHANGED <<registry, published>>

\* store, when the identity is taken: an error, and the permit is dropped.
StoreDuplicate(p) ==
    /\ phase[p] = "holding"
    /\ \E v \in values : v.id = target[p].id
    /\ PublicationDrop(p)
    /\ Return(p)
    /\ UNCHANGED <<values, registry, published>>

\* Variant of CanRegister that takes any row.
CanRegisterAgain(e) == TRUE

\* Registry::register inserts nothing when the identity or the address exists.
CanRegister(e) ==
    \A r \in registry : r.id # e.id /\ AddressOf[r.id] # AddressOf[e.id]

Register(p) ==
    /\ phase[p] = "registering"
    /\ CanRegister(target[p])
    /\ registry' = registry \cup {target[p]}
    /\ phase' = [phase EXCEPT ![p] = "inserted"]
    /\ UNCHANGED <<stateVars, taskVars, reload, granted, values, target, durable, published>>

\* register returns an error: a conflict, a failure before the row was written,
\* or the loss of the answer after it was.  adopt forgets the entry and drops
\* the permit.
RegisterFailed(p) ==
    /\ phase[p] = "registering"
    /\ registry' \in {registry} \cup
                     (IF CanRegister(target[p]) THEN {registry \cup {target[p]}} ELSE {})
    /\ values' = {v \in values : v.id # target[p].id}
    /\ PublicationDrop(p)
    /\ Return(p)
    /\ UNCHANGED published

\* The adopt future is dropped while register runs: nothing forgets the entry.
RegisterCancelled(p) ==
    /\ phase[p] = "registering"
    /\ registry' \in {registry} \cup
                     (IF CanRegister(target[p]) THEN {registry \cup {target[p]}} ELSE {})
    /\ PublicationDrop(p)
    /\ Return(p)
    /\ UNCHANGED <<values, published>>

\* complete; on an exhausted revision the caller gets an error instead.
Complete(p) ==
    /\ PublicationComplete(p)
    /\ published' = IF revision < MaxRevision THEN published \cup {target[p]} ELSE published
    /\ Return(p)
    /\ UNCHANGED <<values, registry>>

\* The call is dropped while it waits for the lock.
Abandon(p) ==
    /\ PublicationAbandon(p)
    /\ Return(p)
    /\ UNCHANGED <<values, registry, published>>

\* The process stops and starts again: imports and restore rebuild the
\* collection from the configuration and the registry, everything else is new.
Restart ==
    /\ initialized' = FALSE
    /\ persisted' = None
    /\ revision' = 0
    /\ commit' = FALSE
    /\ publication' = FALSE
    /\ recovery' = FALSE
    /\ waiters' = {}
    /\ stage' = [t \in Task |-> "idle"]
    /\ plan' = [t \in Task |-> NoPlan]
    /\ phase' = [p \in Publisher |-> "idle"]
    /\ reload' = [p \in Publisher |-> NoReload]
    /\ granted' = [p \in Publisher |-> None]
    /\ values' = Imported \cup registry
    /\ published' = Imported \cup registry
    /\ target' = [p \in Publisher |-> SomeEntry]
    /\ durable' = [p \in Publisher |-> FALSE]
    /\ UNCHANGED registry

-----------------------------------------------------------------------------

PublisherStep(p) ==
    \/ /\ PublicationGrant(p) \/ PublicationWait(p)
       /\ UNCHANGED walletVars
    \/ Store(p)
    \/ StoreDuplicate(p)
    \/ Register(p)
    \/ RegisterFailed(p)
    \/ Complete(p)

\* The future of generate or adopt is dropped at one of its two awaits.
Cancelled(p) == Abandon(p) \/ RegisterCancelled(p)

TaskStep(t) ==
    /\ \/ \E c \in Checkpoint : PlanLock(t, c)
       \/ PlanCapture(t, Filters(values))
       \/ PlanCheck(t)
       \/ PlanDrop(t)
       \/ Begin(t)
       \/ \E c \in Checkpoint : CommitPersist(t, c)
       \/ \E c \in Checkpoint : CommitComplete(t, c)
       \/ CommitDrop(t)
    /\ UNCHANGED walletVars

WalletsNext ==
    \/ \E t \in Task : TaskStep(t)
    \/ \E p \in Publisher : PublisherStep(p) \/ Cancelled(p)
    \/ \E p \in Publisher, w \in Wallet, adopted \in BOOLEAN, c \in Checkpoint :
          Request(p, w, adopted, c)
    \/ Restart

WalletsSpec == WalletsInit /\ [][WalletsNext]_vars

-----------------------------------------------------------------------------
(* Properties.                                                             *)

\* Every variable holds a value of its type.
TypeOK ==
    /\ initialized \in BOOLEAN
    /\ persisted \in Checkpoint
    /\ revision \in 0..MaxRevision
    /\ commit \in BOOLEAN
    /\ publication \in BOOLEAN
    /\ recovery \in BOOLEAN
    /\ waiters \in SUBSET Publisher
    /\ stage \in [Task -> {"idle", "capturing", "captured", "planned", "committing"}]
    /\ plan \in [Task -> Plan]
    /\ phase \in [Publisher -> {"idle", "arrived", "waiting"} \cup Holding]
    /\ reload \in [Publisher -> Checkpoint \cup {NoReload}]
    /\ granted \in [Publisher -> Checkpoint]
    /\ values \in SUBSET Entry
    /\ registry \in SUBSET Entry
    /\ target \in [Publisher -> Entry]
    /\ durable \in [Publisher -> BOOLEAN]
    /\ published \in SUBSET Entry

\* Admission is exclusive: the two flags of the lock are true exactly while
\* somebody holds the permit, there is one holder at most, and no publication
\* is open while a repository transition is in flight.
Exclusive ==
    /\ commit <=> \E t \in Task : stage[t] = "committing"
    /\ publication <=> \E p \in Publisher : phase[p] \in Holding
    /\ \A t, u \in Task : stage[t] = "committing" /\ stage[u] = "committing" => t = u
    /\ \A p, q \in Publisher : phase[p] \in Holding /\ phase[q] \in Holding => p = q
    /\ ~(commit /\ publication)

\* A pass never commits with filters older than a finished publication: whoever
\* holds a commit permit inspects every published address from its birthday on.
CommitCoversPublished ==
    \A t \in Task : stage[t] = "committing" =>
        \A e \in published : Covers(plan[t].filters, e)

\* The birthday a publisher derives from its permit cannot go stale while it
\* holds the permit: no pass moves the admitted checkpoint under it.
BirthdayPinned ==
    \A p \in Publisher : phase[p] \in Holding => granted[p] = persisted

\* No wake-up is lost: a publisher sleeps only while a permit holder, who will
\* notify it, exists.
NoLostWakeup ==
    \A p \in Publisher : phase[p] = "waiting" => p \in waiters /\ Busy

\* A published address is observed from then on: neither a failed registration
\* of another caller nor a duplicate identity removes it.
PublishedObserved == published \subseteq values

\* What the two sides of the store tell each other, in the words of its comment:
\* with no call in flight, memory and registry agree on what is registered.
RegistryAgrees ==
    (\A p \in Publisher : phase[p] = "idle") => registry \subseteq values

\* A pass that still has the current revision has captured every published
\* address, and a permit holder has the current revision.
PlanFresh ==
    \A t \in Task :
        /\ plan[t].revision <= revision
        /\ stage[t] = "committing" => plan[t].revision = revision
        /\ stage[t] \in {"captured", "planned", "committing"} /\ plan[t].revision = revision =>
              \A e \in published : Covers(plan[t].filters, e)

\* An entry on its way through store and register belongs to its publisher alone.
InFlightApart ==
    \A p \in Publisher : phase[p] \in {"registering", "inserted"} =>
        /\ target[p] \in values
        /\ \A e \in published : e.id # target[p].id

\* Identities are unique in memory, in the registry and after a restart.
IdsUnique ==
    /\ Imported \subseteq published
    /\ \A u, v \in values : u.id = v.id => u = v
    /\ \A r, s \in registry \cup Imported : r.id = s.id => r = s

\* The waiter list holds sleeping publishers only.
WaitersWait == \A p \in waiters : phase[p] = "waiting"

\* The inductive invariant: the safety properties above with what it takes to
\* carry them through a plan's two critical sections, a publication and a restart.
AdmissionInv ==
    /\ TypeOK
    /\ Exclusive
    /\ BirthdayPinned
    /\ NoLostWakeup
    /\ WaitersWait
    /\ PublishedObserved
    /\ PlanFresh
    /\ InFlightApart
    /\ IdsUnique
=============================================================================
