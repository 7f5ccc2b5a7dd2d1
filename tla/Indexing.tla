------------------------------ MODULE Indexing ------------------------------
(***************************************************************************)
(* One index scope end to end: Synchronizer::sync                          *)
(* (sdk/indexing/src/synchronizer.rs) over the repository, the chain       *)
(* source and the wallet collection, driven by the run loop                *)
(* (sdk/indexing/runtime/src/lib.rs), with publications in between.        *)
(*                                                                         *)
(* A pass is cut where it awaits: every source call and every repository   *)
(* call is a step, and so is every critical section of ScopeAdmission.     *)
(* The source may switch to any branch of the block tree between two       *)
(* steps; a blocks call is answered from one branch.                       *)
(***************************************************************************)
EXTENDS Wallets, Repository, Sequences

CONSTANT BatchSize   \* SyncConfig::batch_size

ASSUME BatchPositive == BatchSize \in Nat \ {0}

VARIABLES
    tip,       \* the source's canonical tip
    running,   \* Synchronizer::running
    pass,      \* pass[t]: the program counter and the locals of a sync call
    stopped    \* the run loop returned on an error that no retry repairs

syncVars == <<running, pass, stopped>>
indexVars == <<vars, repositoryVars, tip, syncVars>>

NoPass == [at |-> "idle", tip |-> None, checkpoint |-> None, height |-> 0,
           queue |-> <<>>, then |-> "finish", applied |-> 0]

IndexingInit ==
    /\ WalletsInit
    /\ RepositoryInit
    /\ tip \in Block
    /\ running = FALSE
    /\ pass = [t \in Task |-> NoPass]
    /\ stopped = FALSE

-----------------------------------------------------------------------------
(* The source.                                                             *)

\* BlockSource::canonical_at
CanonicalAt(b) == b \in ChainOf[tip]

Produced(first, last) == {b \in ChainOf[tip] : first <= Pos[b] /\ Pos[b] <= last}

\* BlockSource::blocks, the one answer it has: the lowest produced blocks of a range
\* of positions, in order; none is left out unless the limit is reached.
Blocks(first, last, limit) ==
    {found \in UNION {[1 .. n -> Produced(first, last)] : n \in 0 .. limit} :
        /\ \A i, j \in DOMAIN found : i < j => Pos[found[i]] < Pos[found[j]]
        /\ \A b \in Produced(first, last) :
              \/ \E i \in DOMAIN found : found[i] = b
              \/ DOMAIN found = 1 .. limit /\ \A i \in DOMAIN found : Pos[found[i]] < Pos[b]}

\* New blocks and reorgs.
SourceMoves ==
    /\ tip' \in Block \ {tip}
    /\ UNCHANGED <<vars, repositoryVars, syncVars>>

-----------------------------------------------------------------------------
(* Ends of a pass.                                                         *)

\* Variant of Unwind that leaks the permit.
UnwindLeaks(t) ==
    /\ stage' = [stage EXCEPT ![t] = "idle"]
    /\ plan' = [plan EXCEPT ![t] = NoPlan]
    /\ running' = FALSE
    /\ pass' = [pass EXCEPT ![t] = NoPass]
    /\ UNCHANGED <<stateVars, publisherVars, walletVars, repositoryVars, tip>>

\* The future of sync returns an error or is dropped: its permit, its plan and
\* the running guard are dropped with it.
Unwind(t) ==
    /\ \/ stage[t] = "committing" /\ CommitDrop(t)
       \/ stage[t] \in {"capturing", "captured", "planned"} /\ PlanDrop(t)
       \/ stage[t] = "idle" /\ UNCHANGED admissionVars
    /\ running' = FALSE
    /\ pass' = [pass EXCEPT ![t] = NoPass]
    /\ UNCHANGED <<walletVars, repositoryVars, tip>>

\* A retryable error: the run loop tries again.
Retry(t) == Unwind(t) /\ UNCHANGED stopped

\* Any other error: the run loop returns it.
Stop(t) == Unwind(t) /\ stopped' = TRUE

\* A call of the source or the repository fails, or the future is dropped.
Fail(t) == pass[t].at # "idle" /\ Retry(t)

At(t, step) == pass[t].at = step

\* The pass goes on with other locals; nothing else changes.
Continue(t, locals) ==
    /\ pass' = [pass EXCEPT ![t] = locals]
    /\ UNCHANGED <<running, stopped, tip>>

-----------------------------------------------------------------------------
(* sync up to its plan.                                                    *)

\* enter, then the answer of BlockSource::tip.
SyncStart(t) ==
    /\ At(t, "idle")
    /\ ~stopped
    /\ ~running
    /\ running' = TRUE
    /\ pass' = [pass EXCEPT ![t] = [NoPass EXCEPT !.at = "load", !.tip = tip]]
    /\ UNCHANGED <<vars, repositoryVars, tip, stopped>>

LoadCheckpoint(t) ==
    /\ At(t, "load")
    /\ Continue(t, [pass[t] EXCEPT !.at = "plan", !.checkpoint = checkpoint])
    /\ UNCHANGED <<vars, repositoryVars>>

MakePlan(t) ==
    /\ At(t, "plan")
    /\ \/ PlanLock(t, pass[t].checkpoint) /\ Continue(t, pass[t])
       \/ PlanCapture(t, Filters(values)) /\ Continue(t, pass[t])
       \/ PlanCheck(t) /\ Continue(t, [pass[t] EXCEPT !.at = "verify"])
    /\ UNCHANGED <<walletVars, repositoryVars>>

PlanRefused(t) ==
    /\ At(t, "plan")
    /\ \/ stage[t] = "idle" /\ Busy
       \/ stage[t] = "captured" /\ ~PlanUnchanged(t)
    /\ Retry(t)

\* canonical_at for the checkpoint decides what the pass does.
Verify(t) ==
    LET c == pass[t].checkpoint
    IN  /\ At(t, "verify")
        /\ Continue(t,
             IF c = None THEN [pass[t] EXCEPT !.at = "init"]
             ELSE IF CanonicalAt(c) THEN [pass[t] EXCEPT !.at = "forward"]
             ELSE [pass[t] EXCEPT !.at = "walk", !.height = Height[c]])
        /\ UNCHANGED <<vars, repositoryVars>>

-----------------------------------------------------------------------------
(* reconcile.                                                              *)

\* The lowest height the search for the common ancestor looks at.
Oldest(t) ==
    LET h == Height[pass[t].checkpoint]
    IN  IF h < Retention THEN 0 ELSE h - Retention

\* Variant of AncestorAt that finds blocks the journal no longer covers.
AncestorInHistory(h) ==
    \E e \in history : Height[e.block] = h /\ CanonicalAt(e.block)

AncestorAt(h) == \E j \in JournalAt(h) : CanonicalAt(j.block)

\* The ancestor is found: begin, or give up when the plan is outdated.
WalkFound(t) ==
    /\ At(t, "walk")
    /\ AncestorAt(pass[t].height)
    /\ Begin(t)
    /\ Continue(t, [pass[t] EXCEPT !.at = "rollback"])
    /\ UNCHANGED <<walletVars, repositoryVars>>

WalkRefused(t) ==
    /\ At(t, "walk")
    /\ AncestorAt(pass[t].height)
    /\ ~CanBegin(t)
    /\ Retry(t)

WalkDown(t) ==
    /\ At(t, "walk")
    /\ ~AncestorAt(pass[t].height)
    /\ pass[t].height # Oldest(t)
    /\ Continue(t, [pass[t] EXCEPT !.height = @ - 1])
    /\ UNCHANGED <<vars, repositoryVars>>

\* ReorgTooDeep
WalkExhausted(t) ==
    /\ At(t, "walk")
    /\ ~AncestorAt(pass[t].height)
    /\ pass[t].height = Oldest(t)
    /\ Stop(t)

\* pass[t].height is the ancestor's height from here on.
AboveAncestor(t) ==
    /\ pass[t].checkpoint # None
    /\ Height[pass[t].checkpoint] > pass[t].height

RemoveTip(t) ==
    /\ At(t, "rollback")
    /\ AboveAncestor(t)
    /\ Remove(pass[t].checkpoint)
    /\ Continue(t, [pass[t] EXCEPT !.at = "removed", !.checkpoint = checkpoint'])
    /\ UNCHANGED vars

PersistRemoved(t) ==
    /\ At(t, "removed")
    /\ CommitPersist(t, pass[t].checkpoint)
    /\ Continue(t, [pass[t] EXCEPT !.at = "rollback"])
    /\ UNCHANGED <<walletVars, repositoryVars>>

RollbackComplete(t) ==
    /\ At(t, "rollback")
    /\ ~AboveAncestor(t)
    /\ CommitComplete(t, pass[t].checkpoint)
    /\ Continue(t, [pass[t] EXCEPT !.at = IF pass[t].checkpoint = None THEN "init" ELSE "forward"])
    /\ UNCHANGED <<walletVars, repositoryVars>>

-----------------------------------------------------------------------------
(* initialize_checkpoint.                                                  *)

Queued(b, anchor) == [block |-> b, anchor |-> anchor]

Only(b, anchor) == <<Queued(b, anchor)>>

\* SyncPlan::earliest_position, when a filter starts at or below the observed tip.
Starts(t) == {f.start : f \in {g \in plan[t].filters : g.start <= Pos[pass[t].tip]}}

\* Nothing to inspect yet: the block at the observed tip's position is the anchor.
AnchorAtTip(t) ==
    /\ At(t, "init")
    /\ Starts(t) = {}
    /\ \E found \in Blocks(Pos[pass[t].tip], Pos[pass[t].tip], 1) :
          IF found = <<>>
          THEN Retry(t)
          ELSE /\ Continue(t, [pass[t] EXCEPT !.at = "apply", !.then = "forward",
                                              !.queue = Only(found[1], TRUE)])
               /\ UNCHANGED <<vars, repositoryVars>>

\* The first block at or after the earliest birthday.
FirstBlock(t) ==
    /\ At(t, "init")
    /\ \E start \in Starts(t) : \E found \in Blocks(start, Pos[pass[t].tip], 1) :
          /\ \A s \in Starts(t) : start <= s
          /\ IF found = <<>>
             THEN Retry(t)
             ELSE /\ Continue(t, [pass[t] EXCEPT
                                    !.at = IF Parent[found[1]] = None THEN "apply" ELSE "anchor",
                                    !.then = "forward",
                                    !.queue = Only(found[1], FALSE)])
                  /\ UNCHANGED <<vars, repositoryVars>>

\* Its parent becomes the anchor; the batch may have no room for the block itself.
BirthdayAnchor(t) ==
    LET parent == Parent[Head(pass[t].queue).block]
        both == Only(parent, TRUE) \o pass[t].queue
    IN  /\ At(t, "anchor")
        /\ IF ~CanonicalAt(parent)
           THEN Retry(t)
           ELSE /\ Continue(t, [pass[t] EXCEPT
                                  !.at = "apply",
                                  !.queue = IF BatchSize = 1 THEN <<Head(both)>> ELSE both])
                /\ UNCHANGED <<vars, repositoryVars>>

-----------------------------------------------------------------------------
(* Forward synchronization and apply.                                      *)

Behind(t) ==
    /\ pass[t].applied < BatchSize
    /\ Pos[pass[t].checkpoint] < Pos[pass[t].tip]

\* The blocks of an answer, none of them an anchor.
Fetched(found) == [i \in DOMAIN found |-> Queued(found[i], FALSE)]

FetchBlocks(t) ==
    /\ At(t, "forward")
    /\ Behind(t)
    /\ \E found \in Blocks(Pos[pass[t].checkpoint] + 1, Pos[pass[t].tip],
                            BatchSize - pass[t].applied) :
          IF found = <<>>
          THEN Retry(t)
          ELSE /\ Continue(t, [pass[t] EXCEPT
                                 !.at = "apply", !.then = "finish",
                                 !.queue = Fetched(found)])
               /\ UNCHANGED <<vars, repositoryVars>>

\* The pass returns Ready or CatchingUp.
Finish(t) ==
    /\ At(t, "finish") \/ (At(t, "forward") /\ ~Behind(t))
    /\ Retry(t)

Applying(t) == Head(pass[t].queue).block

Inspected(t) ==
    IF Head(pass[t].queue).anchor THEN {}
    ELSE ActiveAddresses(plan[t].filters, Pos[Applying(t)])

Applicable(t) == Connects(Applying(t), pass[t].checkpoint) /\ CanonicalAt(Applying(t))

\* apply up to the call of add: the block connects, is canonical, and begin succeeds.
ApplyBegin(t) ==
    /\ At(t, "apply")
    /\ Applicable(t)
    /\ Begin(t)
    /\ Continue(t, [pass[t] EXCEPT !.at = "adding"])
    /\ UNCHANGED <<walletVars, repositoryVars>>

ApplyRefused(t) ==
    /\ At(t, "apply")
    /\ ~(Applicable(t) /\ CanBegin(t))
    /\ Retry(t)

\* The repository commits.  Whether the pass learns of it is another matter.
AddBlock(t) ==
    /\ At(t, "adding")
    /\ Add(Applying(t), pass[t].checkpoint, Inspected(t))
    /\ Continue(t, [pass[t] EXCEPT !.at = "added"])
    /\ UNCHANGED vars

AddRefused(t) ==
    /\ At(t, "adding")
    /\ ~CanAdd(Applying(t), pass[t].checkpoint, Inspected(t))
    /\ IF SpendsUnknown(Applying(t), Inspected(t)) THEN Stop(t) ELSE Retry(t)

AddComplete(t) ==
    /\ At(t, "added")
    /\ CommitComplete(t, Applying(t))
    /\ Continue(t, [pass[t] EXCEPT
                      !.at = IF Len(pass[t].queue) > 1 THEN "apply" ELSE pass[t].then,
                      !.checkpoint = Applying(t),
                      !.queue = Tail(@),
                      !.applied = @ + 1])
    /\ UNCHANGED <<walletVars, repositoryVars>>

-----------------------------------------------------------------------------

\* The process ends and starts again; the repository and the registry remain.
ProcessRestart ==
    /\ Restart
    /\ running' = FALSE
    /\ pass' = [t \in Task |-> NoPass]
    /\ stopped' = FALSE
    /\ UNCHANGED <<repositoryVars, tip>>

SyncStep(t) ==
    \/ SyncStart(t) \/ LoadCheckpoint(t) \/ MakePlan(t) \/ PlanRefused(t) \/ Verify(t)
    \/ WalkFound(t) \/ WalkRefused(t) \/ WalkDown(t) \/ WalkExhausted(t)
    \/ RemoveTip(t) \/ PersistRemoved(t) \/ RollbackComplete(t)
    \/ AnchorAtTip(t) \/ FirstBlock(t) \/ BirthdayAnchor(t)
    \/ FetchBlocks(t) \/ Finish(t)
    \/ ApplyBegin(t) \/ ApplyRefused(t) \/ AddBlock(t) \/ AddRefused(t) \/ AddComplete(t)

\* generate and adopt read the checkpoint the repository has at that moment.
PublisherCall(p) ==
    /\ \E w \in Wallet, adopted \in BOOLEAN : Request(p, w, adopted, checkpoint)
    /\ UNCHANGED <<repositoryVars, tip, syncVars>>

IndexedPublisherStep(p) ==
    /\ PublisherStep(p)
    /\ UNCHANGED <<repositoryVars, tip, syncVars>>

PublisherCancelled(p) ==
    /\ Cancelled(p)
    /\ UNCHANGED <<repositoryVars, tip, syncVars>>

IndexingNext ==
    \/ SourceMoves
    \/ ProcessRestart
    \/ \E t \in Task : SyncStep(t) \/ Fail(t)
    \/ \E p \in Publisher :
          PublisherCall(p) \/ IndexedPublisherStep(p) \/ PublisherCancelled(p)

IndexingSpec == IndexingInit /\ [][IndexingNext]_indexVars

\* The run loop calls sync again after every pass, and the calls a pass awaits
\* end, by an answer or by a timeout; so does a publication once it is asked for.
FairIndexingSpec ==
    /\ IndexingSpec
    /\ \A t \in Task : WF_indexVars(SyncStep(t))
    /\ \A p \in Publisher : WF_indexVars(IndexedPublisherStep(p))

-----------------------------------------------------------------------------
(* Properties.                                                             *)

Pass == [at : {"idle", "load", "plan", "verify", "walk", "rollback", "removed", "init",
               "anchor", "forward", "apply", "adding", "added", "finish"},
         tip : Checkpoint, checkpoint : Checkpoint, height : Nat,
         queue : Seq([block : Block, anchor : BOOLEAN]),
         then : {"forward", "finish"}, applied : Nat]

\* Every variable and every local of a pass holds a value of its type.
IndexingTypeOK ==
    /\ tip \in Block
    /\ running \in BOOLEAN
    /\ stopped \in BOOLEAN
    /\ pass \in [Task -> Pass]

\* At most one pass is in progress, and only while the running guard is set.
OnePass ==
    \A t, u \in Task :
        /\ pass[t].at # "idle" => running
        /\ pass[t].at # "idle" /\ pass[u].at # "idle" => t = u

\* A pass has a plan while it decides what to do and a permit while it changes the
\* repository, and neither when it is not running.
PassHolds(t) ==
    /\ pass[t].at \in {"idle", "load"} => stage[t] = "idle"
    /\ pass[t].at = "plan" => stage[t] \in {"idle", "capturing", "captured"}
    /\ pass[t].at \in {"verify", "walk", "init", "anchor", "forward", "apply", "finish"}
          => stage[t] = "planned"
    /\ pass[t].at \in {"rollback", "removed", "adding", "added"} => stage[t] = "committing"

\* A pass has observed a tip and, from its load on, knows the repository's checkpoint:
\* what it adds connects to it.
PassCurrent(t) ==
    /\ pass[t].at # "idle" => pass[t].tip # None
    /\ pass[t].at \notin {"idle", "load", "added"} => pass[t].checkpoint = checkpoint
    /\ pass[t].at = "added" => checkpoint = Applying(t)
    /\ pass[t].at = "adding" => Connects(Applying(t), pass[t].checkpoint)
    /\ pass[t].at \in {"walk", "forward"} => pass[t].checkpoint # None

\* A pass never queues and applies more than a batch.
BatchKept(t) ==
    /\ pass[t].applied + Len(pass[t].queue) <= BatchSize
    /\ pass[t].at \in {"anchor", "apply", "adding", "added"} <=> pass[t].queue # <<>>
    /\ pass[t].at \notin {"forward", "apply", "adding", "added", "finish"} => pass[t].applied = 0
    /\ pass[t].at = "anchor" => Len(pass[t].queue) = 1

\* The search for the ancestor does not go below the oldest retained height, and the
\* ancestor's journal row outlives the removals above it.
AncestorKept(t) ==
    /\ pass[t].at = "walk" => Oldest(t) <= pass[t].height
    /\ pass[t].at \in {"rollback", "removed"} => JournalAt(pass[t].height) # {}

\* An anchor is the first block a pass applies, and is below every birthday.
AnchorBelow(t) ==
    /\ \A i \in DOMAIN pass[t].queue : pass[t].queue[i].anchor =>
          i = 1 /\ \A f \in plan[t].filters : Pos[pass[t].queue[i].block] < f.start
    /\ pass[t].at = "anchor" =>
          /\ Parent[Applying(t)] # None
          /\ ~Head(pass[t].queue).anchor
          /\ \A f \in plan[t].filters : Pos[Parent[Applying(t)]] < f.start

PassSound(t) ==
    PassHolds(t) /\ PassCurrent(t) /\ BatchKept(t) /\ AncestorKept(t) /\ AnchorBelow(t)

\* Between passes and publications the checkpoint always has its journal row,
\* so the newest block can be reverted whatever crashed in between.
CheckpointJournaled ==
    checkpoint # None => \E j \in journal : j.block = checkpoint

\* One scope is sound end to end, and inductively so: the admission lock and the
\* repository keep their invariants, there is one pass at a time, and what it knows
\* and holds fits both.
IndexingInv ==
    /\ AdmissionInv
    /\ RepositoryInv
    /\ IndexingTypeOK
    /\ OnePass
    /\ \A t \in Task : PassSound(t)
    /\ CheckpointJournaled

\* The repository never has to refuse the transition of a permit holder: the
\* checkpoint the pass works from is still the repository's when it commits,
\* and the journal row it is about to revert is there.
StoreAgrees ==
    \A t \in Task :
        /\ At(t, "adding") =>
              \/ CanAdd(Applying(t), pass[t].checkpoint, Inspected(t))
              \/ SpendsUnknown(Applying(t), Inspected(t))
        /\ At(t, "rollback") /\ AboveAncestor(t) => CanRemove(pass[t].checkpoint)

\* Every block is inspected for all addresses that were published before its
\* commit and whose birthday it has reached.  The anchor is no exception: it is
\* always below every birthday.
InspectsPublished ==
    [][\A e \in history' \ history : \A w \in published :
          w.start <= Pos[e.block] => AddressOf[w.id] \in e.addresses]_indexVars

\* A step in which the source keeps its tip, no call fails or is dropped, and
\* nobody asks for another publication.
Calm ==
    \/ \E t \in Task : SyncStep(t)
    \/ \E p \in Publisher : IndexedPublisherStep(p)

\* Whatever was interrupted, half done or reorganized before: once the source
\* keeps its tip and no call fails any more, the index reaches that tip for good,
\* or the run loop has stopped on an error that no retry repairs.
CatchesUp ==
    <>[][Calm]_indexVars => <>[](checkpoint = tip \/ stopped)

\* A publication comes to an end, with an entry or an error: no order of permits,
\* drops and wake-ups leaves its caller asleep once the passes are left alone.
PublicationSettles ==
    <>[][Calm]_indexVars => <>[](\A p \in Publisher : phase[p] = "idle")

\* The index has no hole: an applied block at or above the birthday of a
\* published address was inspected for that address.
NoGap ==
    \A w \in published : \A e \in history :
        w.start <= Pos[e.block] => AddressOf[w.id] \in e.addresses
=============================================================================
