--------------------------- MODULE IndexingProofs ---------------------------
(***************************************************************************)
(* Proofs about Indexing, for every block tree, every number of passes and *)
(* publishers, every batch size and both backends: the synchronizer only   *)
(* does to the admission lock what Wallets allows any pass, and to the     *)
(* repository what Repository allows any caller; it never applies a block  *)
(* for fewer addresses than are published; the repository never has to     *)
(* refuse it.                                                              *)
(***************************************************************************)
EXTENDS Indexing, WalletsProofs, RepositoryProofs, SequenceTheorems

-----------------------------------------------------------------------------
(* Queues.                                                                 *)

QueuedBlock == [block : Block, anchor : BOOLEAN]
Queue == Seq(QueuedBlock)

\* What Head and Tail make of a queue.
LEMMA HeadTail ==
    ASSUME NEW q \in Queue, q # <<>>
    PROVE  /\ Head(q) = q[1]
           /\ 1 \in DOMAIN q
           /\ Head(q).block \in Block
           /\ Head(q).anchor \in BOOLEAN
           /\ Tail(q) \in Queue
           /\ Len(q) \in Nat \ {0}
           /\ Len(Tail(q)) = Len(q) - 1
           /\ Tail(q) = <<>> <=> Len(q) = 1
           /\ \A i \in DOMAIN Tail(q) : i + 1 \in DOMAIN q /\ i + 1 # 1 /\ Tail(q)[i] = q[i + 1]
<1>1. Len(q) \in Nat \ {0} /\ DOMAIN q = 1 .. Len(q)
  BY EmptySeq, LenProperties, Zenon DEF Queue
<1>2. Head(q) = q[1] /\ q[1] \in QueuedBlock
  BY <1>1, ElementOfSeq DEF Queue
<1>3. /\ Tail(q) \in Queue
      /\ Len(Tail(q)) = Len(q) - 1
      /\ \A i \in 1 .. Len(Tail(q)) : Tail(q)[i] = q[i + 1]
  BY HeadTailProperties, Zenon DEF Queue
<1>4. DOMAIN Tail(q) = 1 .. Len(Tail(q))
  BY <1>3, LenProperties, Zenon DEF Queue
<1>5. Tail(q) = <<>> <=> Len(q) = 1
  BY <1>1, <1>3, EmptySeq DEF Queue
<1> QED
  BY <1>1, <1>2, <1>3, <1>4, <1>5 DEF QueuedBlock

\* A queue of one block, the anchor or another.
LEMMA OneAnchor ==
    ASSUME NEW b \in Block
    PROVE  /\ Only(b, TRUE) \in Queue
           /\ Only(b, TRUE) # <<>>
           /\ Len(Only(b, TRUE)) = 1
           /\ DOMAIN Only(b, TRUE) = {1}
           /\ Only(b, TRUE)[1].block = b
           /\ Head(Only(b, TRUE)) = Only(b, TRUE)[1]
BY DEF Only, Queue, QueuedBlock, Queued

LEMMA OneOther ==
    ASSUME NEW b \in Block
    PROVE  /\ Only(b, FALSE) \in Queue
           /\ Only(b, FALSE) # <<>>
           /\ Len(Only(b, FALSE)) = 1
           /\ DOMAIN Only(b, FALSE) = {1}
           /\ Only(b, FALSE)[1].block = b
           /\ ~Only(b, FALSE)[1].anchor
           /\ Head(Only(b, FALSE)) = Only(b, FALSE)[1]
BY DEF Only, Queue, QueuedBlock, Queued

\* What the source answers are produced blocks of the range, no more than asked for,
\* and a single one is the lowest.
LEMMA Answers ==
    ASSUME NEW first, NEW last, NEW limit \in Nat, NEW found \in Blocks(first, last, limit),
           found # <<>>, tip \in Block
    PROVE  /\ found[1] \in Produced(first, last)
           /\ found[1] \in Block
           /\ Fetched(found) \in Queue
           /\ Fetched(found) # <<>>
           /\ Len(Fetched(found)) <= limit
           /\ \A i \in DOMAIN Fetched(found) : ~Fetched(found)[i].anchor
           /\ limit = 1 => \A b \in Produced(first, last) : b = found[1] \/ Pos[found[1]] < Pos[b]
<1>1. PICK n \in 0 .. limit : found \in [1 .. n -> Produced(first, last)]
  BY Zenon DEF Blocks
<1>2. n # 0
  BY <1>1
<1>3. Produced(first, last) \subseteq Block
  BY ChainSelf, Zenon DEF Produced
<1>4. Fetched(found) \in [1 .. n -> QueuedBlock] /\ \A i \in 1 .. n : ~Fetched(found)[i].anchor
  BY <1>1, <1>3, Zenon DEF Fetched, Queued, QueuedBlock
<1>5. Fetched(found) \in Queue /\ Len(Fetched(found)) = n /\ Fetched(found) # <<>>
  BY <1>2, <1>4 DEF Queue
<1>6. ASSUME limit = 1, NEW b \in Produced(first, last)
      PROVE  b = found[1] \/ Pos[found[1]] < Pos[b]
  <2>1. n = 1 /\ DOMAIN found = {1}
    BY <1>1, <1>2, <1>6
  <2> QED
    BY <2>1, Zenon DEF Blocks
<1>7. found[1] \in Produced(first, last)
  BY <1>1, <1>2
<1> QED
  BY <1>3, <1>4, <1>5, <1>6, <1>7

\* A pass that applies has a block to apply.
LEMMA ApplyingType ==
    ASSUME IndexingInv, NEW t \in Task, pass[t].at \in {"anchor", "apply", "adding", "added"}
    PROVE  Applying(t) \in Block
<1>1. pass[t].queue \in Queue /\ pass[t].queue # <<>>
  BY Zenon DEF IndexingInv, IndexingTypeOK, Pass, Queue, QueuedBlock, PassSound, BatchKept
<1> QED
  BY <1>1, HeadTail, Zenon DEF Applying

\* What a block is inspected for are addresses.
LEMMA InspectedType ==
    ASSUME IndexingInv, NEW t \in Task
    PROVE  Inspected(t) \in SUBSET Address
BY DEF IndexingInv, AdmissionInv, TypeOK, Plan, Filter, Inspected, ActiveAddresses

\* A chain has the parents of its blocks.
LEMMA ChainClosed ==
    ASSUME NEW b \in Block, NEW a \in ChainOf[b], Parent[a] # None
    PROVE  Parent[a] \in ChainOf[b]
<1>1. a \in Block /\ Parent[a] \in Block
  BY ChainSelf, ParentType, Zenon DEF Checkpoint
<1> QED
  BY <1>1, Zenon DEF ChainOf

-----------------------------------------------------------------------------
(* What the synchronizer does to the admission lock and to the repository. *)

\* The end of a pass is a dropped plan, a dropped permit or nothing to the lock.
LEMMA UnwindDrops ==
    ASSUME NEW t \in Task, Unwind(t)
    PROVE  (TaskStep(t) \/ UNCHANGED vars) /\ UNCHANGED repositoryVars
<1>1. CASE stage[t] = "committing" /\ CommitDrop(t)
  BY <1>1, Zenon DEF Unwind, TaskStep
<1>2. CASE stage[t] \in {"capturing", "captured", "planned"} /\ PlanDrop(t)
  BY <1>2, Zenon DEF Unwind, TaskStep
<1>3. CASE stage[t] = "idle" /\ UNCHANGED admissionVars
  BY <1>3, Zenon DEF Unwind, vars
<1> QED
  BY <1>1, <1>2, <1>3, Zenon DEF Unwind

\* A step of sync is a step any FilterSource client may take, or none.
LEMMA SyncStepWallets ==
    ASSUME IndexingInv, NEW t \in Task, SyncStep(t) \/ Fail(t)
    PROVE  TaskStep(t) \/ UNCHANGED vars
<1>0. pass[t].checkpoint \in Checkpoint /\ checkpoint \in Checkpoint
  BY Zenon DEF IndexingInv, IndexingTypeOK, Pass, RepositoryInv, RepositoryTypeOK
<1>1. CASE MakePlan(t)
  BY <1>0, <1>1, Zenon DEF MakePlan, TaskStep
<1>2. CASE WalkFound(t) \/ ApplyBegin(t)
  BY <1>2, Zenon DEF WalkFound, ApplyBegin, TaskStep
<1>3. CASE PersistRemoved(t)
  BY <1>0, <1>3, Zenon DEF PersistRemoved, TaskStep
<1>4. CASE RollbackComplete(t)
  BY <1>0, <1>4, Zenon DEF RollbackComplete, TaskStep
<1>5. CASE AddComplete(t)
  <2>1. Applying(t) \in Checkpoint
    BY <1>5, ApplyingType, Zenon DEF AddComplete, At, Checkpoint
  <2> QED
    BY <1>5, <2>1, Zenon DEF AddComplete, TaskStep
<1>6. CASE SyncStart(t) \/ LoadCheckpoint(t) \/ Verify(t) \/ WalkDown(t)
           \/ RemoveTip(t) \/ AddBlock(t)
  BY <1>6, Zenon DEF SyncStart, LoadCheckpoint, Verify, WalkDown, RemoveTip, AddBlock
<1>7. CASE PlanRefused(t) \/ WalkRefused(t) \/ WalkExhausted(t) \/ Finish(t)
           \/ ApplyRefused(t) \/ AddRefused(t) \/ Fail(t)
  BY <1>7, UnwindDrops, Zenon DEF PlanRefused, WalkRefused, WalkExhausted, Finish, ApplyRefused,
     AddRefused, Fail, Retry, Stop
<1>8. CASE AnchorAtTip(t) \/ FirstBlock(t) \/ BirthdayAnchor(t) \/ FetchBlocks(t)
  BY <1>8, UnwindDrops, Zenon DEF AnchorAtTip, FirstBlock, BirthdayAnchor, FetchBlocks, Retry
<1> QED
  BY <1>1, <1>2, <1>3, <1>4, <1>5, <1>6, <1>7, <1>8, Zenon DEF SyncStep

\* Every step of the scope is a step of the wallet collection, or none.
LEMMA IndexingStepsWallets ==
    ASSUME IndexingInv, [IndexingNext]_indexVars
    PROVE  [WalletsNext]_vars
<1>1. ASSUME NEW t \in Task, SyncStep(t) \/ Fail(t)
      PROVE  [WalletsNext]_vars
  BY <1>1, SyncStepWallets, Zenon DEF WalletsNext
<1>2. ASSUME NEW p \in Publisher,
             PublisherCall(p) \/ IndexedPublisherStep(p) \/ PublisherCancelled(p)
      PROVE  [WalletsNext]_vars
  BY <1>2, Zenon DEF PublisherCall, IndexedPublisherStep, PublisherCancelled, WalletsNext,
     IndexingInv, RepositoryInv, RepositoryTypeOK
<1>3. CASE SourceMoves \/ ProcessRestart \/ UNCHANGED indexVars
  BY <1>3, Zenon DEF SourceMoves, ProcessRestart, indexVars, WalletsNext
<1> QED
  BY <1>1, <1>2, <1>3, Zenon DEF IndexingNext

\* A step of sync that is no commit leaves the repository alone, and a commit is an
\* addition that connects or a removal of the checkpoint.
LEMMA SyncStepRepository ==
    ASSUME IndexingInv, NEW t \in Task, SyncStep(t) \/ Fail(t)
    PROVE  [RepositoryNext]_repositoryVars
<1>1. CASE RemoveTip(t)
  <2>1. pass[t].checkpoint = checkpoint /\ checkpoint # None
    BY <1>1, Zenon DEF RemoveTip, At, AboveAncestor, IndexingInv, PassSound, PassCurrent
  <2> QED
    BY <1>1, <2>1, Zenon DEF RemoveTip, RepositoryNext
<1>2. CASE AddBlock(t)
  <2>1. pass[t].checkpoint = checkpoint /\ Connects(Applying(t), checkpoint)
    BY <1>2, Zenon DEF AddBlock, At, IndexingInv, PassSound, PassCurrent
  <2>2. Applying(t) \in Block /\ Inspected(t) \in SUBSET Address
    BY <1>2, ApplyingType, InspectedType, Zenon DEF AddBlock, At
  <2> QED
    BY <1>2, <2>1, <2>2, Zenon DEF AddBlock, RepositoryNext
<1>3. CASE MakePlan(t) \/ WalkFound(t) \/ ApplyBegin(t) \/ PersistRemoved(t)
           \/ RollbackComplete(t) \/ AddComplete(t) \/ SyncStart(t) \/ LoadCheckpoint(t)
           \/ Verify(t) \/ WalkDown(t)
  BY <1>3, Zenon DEF MakePlan, WalkFound, ApplyBegin, PersistRemoved, RollbackComplete,
     AddComplete, SyncStart, LoadCheckpoint, Verify, WalkDown
<1>4. CASE PlanRefused(t) \/ WalkRefused(t) \/ WalkExhausted(t) \/ Finish(t)
           \/ ApplyRefused(t) \/ AddRefused(t) \/ Fail(t)
  BY <1>4, UnwindDrops, Zenon DEF PlanRefused, WalkRefused, WalkExhausted, Finish, ApplyRefused,
     AddRefused, Fail, Retry, Stop
<1>5. CASE AnchorAtTip(t) \/ FirstBlock(t) \/ BirthdayAnchor(t) \/ FetchBlocks(t)
  BY <1>5, UnwindDrops, Zenon DEF AnchorAtTip, FirstBlock, BirthdayAnchor, FetchBlocks, Retry
<1> QED
  BY <1>1, <1>2, <1>3, <1>4, <1>5, Zenon DEF SyncStep

\* Every step of the scope is a step of the repository, or none.
LEMMA IndexingStepsRepository ==
    ASSUME IndexingInv, [IndexingNext]_indexVars
    PROVE  [RepositoryNext]_repositoryVars
<1>1. ASSUME NEW p \in Publisher,
             PublisherCall(p) \/ IndexedPublisherStep(p) \/ PublisherCancelled(p)
      PROVE  UNCHANGED repositoryVars
  BY <1>1, Zenon DEF PublisherCall, IndexedPublisherStep, PublisherCancelled
<1>2. CASE SourceMoves \/ ProcessRestart \/ UNCHANGED indexVars
  BY <1>2, Zenon DEF SourceMoves, ProcessRestart, indexVars
<1> QED
  BY <1>1, <1>2, SyncStepRepository, Zenon DEF IndexingNext

-----------------------------------------------------------------------------
(* The invariant.  A step of one pass finds all other passes idle.         *)

\* The pass that runs is the only one: the others hold and queue nothing.
LEMMA OthersIdle ==
    ASSUME IndexingInv, NEW t \in Task, pass[t].at # "idle", NEW u \in Task, u # t
    PROVE  pass[u].at = "idle" /\ stage[u] = "idle" /\ pass[u].queue = <<>> /\ pass[u].applied = 0
<1>1. pass[u].at = "idle"
  BY Zenon DEF IndexingInv, OnePass
<1> QED
  BY <1>1, Zenon DEF IndexingInv, PassSound, PassHolds, BatchKept

\* The locals of no pass are locals.
LEMMA NoPassType == NoPass \in Pass
BY DEF NoPass, Pass, Checkpoint

\* A pass that comes to hold and queue nothing is sound.
LEMMA IdleSound ==
    ASSUME NEW t \in Task, pass'[t].at = "idle", stage'[t] = "idle", pass'[t].queue = <<>>,
           pass'[t].applied = 0
    PROVE  PassSound(t)'
<1>1. Len(<<>>) = 0 /\ DOMAIN <<>> = {}
  OBVIOUS
<1> QED
  BY <1>1, BatchPositive DEF PassSound, PassHolds, PassCurrent, BatchKept, AncestorKept, AnchorBelow

\* A pass goes on: it is enough to look at that pass.
LEMMA ContinueInv ==
    ASSUME IndexingInv, NEW t \in Task, pass[t].at # "idle",
           NEW locals \in Pass, locals.at # "idle", Continue(t, locals),
           \A u \in Task : u # t => stage'[u] = stage[u],
           AdmissionInv', RepositoryInv', CheckpointJournaled', PassSound(t)'
    PROVE  IndexingInv'
<1>1. /\ pass' = [pass EXCEPT ![t] = locals]
      /\ pass \in [Task -> Pass]
      /\ UNCHANGED <<running, stopped, tip>>
  BY Zenon DEF Continue, IndexingInv, IndexingTypeOK
<1>2. IndexingTypeOK'
  BY <1>1, Zenon DEF IndexingInv, IndexingTypeOK
<1>3. OnePass'
  BY <1>1, OthersIdle, Zenon DEF IndexingInv, OnePass
<1>4. ASSUME NEW u \in Task, u # t
      PROVE  PassSound(u)'
  <2>1. pass'[u] = pass[u] /\ stage'[u] = "idle" /\ pass[u].at = "idle"
        /\ pass[u].queue = <<>> /\ pass[u].applied = 0
    BY <1>1, <1>4, OthersIdle, Zenon
  <2> QED
    BY <2>1, IdleSound, Zenon
<1> QED
  BY <1>2, <1>3, <1>4, Zenon DEF IndexingInv

\* A pass ends: all of them are idle.
LEMMA UnwindInv ==
    ASSUME IndexingInv, NEW t \in Task, pass[t].at # "idle", Unwind(t), stopped' \in BOOLEAN,
           AdmissionInv', RepositoryInv'
    PROVE  IndexingInv'
<1>1. /\ pass' = [pass EXCEPT ![t] = NoPass]
      /\ pass \in [Task -> Pass]
      /\ running' = FALSE
      /\ UNCHANGED <<repositoryVars, tip>>
  BY Zenon DEF Unwind, IndexingInv, IndexingTypeOK
<1>3. IndexingTypeOK'
  BY <1>1, NoPassType, Zenon DEF IndexingInv, IndexingTypeOK
<1>4. \A u \in Task : pass'[u].at = "idle" /\ pass'[u].queue = <<>> /\ pass'[u].applied = 0
  BY <1>1, OthersIdle, Zenon DEF NoPass
<1>5. \A u \in Task : stage'[u] = "idle"
  <2>1. stage \in [Task -> {"idle", "capturing", "captured", "planned", "committing"}]
    BY Zenon DEF IndexingInv, AdmissionInv, TypeOK
  <2>2. \A u \in Task : u # t => stage[u] = "idle"
    BY OthersIdle, Zenon
  <2> QED
    BY <2>1, <2>2, Zenon DEF Unwind, CommitDrop, PlanDrop, admissionVars, taskVars
<1>6. OnePass'
  BY <1>4, Zenon DEF OnePass
<1>7. ASSUME NEW u \in Task
      PROVE  PassSound(u)'
  BY <1>4, <1>5, IdleSound, Zenon
<1>8. CheckpointJournaled'
  BY <1>1, Zenon DEF IndexingInv, CheckpointJournaled, repositoryVars
<1> QED
  BY <1>3, <1>6, <1>7, <1>8, Zenon DEF IndexingInv

\* What a running pass is known to have.
LEMMA Locals ==
    ASSUME IndexingInv, NEW t \in Task
    PROVE  /\ pass \in [Task -> Pass]
           /\ pass[t] \in Pass
           /\ pass[t].queue \in Queue
           /\ pass[t].queue # <<>> =>
                 Head(pass[t].queue) = pass[t].queue[1] /\ 1 \in DOMAIN pass[t].queue
           /\ Len(pass[t].queue) \in Nat
           /\ PassHolds(t) /\ PassCurrent(t) /\ BatchKept(t) /\ AncestorKept(t) /\ AnchorBelow(t)
<1>1. pass \in [Task -> Pass] /\ pass[t] \in Pass
  BY Zenon DEF IndexingInv, IndexingTypeOK
<1>2. pass[t].queue \in Queue
  BY <1>1, Zenon DEF Pass, Queue, QueuedBlock
<1> QED
  BY <1>1, <1>2, HeadTail, LenProperties, Zenon DEF IndexingInv, PassSound, Queue

LEMMA NoIndices == DOMAIN << >> = {}
OBVIOUS

\* Without a batch there is no anchor to place.
LEMMA NothingQueued ==
    ASSUME NEW t \in Task, pass'[t].queue = << >>, pass'[t].at # "anchor"
    PROVE  AnchorBelow(t)'
BY NoIndices, Zenon DEF AnchorBelow

\* A step in which only the locals of a pass change.
LEMMA LocalInv ==
    ASSUME IndexingInv, NEW t \in Task, pass[t].at # "idle",
           NEW locals \in Pass, locals.at # "idle", Continue(t, locals),
           UNCHANGED <<vars, repositoryVars>>, AdmissionInv', RepositoryInv',
           pass'[t] = locals /\ UNCHANGED <<stage, plan, checkpoint, journal>> => PassSound(t)'
    PROVE  IndexingInv'
<1>1. UNCHANGED <<stage, plan, checkpoint, journal>>
  BY Zenon DEF vars, admissionVars, taskVars, repositoryVars
<1>2. pass'[t] = locals
  BY Locals, Zenon DEF Continue
<1>3. CheckpointJournaled'
  BY <1>1, Zenon DEF IndexingInv, CheckpointJournaled
<1> QED
  BY <1>1, <1>2, <1>3, ContinueInv, Zenon

\* enter takes the running guard, which no other pass has.
LEMMA SyncStartInv ==
    ASSUME IndexingInv, NEW t \in Task, SyncStart(t), AdmissionInv', RepositoryInv'
    PROVE  IndexingInv'
<1> DEFINE locals == [NoPass EXCEPT !.at = "load", !.tip = tip]
<1>1. /\ locals \in Pass
      /\ locals.at = "load" /\ locals.tip = tip /\ locals.queue = <<>> /\ locals.applied = 0
  <2>1. tip \in Checkpoint
    BY Zenon DEF Checkpoint, IndexingInv, IndexingTypeOK
  <2>2. NoPass.queue = <<>> /\ NoPass.applied = 0
    BY Zenon DEF NoPass
  <2> QED
    BY <2>1, <2>2, NoPassType, Zenon DEF Pass
<1>2. /\ pass' = [pass EXCEPT ![t] = locals]
      /\ running' = TRUE
      /\ UNCHANGED <<stage, plan, checkpoint, journal, tip, stopped>>
  BY Zenon DEF SyncStart, vars, admissionVars, taskVars, repositoryVars
<1>3. \A u \in Task : pass[u].at = "idle"
  BY Zenon DEF SyncStart, IndexingInv, OnePass
<1> HIDE DEF locals
<1>4. IndexingTypeOK'
  BY <1>1, <1>2, Zenon DEF IndexingInv, IndexingTypeOK
<1>5. OnePass'
  BY <1>1, <1>2, <1>3, Locals, Zenon DEF OnePass
<1>6. ASSUME NEW u \in Task, u # t
      PROVE  PassSound(u)'
  <2>1. pass'[u] = pass[u] /\ pass[u].at = "idle"
    BY <1>2, <1>3, <1>6, Locals, Zenon
  <2>2. stage'[u] = "idle" /\ pass[u].queue = <<>> /\ pass[u].applied = 0
    BY <1>2, <2>1, Locals, Zenon DEF PassHolds, BatchKept
  <2> QED
    BY <2>1, <2>2, IdleSound, Zenon
<1>7. PassSound(t)'
  <2>1. pass'[t] = locals /\ stage'[t] = "idle" /\ tip # None
    BY <1>2, Locals, NoneIsNoBlock, Zenon
       DEF SyncStart, At, PassHolds, IndexingInv, IndexingTypeOK
  <2>2. Len(<<>>) = 0 /\ DOMAIN <<>> = {}
    OBVIOUS
  <2> QED
    BY <1>1, <2>1, <2>2, BatchPositive
       DEF PassSound, PassHolds, PassCurrent, BatchKept, AncestorKept, AnchorBelow
<1>8. CheckpointJournaled'
  BY <1>2, Zenon DEF IndexingInv, CheckpointJournaled
<1> QED
  BY <1>4, <1>5, <1>6, <1>7, <1>8, Zenon DEF IndexingInv

\* load reads the repository's checkpoint.
LEMMA LoadInv ==
    ASSUME IndexingInv, NEW t \in Task, LoadCheckpoint(t), AdmissionInv', RepositoryInv'
    PROVE  IndexingInv'
<1> DEFINE locals == [pass[t] EXCEPT !.at = "plan", !.checkpoint = checkpoint]
<1>1. /\ locals \in Pass
      /\ locals.at = "plan" /\ locals.checkpoint = checkpoint
      /\ locals.tip = pass[t].tip /\ locals.queue = pass[t].queue
      /\ locals.applied = pass[t].applied
  BY Locals, ZenonT(30) DEF Pass, IndexingInv, RepositoryInv, RepositoryTypeOK
<1>2. pass[t].at = "load" /\ Continue(t, locals) /\ UNCHANGED <<vars, repositoryVars>>
  BY Zenon DEF LoadCheckpoint, At
<1> HIDE DEF locals
<1>3. ASSUME pass'[t] = locals, UNCHANGED <<stage, plan, checkpoint, journal>>
      PROVE  PassSound(t)'
  BY <1>1, <1>2, <1>3, Locals
     DEF PassSound, PassHolds, PassCurrent, BatchKept, AncestorKept, AnchorBelow
<1> QED
  BY <1>1, <1>2, <1>3, LocalInv, Zenon

\* plan runs its two critical sections and the capture between them.
LEMMA MakePlanInv ==
    ASSUME IndexingInv, NEW t \in Task, MakePlan(t), AdmissionInv', RepositoryInv'
    PROVE  IndexingInv'
<1>0. /\ pass[t].at = "plan"
      /\ UNCHANGED <<checkpoint, journal>>
      /\ pass[t].queue = <<>>
      /\ stage \in [Task -> {"idle", "capturing", "captured", "planned", "committing"}]
  BY Locals, Zenon DEF MakePlan, At, repositoryVars, BatchKept, IndexingInv, AdmissionInv, TypeOK
<1>1. CheckpointJournaled'
  BY <1>0, Zenon DEF IndexingInv, CheckpointJournaled
<1>2. CASE (PlanLock(t, pass[t].checkpoint) \/ PlanCapture(t, Filters(values)))
           /\ Continue(t, pass[t])
  <2>1. /\ pass'[t] = pass[t]
        /\ stage'[t] \in {"capturing", "captured"}
        /\ \A u \in Task : u # t => stage'[u] = stage[u]
    BY <1>0, <1>2, Locals, ZenonT(30) DEF PlanLock, PlanCapture, Continue
  <2>2. PassSound(t)'
    BY <1>0, <2>1, Locals
       DEF PassSound, PassHolds, PassCurrent, BatchKept, AncestorKept, AnchorBelow
  <2> QED
    BY <1>0, <1>1, <1>2, <2>1, <2>2, Locals, ContinueInv, Zenon
<1>3. CASE PlanCheck(t) /\ Continue(t, [pass[t] EXCEPT !.at = "verify"])
  <2> DEFINE locals == [pass[t] EXCEPT !.at = "verify"]
  <2>1. /\ locals \in Pass
        /\ locals.at = "verify" /\ locals.checkpoint = pass[t].checkpoint
        /\ locals.tip = pass[t].tip /\ locals.queue = pass[t].queue
        /\ locals.applied = pass[t].applied
    BY Locals, Zenon DEF Pass
  <2>2. Continue(t, locals)
    BY <1>3, Zenon
  <2> HIDE DEF locals
  <2>3. /\ pass'[t] = locals
        /\ stage'[t] = "planned"
        /\ \A u \in Task : u # t => stage'[u] = stage[u]
    BY <1>0, <1>3, <2>2, Locals, ZenonT(30) DEF PlanCheck, Continue
  <2>4. PassSound(t)'
    BY <1>0, <2>1, <2>3, Locals
       DEF PassSound, PassHolds, PassCurrent, BatchKept, AncestorKept, AnchorBelow
  <2> QED
    BY <1>0, <1>1, <2>1, <2>2, <2>3, <2>4, ContinueInv, Zenon
<1> QED
  BY <1>2, <1>3, Zenon DEF MakePlan

\* Whatever canonical_at answers, the pass goes on with the checkpoint it knows.
LEMMA VerifyInv ==
    ASSUME IndexingInv, NEW t \in Task, Verify(t), AdmissionInv', RepositoryInv'
    PROVE  IndexingInv'
<1>0. pass[t].at = "verify" /\ UNCHANGED <<vars, repositoryVars>>
  BY Zenon DEF Verify, At
<1>1. ASSUME NEW locals \in Pass, Continue(t, locals),
             locals.at \in {"init", "forward", "walk"},
             locals.at # "init" => pass[t].checkpoint # None,
             locals.at = "walk" => locals.height = Height[pass[t].checkpoint],
             locals.checkpoint = pass[t].checkpoint, locals.tip = pass[t].tip,
             locals.queue = pass[t].queue, locals.applied = pass[t].applied
      PROVE  IndexingInv'
  <2>1. ASSUME pass'[t] = locals, UNCHANGED <<stage, plan, checkpoint, journal>>
        PROVE  PassSound(t)'
    <3>1. PassHolds(t)' /\ PassCurrent(t)' /\ BatchKept(t)' /\ AnchorBelow(t)'
      BY <1>0, <1>1, <2>1, Locals DEF PassHolds, PassCurrent, BatchKept, AnchorBelow
    <3>2. AncestorKept(t)'
      <4>1. CASE locals.at = "walk"
        <5>1. pass[t].checkpoint \in Block
          BY <1>1, <4>1, Locals, Zenon DEF Pass, Checkpoint
        <5> QED
          BY <1>1, <2>1, <4>1, <5>1, HeightType, RetentionPositive DEF AncestorKept, Oldest
      <4>2. CASE locals.at # "walk"
        BY <1>1, <2>1, <4>2, Zenon DEF AncestorKept
      <4> QED
        BY <4>1, <4>2, Zenon
    <3> QED
      BY <3>1, <3>2, ZenonT(30) DEF PassSound
  <2> QED
    BY <1>0, <1>1, <2>1, LocalInv, Zenon
<1>2. CASE pass[t].checkpoint = None
  <2> DEFINE locals == [pass[t] EXCEPT !.at = "init"]
  <2>1. locals \in Pass /\ locals.at = "init" /\ locals.checkpoint = pass[t].checkpoint
        /\ locals.tip = pass[t].tip /\ locals.queue = pass[t].queue
        /\ locals.applied = pass[t].applied
    BY Locals, Zenon DEF Pass
  <2>2. Continue(t, locals)
    BY <1>2, Zenon DEF Verify
  <2> HIDE DEF locals
  <2> QED
    BY <1>1, <2>1, <2>2, Zenon
<1>3. CASE pass[t].checkpoint # None /\ CanonicalAt(pass[t].checkpoint)
  <2> DEFINE locals == [pass[t] EXCEPT !.at = "forward"]
  <2>1. locals \in Pass /\ locals.at = "forward" /\ locals.checkpoint = pass[t].checkpoint
        /\ locals.tip = pass[t].tip /\ locals.queue = pass[t].queue
        /\ locals.applied = pass[t].applied
    BY Locals, Zenon DEF Pass
  <2>2. Continue(t, locals)
    BY <1>3, Zenon DEF Verify
  <2> HIDE DEF locals
  <2> QED
    BY <1>1, <1>3, <2>1, <2>2, Zenon
<1>4. CASE pass[t].checkpoint # None /\ ~CanonicalAt(pass[t].checkpoint)
  <2> DEFINE locals == [pass[t] EXCEPT !.at = "walk", !.height = Height[pass[t].checkpoint]]
  <2>1. locals \in Pass /\ locals.at = "walk" /\ locals.checkpoint = pass[t].checkpoint
        /\ locals.tip = pass[t].tip /\ locals.queue = pass[t].queue
        /\ locals.applied = pass[t].applied /\ locals.height = Height[pass[t].checkpoint]
    BY <1>4, Locals, HeightType, ZenonT(30) DEF Pass, Checkpoint
  <2>2. Continue(t, locals)
    BY <1>4, Zenon DEF Verify
  <2> HIDE DEF locals
  <2> QED
    BY <1>1, <1>4, <2>1, <2>2, Zenon
<1> QED
  BY <1>2, <1>3, <1>4, Zenon

\* The search for the ancestor goes one height down, never below the oldest.
LEMMA WalkDownInv ==
    ASSUME IndexingInv, NEW t \in Task, WalkDown(t), AdmissionInv', RepositoryInv'
    PROVE  IndexingInv'
<1> DEFINE locals == [pass[t] EXCEPT !.height = @ - 1]
<1>0. pass[t].at = "walk" /\ Continue(t, locals) /\ UNCHANGED <<vars, repositoryVars>>
  BY Zenon DEF WalkDown, At
<1>1. Oldest(t) \in Nat /\ Oldest(t) <= pass[t].height - 1 /\ pass[t].height - 1 \in Nat
  <2>1. pass[t].checkpoint \in Block /\ pass[t].height \in Nat
    BY <1>0, Locals, Zenon DEF Pass, Checkpoint, PassCurrent
  <2>2. Oldest(t) \in Nat
    BY <2>1, HeightType, RetentionPositive DEF Oldest
  <2>3. Oldest(t) <= pass[t].height /\ Oldest(t) # pass[t].height
    BY <1>0, Locals, Zenon DEF WalkDown, AncestorKept
  <2> QED
    BY <2>1, <2>2, <2>3
<1>2. /\ locals \in Pass
      /\ locals.at = "walk" /\ locals.checkpoint = pass[t].checkpoint
      /\ locals.tip = pass[t].tip /\ locals.queue = pass[t].queue
      /\ locals.applied = pass[t].applied /\ locals.height = pass[t].height - 1
  BY <1>0, <1>1, Locals, Zenon DEF Pass
<1> HIDE DEF locals
<1>3. ASSUME pass'[t] = locals, UNCHANGED <<stage, plan, checkpoint, journal>>
      PROVE  PassSound(t)'
  <2>1. PassHolds(t)' /\ PassCurrent(t)' /\ BatchKept(t)' /\ AnchorBelow(t)'
    BY <1>0, <1>2, <1>3, Locals DEF PassHolds, PassCurrent, BatchKept, AnchorBelow
  <2>2. Oldest(t)' = Oldest(t)
    BY <1>2, <1>3, Zenon DEF Oldest
  <2>3. AncestorKept(t)'
    BY <1>1, <1>2, <1>3, <2>2, Zenon DEF AncestorKept
  <2> QED
    BY <2>1, <2>3, ZenonT(30) DEF PassSound
<1> QED
  BY <1>0, <1>2, <1>3, LocalInv, Zenon

\* The ancestor has a journal row when the removals begin.
LEMMA WalkFoundInv ==
    ASSUME IndexingInv, NEW t \in Task, WalkFound(t), AdmissionInv', RepositoryInv'
    PROVE  IndexingInv'
<1> DEFINE locals == [pass[t] EXCEPT !.at = "rollback"]
<1>0. /\ pass[t].at = "walk"
      /\ Continue(t, locals)
      /\ JournalAt(pass[t].height) # {}
      /\ UNCHANGED <<checkpoint, journal>>
  BY Zenon DEF WalkFound, At, AncestorAt, repositoryVars
<1>1. /\ locals \in Pass
      /\ locals.at = "rollback" /\ locals.checkpoint = pass[t].checkpoint
      /\ locals.tip = pass[t].tip /\ locals.queue = pass[t].queue
      /\ locals.applied = pass[t].applied /\ locals.height = pass[t].height
  BY Locals, Zenon DEF Pass
<1> HIDE DEF locals
<1>2. /\ pass'[t] = locals
      /\ stage'[t] = "committing"
      /\ plan' = plan
      /\ \A u \in Task : u # t => stage'[u] = stage[u]
  BY <1>0, Locals, ZenonT(30) DEF WalkFound, Begin, Continue, IndexingInv, AdmissionInv, TypeOK
<1>3. PassHolds(t)' /\ PassCurrent(t)' /\ BatchKept(t)' /\ AnchorBelow(t)'
  <2>1. PassHolds(t)' /\ PassCurrent(t)' /\ BatchKept(t)'
    BY <1>0, <1>1, <1>2, Locals, ZenonT(30) DEF PassHolds, PassCurrent, BatchKept
  <2>2. pass[t].queue = << >>
    BY <1>0, Locals, Zenon DEF BatchKept
  <2> QED
    BY <1>1, <1>2, <2>1, <2>2, NothingQueued, Zenon
<1>4. AncestorKept(t)'
  BY <1>0, <1>1, <1>2, Zenon DEF AncestorKept, JournalAt
<1>5. CheckpointJournaled'
  BY <1>0, Zenon DEF IndexingInv, CheckpointJournaled
<1> QED
  BY <1>0, <1>1, <1>2, <1>3, <1>4, <1>5, ContinueInv, Zenon DEF PassSound

\* A removal above the ancestor leaves the ancestor's row, and so a row of the new
\* checkpoint.
LEMMA RemoveTipInv ==
    ASSUME IndexingInv, NEW t \in Task, RemoveTip(t), AdmissionInv', RepositoryInv'
    PROVE  IndexingInv'
<1> DEFINE locals == [pass[t] EXCEPT !.at = "removed", !.checkpoint = checkpoint']
<1>0. pass[t].at = "rollback" /\ Continue(t, locals) /\ UNCHANGED <<stage, plan>>
  BY Zenon DEF RemoveTip, At, vars, admissionVars, taskVars
<1>1. /\ locals \in Pass
      /\ locals.at = "removed" /\ locals.checkpoint = checkpoint'
      /\ locals.tip = pass[t].tip /\ locals.queue = pass[t].queue
      /\ locals.applied = pass[t].applied /\ locals.height = pass[t].height
  BY Locals, Zenon DEF Pass, RepositoryInv, RepositoryTypeOK
<1> HIDE DEF locals
<1>2. pass'[t] = locals
  BY <1>0, Locals, Zenon DEF Continue
<1>3. JournalAt(pass[t].height)' # {}
  <2>1. PICK j \in journal : Height[j.block] = pass[t].height
    BY <1>0, Locals, Zenon DEF AncestorKept, JournalAt
  <2>2. /\ pass[t].checkpoint \in Block
        /\ Height[pass[t].checkpoint] > pass[t].height
        /\ journal' = journal \ JournalAt(Height[pass[t].checkpoint])
    BY Locals, Zenon DEF RemoveTip, AboveAncestor, Remove, Pass, Checkpoint
  <2>3. j \in journal'
    BY <2>1, <2>2, HeightType DEF JournalAt
  <2>4. (pass[t].height)' = pass[t].height
    BY <1>1, <1>2, ZenonT(30)
  <2> QED
    BY <2>1, <2>3, <2>4, Zenon DEF JournalAt
<1>4. PassHolds(t)' /\ PassCurrent(t)' /\ BatchKept(t)' /\ AnchorBelow(t)'
  <2>1. PassHolds(t)' /\ PassCurrent(t)' /\ BatchKept(t)'
    BY <1>0, <1>1, <1>2, Locals, ZenonT(30) DEF PassHolds, PassCurrent, BatchKept
  <2>2. pass[t].queue = << >>
    BY <1>0, Locals, Zenon DEF BatchKept
  <2> QED
    BY <1>1, <1>2, <2>1, <2>2, NothingQueued, Zenon
<1>5. AncestorKept(t)'
  BY <1>1, <1>2, <1>3, Zenon DEF AncestorKept
<1>6. CheckpointJournaled'
  <2>1. journal' # {}
    BY <1>3, Zenon DEF JournalAt
  <2> QED
    BY <2>1, Zenon DEF RepositoryInv, JournalLinked, CheckpointJournaled
<1> QED
  BY <1>0, <1>1, <1>2, <1>4, <1>5, <1>6, ContinueInv, Zenon DEF PassSound

\* persist tells the lock of the removal.
LEMMA PersistRemovedInv ==
    ASSUME IndexingInv, NEW t \in Task, PersistRemoved(t), AdmissionInv', RepositoryInv'
    PROVE  IndexingInv'
<1> DEFINE locals == [pass[t] EXCEPT !.at = "rollback"]
<1>0. /\ pass[t].at = "removed"
      /\ Continue(t, locals)
      /\ UNCHANGED <<stage, plan, checkpoint, journal>>
  BY Zenon DEF PersistRemoved, CommitPersist, At, taskVars, repositoryVars
<1>1. /\ locals \in Pass
      /\ locals.at = "rollback" /\ locals.checkpoint = pass[t].checkpoint
      /\ locals.tip = pass[t].tip /\ locals.queue = pass[t].queue
      /\ locals.applied = pass[t].applied /\ locals.height = pass[t].height
  BY Locals, Zenon DEF Pass
<1> HIDE DEF locals
<1>2. pass'[t] = locals
  BY <1>0, Locals, ZenonT(30) DEF Continue
<1>3. PassHolds(t)' /\ PassCurrent(t)' /\ BatchKept(t)' /\ AnchorBelow(t)'
  <2>1. PassHolds(t)' /\ PassCurrent(t)' /\ BatchKept(t)'
    BY <1>0, <1>1, <1>2, Locals, ZenonT(30) DEF PassHolds, PassCurrent, BatchKept
  <2>2. pass[t].queue = << >>
    BY <1>0, Locals, Zenon DEF BatchKept
  <2> QED
    BY <1>1, <1>2, <2>1, <2>2, NothingQueued, Zenon
<1>4. AncestorKept(t)'
  BY <1>0, <1>1, <1>2, Locals, Zenon DEF AncestorKept, JournalAt
<1>5. CheckpointJournaled'
  BY <1>0, Zenon DEF IndexingInv, CheckpointJournaled
<1> QED
  BY <1>0, <1>1, <1>2, <1>3, <1>4, <1>5, ContinueInv, Zenon DEF PassSound

\* complete ends the removals; the pass starts over or goes forward.
LEMMA RollbackCompleteInv ==
    ASSUME IndexingInv, NEW t \in Task, RollbackComplete(t), AdmissionInv', RepositoryInv'
    PROVE  IndexingInv'
<1> DEFINE locals == [pass[t] EXCEPT
                        !.at = IF pass[t].checkpoint = None THEN "init" ELSE "forward"]
<1>0. pass[t].at = "rollback" /\ Continue(t, locals) /\ UNCHANGED <<checkpoint, journal>>
  BY Zenon DEF RollbackComplete, At, repositoryVars
<1>1. /\ locals \in Pass
      /\ locals.at \in {"init", "forward"}
      /\ locals.at = "forward" => pass[t].checkpoint # None
      /\ locals.checkpoint = pass[t].checkpoint
      /\ locals.tip = pass[t].tip /\ locals.queue = pass[t].queue
      /\ locals.applied = pass[t].applied
  BY Locals, Zenon DEF Pass
<1> HIDE DEF locals
<1>2. /\ pass'[t] = locals
      /\ stage'[t] = "planned"
      /\ \A u \in Task : u # t => stage'[u] = stage[u]
  BY <1>0, Locals, ZenonT(30)
     DEF RollbackComplete, CommitComplete, Continue, IndexingInv, AdmissionInv, TypeOK
<1>3. PassHolds(t)' /\ PassCurrent(t)' /\ BatchKept(t)' /\ AncestorKept(t)'
  BY <1>0, <1>1, <1>2, Locals, ZenonT(30) DEF PassHolds, PassCurrent, BatchKept, AncestorKept
<1>4. AnchorBelow(t)'
  <2>1. pass[t].queue = << >>
    BY <1>0, Locals, Zenon DEF BatchKept
  <2> QED
    BY <1>1, <1>2, <2>1, NothingQueued, Zenon
<1>5. CheckpointJournaled'
  BY <1>0, Zenon DEF IndexingInv, CheckpointJournaled
<1> QED
  BY <1>0, <1>1, <1>2, <1>3, <1>4, <1>5, ContinueInv, ZenonT(30) DEF PassSound

-----------------------------------------------------------------------------
(* The anchor and the blocks a pass fetches.                               *)

\* The start of every filter is a position.
LEMMA StartsType ==
    ASSUME IndexingInv, NEW t \in Task, NEW f \in plan[t].filters
    PROVE  f.start \in Nat
BY DEF IndexingInv, AdmissionInv, TypeOK, Plan, Filter

\* A batch has room for a block.
LEMMA OneFits == 0 + 1 <= BatchSize
BY BatchPositive

\* With every birthday above the observed tip, the block there is below them all.
LEMMA AnchorAtTipInv ==
    ASSUME IndexingInv, NEW t \in Task, AnchorAtTip(t), AdmissionInv', RepositoryInv'
    PROVE  IndexingInv'
<1>0. /\ pass[t].at = "init" /\ Starts(t) = {}
      /\ pass[t].tip \in Block /\ tip \in Block
      /\ pass[t].queue = <<>> /\ pass[t].applied = 0 /\ pass[t].checkpoint = checkpoint
      /\ stage[t] = "planned"
  BY Locals, Zenon DEF AnchorAtTip, At, Pass, Checkpoint, PassCurrent, PassHolds, BatchKept,
     IndexingInv, IndexingTypeOK
<1> DEFINE there == Pos[pass[t].tip]
<1>1. PICK found \in Blocks(there, there, 1) :
         IF found = <<>>
         THEN Retry(t)
         ELSE /\ Continue(t, [pass[t] EXCEPT !.at = "apply", !.then = "forward",
                                             !.queue = Only(found[1], TRUE)])
              /\ UNCHANGED <<vars, repositoryVars>>
  BY Zenon DEF AnchorAtTip
<1>2. CASE found = <<>>
  BY <1>0, <1>1, <1>2, UnwindInv, Zenon DEF Retry, IndexingInv, IndexingTypeOK
<1>3. CASE found # <<>>
  <2> DEFINE b == found[1]
             q == Only(b, TRUE)
             locals == [pass[t] EXCEPT !.at = "apply", !.then = "forward", !.queue = q]
  <2>1. b \in Block /\ Pos[b] = there /\ there \in Nat
    <3>1. b \in Produced(there, there) /\ b \in Block
      BY <1>0, <1>3, Answers, Zenon
    <3> QED
      BY <1>0, <3>1, PosType DEF Produced
  <2>2. Continue(t, locals) /\ UNCHANGED <<vars, repositoryVars>>
    BY <1>1, <1>3, Zenon
  <2>5. /\ q \in Queue /\ q # <<>> /\ Len(q) = 1 /\ DOMAIN q = {1}
        /\ q[1].block = b
    BY <2>1, OneAnchor, Zenon
  <2> HIDE DEF b, q
  <2>3. /\ locals \in Pass
        /\ locals.at = "apply" /\ locals.checkpoint = pass[t].checkpoint
        /\ locals.tip = pass[t].tip /\ locals.queue = q
        /\ locals.applied = pass[t].applied
    BY <2>5, Locals, ZenonT(30) DEF Pass, Queue, QueuedBlock
  <2> HIDE DEF locals
  <2>4. ASSUME pass'[t] = locals, UNCHANGED <<stage, plan, checkpoint, journal>>
        PROVE  PassSound(t)'
    <3>1. PassHolds(t)' /\ PassCurrent(t)' /\ AncestorKept(t)'
      BY <1>0, <2>3, <2>4, Locals, Zenon DEF PassHolds, PassCurrent, AncestorKept
    <3>2. BatchKept(t)'
      BY <1>0, <2>3, <2>4, <2>5, OneFits, Zenon DEF BatchKept
    <3>3. ASSUME NEW f \in plan[t].filters
          PROVE  Pos[b] < f.start
      <4>1. ~(f.start <= there)
        BY <1>0, Zenon DEF Starts
      <4> QED
        BY <2>1, <4>1, StartsType
    <3>4. AnchorBelow(t)'
      BY <2>3, <2>4, <2>5, <3>3, Zenon DEF AnchorBelow
    <3> QED
      BY <3>1, <3>2, <3>4, Zenon DEF PassSound
  <2> QED
    BY <1>0, <2>2, <2>3, <2>4, LocalInv, Zenon
<1> QED
  BY <1>2, <1>3, Zenon

\* The parent of the first block at or after the earliest birthday is below them all.
LEMMA FirstBlockInv ==
    ASSUME IndexingInv, NEW t \in Task, FirstBlock(t), AdmissionInv', RepositoryInv'
    PROVE  IndexingInv'
<1>0. /\ pass[t].at = "init"
      /\ pass[t].tip \in Block /\ tip \in Block
      /\ pass[t].queue = <<>> /\ pass[t].applied = 0 /\ pass[t].checkpoint = checkpoint
      /\ stage[t] = "planned"
  BY Locals, Zenon DEF FirstBlock, At, Pass, Checkpoint, PassCurrent, PassHolds, BatchKept,
     IndexingInv, IndexingTypeOK
<1> DEFINE last == Pos[pass[t].tip]
<1>1. PICK start \in Starts(t) : \E found \in Blocks(start, last, 1) :
         /\ \A s \in Starts(t) : start <= s
         /\ IF found = <<>>
            THEN Retry(t)
            ELSE /\ Continue(t, [pass[t] EXCEPT
                                   !.at = IF Parent[found[1]] = None THEN "apply" ELSE "anchor",
                                   !.then = "forward",
                                   !.queue = Only(found[1], FALSE)])
                 /\ UNCHANGED <<vars, repositoryVars>>
  BY Zenon DEF FirstBlock
<1>2. PICK found \in Blocks(start, last, 1) :
         /\ \A s \in Starts(t) : start <= s
         /\ IF found = <<>>
            THEN Retry(t)
            ELSE /\ Continue(t, [pass[t] EXCEPT
                                   !.at = IF Parent[found[1]] = None THEN "apply" ELSE "anchor",
                                   !.then = "forward",
                                   !.queue = Only(found[1], FALSE)])
                 /\ UNCHANGED <<vars, repositoryVars>>
  BY <1>1, Zenon
<1>3. CASE found = <<>>
  BY <1>0, <1>2, <1>3, UnwindInv, Zenon DEF Retry, IndexingInv, IndexingTypeOK
<1>4. CASE found # <<>>
  <2> DEFINE b == found[1]
             q == Only(b, FALSE)
             locals == [pass[t] EXCEPT !.at = IF Parent[b] = None THEN "apply" ELSE "anchor",
                                       !.then = "forward", !.queue = q]
  <2>1. /\ b \in Block /\ b \in ChainOf[tip] /\ Pos[b] <= last
        /\ \A c \in Produced(start, last) : c = b \/ Pos[b] < Pos[c]
    BY <1>0, <1>4, Answers DEF Produced
  <2>2. Continue(t, locals) /\ UNCHANGED <<vars, repositoryVars>>
    BY <1>2, <1>4, Zenon
  <2>6. /\ q \in Queue /\ q # <<>> /\ Len(q) = 1 /\ DOMAIN q = {1}
        /\ q[1].block = b /\ ~q[1].anchor /\ Head(q) = q[1]
    BY <2>1, OneOther, Zenon
  <2> HIDE DEF b, q
  <2>3. /\ locals \in Pass
        /\ locals.at = IF Parent[b] = None THEN "apply" ELSE "anchor"
        /\ locals.checkpoint = pass[t].checkpoint
        /\ locals.tip = pass[t].tip /\ locals.queue = q
        /\ locals.applied = pass[t].applied
    BY <2>6, Locals, Zenon DEF Pass, Queue, QueuedBlock
  <2> HIDE DEF locals
  <2>4. ASSUME Parent[b] # None, NEW f \in plan[t].filters
        PROVE  Pos[Parent[b]] < f.start
    <3>1. /\ Parent[b] \in Block /\ Pos[Parent[b]] < Pos[b] /\ Parent[b] \in ChainOf[tip]
          /\ Pos[b] \in Nat /\ Pos[Parent[b]] \in Nat /\ last \in Nat
      BY <1>0, <2>1, <2>4, ChainClosed, ParentType, ParentBelow, PosType, Zenon DEF Checkpoint
    <3>2. f.start \in Nat /\ start \in Nat
      BY StartsType, Zenon DEF Starts
    <3>3. Parent[b] \notin Produced(start, last)
      BY <2>1, <3>1
    <3>4. Pos[Parent[b]] < start
      BY <2>1, <3>1, <3>2, <3>3 DEF Produced
    <3>5. CASE f.start <= last
      <4>1. f.start \in Starts(t)
        BY <3>5, Zenon DEF Starts
      <4> QED
        BY <1>2, <3>1, <3>2, <3>4, <4>1
    <3>6. CASE f.start > last
      BY <2>1, <3>1, <3>2, <3>6
    <3> QED
      BY <3>1, <3>2, <3>5, <3>6
  <2>5. ASSUME pass'[t] = locals, UNCHANGED <<stage, plan, checkpoint, journal>>
        PROVE  PassSound(t)'
    <3>1. PassHolds(t)' /\ PassCurrent(t)' /\ AncestorKept(t)'
      BY <1>0, <2>3, <2>5, Locals, Zenon DEF PassHolds, PassCurrent, AncestorKept
    <3>2. BatchKept(t)'
      BY <1>0, <2>3, <2>5, <2>6, OneFits, ZenonT(30) DEF BatchKept
    <3>3. AnchorBelow(t)'
      BY <2>3, <2>4, <2>5, <2>6, Zenon DEF AnchorBelow, Applying
    <3> QED
      BY <3>1, <3>2, <3>3, Zenon DEF PassSound
  <2> QED
    BY <1>0, <2>2, <2>3, <2>5, LocalInv, Zenon
<1> QED
  BY <1>3, <1>4, Zenon

\* A pass queues blocks, of which at most the first is an anchor, below every birthday.
LEMMA QueuedInv ==
    ASSUME IndexingInv, NEW t \in Task, pass[t].at \in {"init", "anchor", "forward"},
           NEW q \in Queue, q # <<>>, pass[t].applied + Len(q) <= BatchSize,
           \A i \in DOMAIN q : q[i].anchor =>
              i = 1 /\ \A f \in plan[t].filters : Pos[q[i].block] < f.start,
           NEW locals \in Pass, Continue(t, locals), UNCHANGED <<vars, repositoryVars>>,
           locals.at = "apply", locals.queue = q, locals.applied = pass[t].applied,
           locals.tip = pass[t].tip, locals.checkpoint = pass[t].checkpoint,
           AdmissionInv', RepositoryInv'
    PROVE  IndexingInv'
<1>1. ASSUME pass'[t] = locals, UNCHANGED <<stage, plan, checkpoint, journal>>
      PROVE  PassSound(t)'
  <2>1. PassHolds(t)' /\ PassCurrent(t)' /\ AncestorKept(t)'
    BY <1>1, Locals, Zenon DEF PassHolds, PassCurrent, AncestorKept
  <2>2. BatchKept(t)' /\ AnchorBelow(t)'
    BY <1>1, Zenon DEF BatchKept, AnchorBelow
  <2> QED
    BY <2>1, <2>2, Zenon DEF PassSound
<1>2. pass[t].at # "idle" /\ locals.at # "idle"
  BY Zenon
<1> QED
  BY <1>1, <1>2, LocalInv, Zenon

\* A queue of one given block.
LEMMA OneQueued ==
    ASSUME NEW x \in QueuedBlock
    PROVE  <<x>> \in Queue /\ <<x>> # <<>> /\ Len(<<x>>) = 1 /\ DOMAIN <<x>> = {1} /\ <<x>>[1] = x
BY DEF Queue

\* Two queues of one block, one after the other.
LEMMA TwoQueued ==
    ASSUME NEW p \in Queue, NEW q \in Queue, Len(p) = 1, Len(q) = 1
    PROVE  /\ p \o q \in Queue /\ p \o q # <<>> /\ Len(p \o q) = 2
           /\ DOMAIN (p \o q) = {1, 2} /\ (p \o q)[1] = p[1] /\ (p \o q)[2] = q[1]
           /\ Head(p \o q) = p[1]
<1> DEFINE pq == p \o q
<1>1. /\ pq \in Queue /\ Len(pq) = Len(p) + Len(q)
      /\ \A i \in 1 .. Len(p) + Len(q) : pq[i] = IF i <= Len(p) THEN p[i] ELSE q[i - Len(p)]
  BY ConcatProperties, Zenon DEF Queue
<1> HIDE DEF pq
<1>2. Len(pq) = 2 /\ pq[1] = p[1] /\ pq[2] = q[1]
  BY <1>1
<1>3. DOMAIN pq = 1 .. 2
  BY <1>1, <1>2, LenProperties, Zenon DEF Queue
<1>4. pq # <<>>
  BY <1>2
<1> QED
  BY <1>1, <1>2, <1>3, <1>4, HeadTail DEF pq

\* A queue with an anchor in front, cut to the batch.
LEMMA AnchorFirst ==
    ASSUME NEW b \in Block, NEW q \in Queue, Len(q) = 1, ~Head(q).anchor
    PROVE  LET both == Only(b, TRUE) \o q
               kept == IF BatchSize = 1 THEN <<Head(both)>> ELSE both
           IN  /\ kept \in Queue /\ kept # <<>> /\ Len(kept) <= BatchSize
               /\ \A i \in DOMAIN kept : kept[i].anchor => i = 1 /\ kept[i].block = b
<1> DEFINE p == Only(b, TRUE)
           both == p \o q
           kept == IF BatchSize = 1 THEN <<Head(both)>> ELSE both
<1>1. p \in Queue /\ Len(p) = 1 /\ p[1].block = b /\ p[1] \in QueuedBlock
  BY OneAnchor, Zenon DEF Only, QueuedBlock, Queued
<1>2. ~q[1].anchor
  <2>1. q # <<>>
    OBVIOUS
  <2> QED
    BY <2>1, HeadTail, Zenon
<1> HIDE DEF p
<1>3. /\ both \in Queue /\ both # <<>> /\ Len(both) = 2 /\ DOMAIN both = {1, 2}
      /\ both[1] = p[1] /\ both[2] = q[1] /\ Head(both) = p[1]
  BY <1>1, TwoQueued, Zenon
<1> HIDE DEF both
<1>4. CASE BatchSize = 1
  <2>1. /\ kept \in Queue /\ kept # <<>> /\ Len(kept) = 1 /\ DOMAIN kept = {1}
        /\ kept[1] = p[1]
    BY <1>1, <1>3, <1>4, OneQueued, Zenon
  <2>2. Len(kept) <= BatchSize
    BY <1>4, <2>1
  <2> QED
    BY <1>1, <2>1, <2>2, Zenon DEF p, both
<1>5. CASE BatchSize # 1
  <2>1. kept = both
    BY <1>5, Zenon
  <2>2. Len(both) <= BatchSize
    BY <1>3, <1>5, BatchPositive
  <2>3. \A i \in DOMAIN both : both[i].anchor => i = 1 /\ both[i].block = b
    BY <1>1, <1>2, <1>3, Zenon
  <2> QED
    BY <1>3, <2>1, <2>2, <2>3, Zenon DEF p, both
<1> QED
  BY <1>4, <1>5, Zenon DEF p, both

\* The parent of the first block becomes the anchor, alone if the batch is that small.
LEMMA BirthdayAnchorInv ==
    ASSUME IndexingInv, NEW t \in Task, BirthdayAnchor(t), AdmissionInv', RepositoryInv'
    PROVE  IndexingInv'
<1> DEFINE parent == Parent[Head(pass[t].queue).block]
           both == Only(parent, TRUE) \o pass[t].queue
           kept == IF BatchSize = 1 THEN <<Head(both)>> ELSE both
           locals == [pass[t] EXCEPT !.at = "apply", !.queue = kept]
<1>1. /\ pass[t].at = "anchor" /\ pass[t].applied = 0 /\ pass[t].queue \in Queue
      /\ Len(pass[t].queue) = 1 /\ ~Head(pass[t].queue).anchor
      /\ \A f \in plan[t].filters : Pos[parent] < f.start
      /\ parent # None
  BY Locals, Zenon DEF BirthdayAnchor, At, BatchKept, AnchorBelow, Applying
<1>2. parent \in Block
  <2>1. Head(pass[t].queue).block \in Block
    BY <1>1, ApplyingType, Zenon DEF Applying
  <2> QED
    BY <1>1, <2>1, ParentType, Zenon DEF Checkpoint
<1>3. CASE ~CanonicalAt(parent)
  BY <1>1, <1>3, UnwindInv, Zenon DEF BirthdayAnchor, Retry, IndexingInv, IndexingTypeOK
<1>4. CASE CanonicalAt(parent)
  <2>1. Continue(t, locals) /\ UNCHANGED <<vars, repositoryVars>>
    BY <1>4, Zenon DEF BirthdayAnchor
  <2>2. /\ kept \in Queue /\ kept # <<>> /\ Len(kept) <= BatchSize
        /\ \A i \in DOMAIN kept : kept[i].anchor => i = 1 /\ kept[i].block = parent
    BY <1>1, <1>2, AnchorFirst, Zenon
  <2> HIDE DEF kept
  <2>3. /\ locals \in Pass
        /\ locals.at = "apply" /\ locals.queue = kept /\ locals.applied = pass[t].applied
        /\ locals.tip = pass[t].tip /\ locals.checkpoint = pass[t].checkpoint
    BY <2>2, Locals, ZenonT(30) DEF Pass, Queue, QueuedBlock
  <2>4. pass[t].applied + Len(kept) <= BatchSize
    <3>1. Len(kept) \in Nat
      BY <2>2, LenProperties, Zenon DEF Queue
    <3> QED
      BY <1>1, <2>2, <3>1
  <2> HIDE DEF locals, parent
  <2> QED
    BY <1>1, <2>1, <2>2, <2>3, <2>4, QueuedInv, Zenon
<1> QED
  BY <1>3, <1>4, Zenon

\* The forward blocks are at most what the batch still has room for; none is an anchor.
LEMMA FetchBlocksInv ==
    ASSUME IndexingInv, NEW t \in Task, FetchBlocks(t), AdmissionInv', RepositoryInv'
    PROVE  IndexingInv'
<1> DEFINE first == Pos[pass[t].checkpoint] + 1
           last == Pos[pass[t].tip]
           limit == BatchSize - pass[t].applied
<1>1. PICK found \in Blocks(first, last, limit) :
         IF found = <<>>
         THEN Retry(t)
         ELSE /\ Continue(t, [pass[t] EXCEPT !.at = "apply", !.then = "finish",
                                             !.queue = Fetched(found)])
              /\ UNCHANGED <<vars, repositoryVars>>
  BY Zenon DEF FetchBlocks
<1>2. pass[t].at = "forward" /\ tip \in Block /\ pass[t].applied < BatchSize
  BY Zenon DEF FetchBlocks, At, Behind, IndexingInv, IndexingTypeOK
<1>3. pass[t].applied \in Nat
  BY Locals, Zenon DEF Pass
<1>4. limit \in Nat
  BY <1>2, <1>3, BatchPositive
<1>5. CASE found = <<>>
  BY <1>1, <1>2, <1>5, UnwindInv, Zenon DEF Retry, IndexingInv, IndexingTypeOK
<1>6. CASE found # <<>>
  <2> DEFINE q == Fetched(found)
             locals == [pass[t] EXCEPT !.at = "apply", !.then = "finish", !.queue = q]
  <2>1. Continue(t, locals) /\ UNCHANGED <<vars, repositoryVars>>
    BY <1>1, <1>6, Zenon
  <2> HIDE DEF limit
  <2>2. q \in Queue /\ q # <<>> /\ Len(q) <= limit /\ \A i \in DOMAIN q : ~q[i].anchor
    BY <1>2, <1>4, <1>6, Answers, Zenon
  <2> HIDE DEF q
  <2>3. /\ locals \in Pass
        /\ locals.at = "apply" /\ locals.queue = q /\ locals.applied = pass[t].applied
        /\ locals.tip = pass[t].tip /\ locals.checkpoint = pass[t].checkpoint
    BY <2>2, Locals, ZenonT(30) DEF Pass, Queue, QueuedBlock
  <2>4. pass[t].applied + Len(q) <= BatchSize
    <3>1. Len(q) \in Nat
      BY <2>2, LenProperties, Zenon DEF Queue
    <3> QED
      BY <1>3, <2>2, <3>1, BatchPositive DEF limit
  <2> HIDE DEF locals
  <2> QED
    BY <1>2, <2>1, <2>2, <2>3, <2>4, QueuedInv, Zenon
<1> QED
  BY <1>5, <1>6, Zenon

-----------------------------------------------------------------------------
(* The commit of a block.                                                  *)

\* What is known of the block a pass applies.
LEMMA FirstQueued ==
    ASSUME IndexingInv, NEW t \in Task, pass[t].at \in {"anchor", "apply", "adding", "added"}
    PROVE  /\ pass[t].queue \in Queue /\ pass[t].queue # <<>>
           /\ Applying(t) = pass[t].queue[1].block
           /\ Head(pass[t].queue) = pass[t].queue[1]
           /\ 1 \in DOMAIN pass[t].queue
           /\ Applying(t) \in Block
BY Locals, ApplyingType, Zenon DEF BatchKept, Applying

\* begin is only asked for a block that connects.
LEMMA ApplyBeginInv ==
    ASSUME IndexingInv, NEW t \in Task, ApplyBegin(t), AdmissionInv', RepositoryInv'
    PROVE  IndexingInv'
<1> DEFINE locals == [pass[t] EXCEPT !.at = "adding"]
<1>0. /\ pass[t].at = "apply"
      /\ Continue(t, locals)
      /\ Connects(Applying(t), pass[t].checkpoint)
      /\ UNCHANGED <<checkpoint, journal>>
  BY Zenon DEF ApplyBegin, Applicable, At, repositoryVars
<1>1. /\ locals \in Pass
      /\ locals.at = "adding" /\ locals.checkpoint = pass[t].checkpoint
      /\ locals.tip = pass[t].tip /\ locals.queue = pass[t].queue
      /\ locals.applied = pass[t].applied
  BY Locals, Zenon DEF Pass
<1> HIDE DEF locals
<1>2. /\ pass'[t] = locals
      /\ stage'[t] = "committing"
      /\ plan' = plan
      /\ \A u \in Task : u # t => stage'[u] = stage[u]
  BY <1>0, Locals, ZenonT(30) DEF ApplyBegin, Begin, Continue, IndexingInv, AdmissionInv, TypeOK
<1>3. Applying(t)' = Applying(t)
  BY <1>1, <1>2, Zenon DEF Applying
<1>4. PassHolds(t)' /\ PassCurrent(t)' /\ AncestorKept(t)'
  BY <1>0, <1>1, <1>2, <1>3, Locals, Zenon DEF PassHolds, PassCurrent, AncestorKept
<1>5. BatchKept(t)' /\ AnchorBelow(t)'
  BY <1>0, <1>1, <1>2, Locals, ZenonT(30) DEF BatchKept, AnchorBelow
<1>6. CheckpointJournaled'
  BY <1>0, Zenon DEF IndexingInv, CheckpointJournaled
<1>7. pass[t].at # "idle" /\ locals.at # "idle"
  BY <1>0, <1>1, Zenon
<1> QED
  BY <1>0, <1>1, <1>2, <1>4, <1>5, <1>6, <1>7, ContinueInv, ZenonT(30) DEF PassSound

\* The repository has the block and its journal row before the pass knows.
LEMMA AddBlockInv ==
    ASSUME IndexingInv, NEW t \in Task, AddBlock(t), AdmissionInv', RepositoryInv'
    PROVE  IndexingInv'
<1> DEFINE locals == [pass[t] EXCEPT !.at = "added"]
<1>0. pass[t].at = "adding" /\ Continue(t, locals) /\ UNCHANGED <<stage, plan>>
  BY Zenon DEF AddBlock, At, vars, admissionVars, taskVars
<1>1. /\ locals \in Pass
      /\ locals.at = "added" /\ locals.checkpoint = pass[t].checkpoint
      /\ locals.tip = pass[t].tip /\ locals.queue = pass[t].queue
      /\ locals.applied = pass[t].applied
  BY Locals, Zenon DEF Pass
<1> HIDE DEF locals
<1>2. pass'[t] = locals
  BY <1>0, Locals, Zenon DEF Continue
<1>3. Applying(t)' = Applying(t) /\ checkpoint' = Applying(t)
  BY <1>1, <1>2, Zenon DEF Applying, AddBlock, Add
<1>4. PassHolds(t)' /\ PassCurrent(t)' /\ AncestorKept(t)'
  BY <1>0, <1>1, <1>2, <1>3, Locals, Zenon DEF PassHolds, PassCurrent, AncestorKept
<1>5. BatchKept(t)' /\ AnchorBelow(t)'
  BY <1>0, <1>1, <1>2, Locals, ZenonT(30) DEF BatchKept, AnchorBelow
<1>6. CheckpointJournaled'
  <2>1. journal' # {}
    BY Zenon DEF AddBlock, Add
  <2> QED
    BY <2>1, Zenon DEF RepositoryInv, JournalLinked, CheckpointJournaled
<1>7. pass[t].at # "idle" /\ locals.at # "idle"
  BY <1>0, <1>1, Zenon
<1>8. \A u \in Task : u # t => stage'[u] = stage[u]
  BY <1>0, Zenon
<1> QED
  BY <1>0, <1>1, <1>4, <1>5, <1>6, <1>7, <1>8, ContinueInv, Zenon DEF PassSound

\* complete moves the pass on to the next block of the batch; no anchor is left.
LEMMA AddCompleteInv ==
    ASSUME IndexingInv, NEW t \in Task, AddComplete(t), AdmissionInv', RepositoryInv'
    PROVE  IndexingInv'
<1> DEFINE q == pass[t].queue
           rest == Tail(q)
           next == IF Len(q) > 1 THEN "apply" ELSE pass[t].then
           locals == [pass[t] EXCEPT !.at = next, !.checkpoint = Applying(t), !.queue = rest,
                                     !.applied = @ + 1]
<1>0. pass[t].at = "added" /\ Continue(t, locals) /\ UNCHANGED <<checkpoint, journal>>
  BY Zenon DEF AddComplete, At, repositoryVars
<1>1. /\ q \in Queue /\ q # <<>> /\ Applying(t) \in Block /\ checkpoint = Applying(t)
      /\ pass[t].applied \in Nat /\ pass[t].then \in {"forward", "finish"}
      /\ pass[t].applied + Len(q) <= BatchSize /\ pass[t].tip # None
      /\ \A i \in DOMAIN q : q[i].anchor => i = 1
  BY <1>0, FirstQueued, Locals, ZenonT(30) DEF PassCurrent, BatchKept, AnchorBelow, Pass
<1>2. /\ rest \in Queue /\ Len(q) \in Nat \ {0} /\ Len(rest) = Len(q) - 1
      /\ rest = <<>> <=> Len(q) = 1
      /\ \A i \in DOMAIN rest : i + 1 \in DOMAIN q /\ i + 1 # 1 /\ rest[i] = q[i + 1]
  BY <1>1, HeadTail, Zenon
<1>3. \A i \in DOMAIN rest : ~rest[i].anchor
  BY <1>1, <1>2, Zenon
<1> HIDE DEF q, rest
<1>4. /\ next \in {"apply", "forward", "finish"}
      /\ next = "apply" <=> rest # <<>>
  BY <1>1, <1>2
<1>5. pass[t].applied + 1 \in Nat /\ pass[t].applied + 1 + Len(rest) <= BatchSize
  BY <1>1, <1>2, BatchPositive
<1> HIDE DEF next
<1>6. /\ locals \in Pass
      /\ locals.at = next /\ locals.checkpoint = Applying(t) /\ locals.queue = rest
      /\ locals.tip = pass[t].tip /\ locals.applied = pass[t].applied + 1
  <2>1. next \in {"idle", "load", "plan", "verify", "walk", "rollback", "removed", "init",
                  "anchor", "forward", "apply", "adding", "added", "finish"}
    BY <1>4, Zenon
  <2> QED
    BY <1>1, <1>2, <1>5, <2>1, Locals DEF Pass, Checkpoint, Queue, QueuedBlock
<1> HIDE DEF locals
<1>7. /\ pass'[t] = locals
      /\ stage'[t] = "planned"
      /\ \A u \in Task : u # t => stage'[u] = stage[u]
  BY <1>0, Locals, Zenon
     DEF AddComplete, CommitComplete, Continue, IndexingInv, AdmissionInv, TypeOK
<1>8. PassHolds(t)' /\ AncestorKept(t)'
  BY <1>4, <1>6, <1>7, Zenon DEF PassHolds, AncestorKept
<1>9. PassCurrent(t)'
  BY <1>0, <1>1, <1>4, <1>6, <1>7, NoneIsNoBlock, Zenon DEF PassCurrent
<1>10. BatchKept(t)'
  BY <1>4, <1>5, <1>6, <1>7, Zenon DEF BatchKept
<1>11. AnchorBelow(t)'
  BY <1>3, <1>4, <1>6, <1>7, Zenon DEF AnchorBelow
<1>12. CheckpointJournaled'
  BY <1>0, Zenon DEF IndexingInv, CheckpointJournaled
<1>13. pass[t].at # "idle" /\ locals.at # "idle"
  BY <1>0, <1>4, <1>6, Zenon
<1> QED
  BY <1>0, <1>6, <1>7, <1>8, <1>9, <1>10, <1>11, <1>12, <1>13, ContinueInv,
     ZenonT(30) DEF PassSound

-----------------------------------------------------------------------------
(* Every step keeps the invariant.                                         *)

\* The end of a pass, with or without an error, from any step of it.
LEMMA EndsInv ==
    ASSUME IndexingInv, NEW t \in Task, pass[t].at # "idle", Retry(t) \/ Stop(t),
           AdmissionInv', RepositoryInv'
    PROVE  IndexingInv'
<1>1. Unwind(t) /\ stopped' \in BOOLEAN
  BY Zenon DEF Retry, Stop, IndexingInv, IndexingTypeOK
<1> QED
  BY <1>1, UnwindInv, Zenon

LEMMA SyncStepInv ==
    ASSUME IndexingInv, NEW t \in Task, SyncStep(t) \/ Fail(t), AdmissionInv', RepositoryInv'
    PROVE  IndexingInv'
<1>1. CASE SyncStart(t) \/ LoadCheckpoint(t) \/ MakePlan(t) \/ Verify(t)
  BY <1>1, SyncStartInv, LoadInv, MakePlanInv, VerifyInv, Zenon
<1>2. CASE WalkFound(t) \/ WalkDown(t) \/ RemoveTip(t) \/ PersistRemoved(t) \/ RollbackComplete(t)
  BY <1>2, WalkFoundInv, WalkDownInv, RemoveTipInv, PersistRemovedInv, RollbackCompleteInv,
     ZenonT(30)
<1>3. CASE AnchorAtTip(t) \/ FirstBlock(t) \/ BirthdayAnchor(t) \/ FetchBlocks(t)
  BY <1>3, AnchorAtTipInv, FirstBlockInv, BirthdayAnchorInv, FetchBlocksInv, Zenon
<1>4. CASE ApplyBegin(t) \/ AddBlock(t) \/ AddComplete(t)
  BY <1>4, ApplyBeginInv, AddBlockInv, AddCompleteInv, Zenon
<1>5. CASE PlanRefused(t) \/ WalkRefused(t) \/ WalkExhausted(t) \/ Finish(t)
           \/ ApplyRefused(t) \/ AddRefused(t) \/ Fail(t)
  <2>1. Retry(t) \/ Stop(t)
    BY <1>5, Zenon DEF PlanRefused, WalkRefused, WalkExhausted, Finish, ApplyRefused,
       AddRefused, Fail
  <2>2. pass[t].at # "idle"
    BY <1>5, Zenon DEF PlanRefused, WalkRefused, WalkExhausted, Finish, ApplyRefused,
       AddRefused, Fail, At
  <2> QED
    BY <2>1, <2>2, EndsInv, Zenon
<1> QED
  BY <1>1, <1>2, <1>3, <1>4, <1>5, Zenon DEF SyncStep

\* A publisher never touches what the passes hold.
LEMMA PublishersApart ==
    ASSUME NEW p \in Publisher,
           PublisherCall(p) \/ IndexedPublisherStep(p) \/ PublisherCancelled(p)
    PROVE  UNCHANGED <<stage, plan, checkpoint, journal, tip, running, pass, stopped>>
<1>1. UNCHANGED <<repositoryVars, tip, syncVars>>
  BY Zenon DEF PublisherCall, IndexedPublisherStep, PublisherCancelled
<1>2. PublisherCall(p) => UNCHANGED <<stage, plan>>
  BY Zenon DEF PublisherCall, Request, taskVars
<1>3. PublisherStep(p) => UNCHANGED <<stage, plan>>
  <2>1. PublicationGrant(p) \/ PublicationWait(p) => UNCHANGED <<stage, plan>>
    BY Zenon DEF PublicationGrant, PublicationWait, taskVars
  <2>2. Store(p) \/ Register(p) => UNCHANGED <<stage, plan>>
    BY Zenon DEF Store, Register, taskVars
  <2>3. StoreDuplicate(p) \/ RegisterFailed(p) \/ Complete(p) => UNCHANGED <<stage, plan>>
    BY Zenon DEF StoreDuplicate, RegisterFailed, Complete, PublicationDrop,
       PublicationComplete, taskVars
  <2> QED
    BY <2>1, <2>2, <2>3, Zenon DEF PublisherStep
<1>4. Cancelled(p) => UNCHANGED <<stage, plan>>
  BY Zenon DEF Cancelled, Abandon, PublicationAbandon, RegisterCancelled, PublicationDrop,
     taskVars
<1>5. UNCHANGED <<stage, plan>>
  BY <1>2, <1>3, <1>4, Zenon DEF IndexedPublisherStep, PublisherCancelled
<1> QED
  BY <1>1, <1>5, Zenon DEF repositoryVars, syncVars

\* A step that leaves the passes and the repository alone.
LEMMA ApartInv ==
    ASSUME IndexingInv, UNCHANGED <<stage, plan, checkpoint, journal, running, pass, stopped>>,
           tip' \in Block, AdmissionInv', RepositoryInv'
    PROVE  IndexingInv'
<1>1. IndexingTypeOK' /\ OnePass' /\ CheckpointJournaled'
  BY Zenon DEF IndexingInv, IndexingTypeOK, OnePass, CheckpointJournaled
<1>2. ASSUME NEW t \in Task
      PROVE  PassSound(t)'
  <2>1. Applying(t)' = Applying(t) /\ Oldest(t)' = Oldest(t)
    BY Zenon DEF Applying, Oldest
  <2>2. JournalAt(pass[t].height)' = JournalAt(pass[t].height)
    BY Zenon DEF JournalAt
  <2>3. PassHolds(t)' /\ PassCurrent(t)'
    BY <2>1, Locals, Zenon DEF PassHolds, PassCurrent
  <2>4. BatchKept(t)' /\ AncestorKept(t)' /\ AnchorBelow(t)'
    BY <2>1, <2>2, Locals, Zenon DEF BatchKept, AncestorKept, AnchorBelow
  <2> QED
    BY <2>3, <2>4, Zenon DEF PassSound
<1> QED
  BY <1>1, <1>2, Zenon DEF IndexingInv

\* After a restart nothing runs, and the repository can go on from its checkpoint.
LEMMA RestartedInv ==
    ASSUME IndexingInv, ProcessRestart, AdmissionInv', RepositoryInv'
    PROVE  IndexingInv'
<1>1. /\ pass' = [t \in Task |-> NoPass] /\ running' = FALSE /\ stopped' = FALSE
      /\ stage' = [t \in Task |-> "idle"] /\ UNCHANGED <<checkpoint, journal, tip>>
  BY Zenon DEF ProcessRestart, Restart, repositoryVars
<1>2. IndexingTypeOK' /\ CheckpointJournaled'
  BY <1>1, NoPassType, Zenon DEF IndexingInv, IndexingTypeOK, CheckpointJournaled
<1>3. \A t \in Task : pass'[t].at = "idle" /\ pass'[t].queue = <<>> /\ pass'[t].applied = 0
  BY <1>1, Zenon DEF NoPass
<1>4. OnePass'
  BY <1>3, Zenon DEF OnePass
<1>5. \A t \in Task : PassSound(t)'
  BY <1>1, <1>3, IdleSound, Zenon
<1> QED
  BY <1>2, <1>4, <1>5, Zenon DEF IndexingInv

\* Every step keeps the inductive invariant.
LEMMA IndexingStepInv ==
    ASSUME IndexingInv, [IndexingNext]_indexVars
    PROVE  IndexingInv'
<1>1. AdmissionInv' /\ RepositoryInv'
  BY IndexingStepsWallets, IndexingStepsRepository, WalletsStepInv, RepositoryStepInv, Zenon
     DEF IndexingInv
<1>2. ASSUME NEW p \in Publisher,
             PublisherCall(p) \/ IndexedPublisherStep(p) \/ PublisherCancelled(p)
      PROVE  IndexingInv'
  BY <1>1, <1>2, PublishersApart, ApartInv, ZenonT(30) DEF IndexingInv, IndexingTypeOK
<1>3. CASE SourceMoves \/ UNCHANGED indexVars
  BY <1>1, <1>3, ApartInv, Zenon DEF SourceMoves, indexVars, vars, admissionVars, taskVars,
     repositoryVars, syncVars, IndexingInv, IndexingTypeOK
<1> QED
  BY <1>1, <1>2, <1>3, SyncStepInv, RestartedInv, Zenon DEF IndexingNext

\* At the start there is no pass and the repository is empty.
LEMMA IndexingStartInv ==
    ASSUME IndexingInit
    PROVE  IndexingInv
<1>1. AdmissionInv /\ RepositoryInv
  BY WalletsStart, RepositoryStart, Zenon DEF IndexingInit
<1>2. /\ pass = [t \in Task |-> NoPass] /\ running = FALSE /\ stopped = FALSE /\ tip \in Block
      /\ stage = [t \in Task |-> "idle"] /\ checkpoint = None
  BY Zenon DEF IndexingInit, WalletsInit, AdmissionInit, RepositoryInit
<1>3. IndexingTypeOK /\ CheckpointJournaled
  BY <1>2, NoPassType, Zenon DEF IndexingTypeOK, CheckpointJournaled
<1>4. \A t \in Task : pass[t].at = "idle" /\ pass[t].queue = <<>> /\ pass[t].applied = 0
  BY <1>2, Zenon DEF NoPass
<1>5. OnePass
  BY <1>4, Zenon DEF OnePass
<1>6. ASSUME NEW t \in Task
      PROVE  PassSound(t)
  <2>1. Len(<<>>) = 0 /\ DOMAIN <<>> = {} /\ 0 + 0 <= BatchSize
    BY BatchPositive
  <2> QED
    BY <1>2, <1>4, <2>1, Zenon
       DEF PassSound, PassHolds, PassCurrent, BatchKept, AncestorKept, AnchorBelow
<1> QED
  BY <1>1, <1>3, <1>5, <1>6, Zenon DEF IndexingInv

-----------------------------------------------------------------------------
(* What a commit sees.                                                     *)

\* A block is inspected for every published address whose birthday it has reached.
LEMMA CommitInspects ==
    ASSUME IndexingInv, NEW t \in Task, pass[t].at = "adding", NEW w \in published,
           w.start <= Pos[Applying(t)]
    PROVE  AddressOf[w.id] \in Inspected(t)
<1>1. /\ Applying(t) \in Block /\ Applying(t) = pass[t].queue[1].block
      /\ Head(pass[t].queue) = pass[t].queue[1] /\ 1 \in DOMAIN pass[t].queue
  BY FirstQueued, Zenon
<1>2. stage[t] = "committing"
  BY Locals, Zenon DEF PassHolds
<1>3. PICK f \in plan[t].filters : f.address = AddressOf[w.id] /\ f.start <= w.start
  BY <1>2, Zenon DEF IndexingInv, AdmissionInv, PlanFresh, Covers
<1>4. w.start \in Nat /\ f.start \in Nat /\ Pos[Applying(t)] \in Nat
  <2>1. w.start \in Nat
    BY Zenon DEF IndexingInv, AdmissionInv, TypeOK, Entry
  <2> QED
    BY <1>1, <2>1, StartsType, PosType, ZenonT(30)
<1>5. f.start <= Pos[Applying(t)]
  BY <1>3, <1>4
<1>6. ~Head(pass[t].queue).anchor
  <2>1. ~(Pos[Applying(t)] < f.start)
    BY <1>4, <1>5
  <2> QED
    BY <1>1, <2>1, Locals, Zenon DEF AnchorBelow
<1> QED
  BY <1>3, <1>5, <1>6, Zenon DEF Inspected, ActiveAddresses

\* Only add makes a block applied.
LEMMA NewlyApplied ==
    ASSUME IndexingInv, [IndexingNext]_indexVars, NEW e \in history' \ history
    PROVE  \E t \in Task : /\ pass[t].at = "adding"
                           /\ e.block = Applying(t) /\ e.addresses = Inspected(t)
<1>1. ~(UNCHANGED repositoryVars)
  BY Zenon DEF repositoryVars
<1>2. PICK t \in Task : SyncStep(t) \/ Fail(t)
  BY <1>1, Zenon DEF IndexingNext, indexVars, SourceMoves, ProcessRestart, PublisherCall,
     IndexedPublisherStep, PublisherCancelled
<1>3. ~RemoveTip(t)
  BY Zenon DEF RemoveTip, Remove
<1>4. AddBlock(t)
  <2>1. ~(MakePlan(t) \/ WalkFound(t) \/ ApplyBegin(t) \/ PersistRemoved(t)
          \/ RollbackComplete(t) \/ AddComplete(t) \/ SyncStart(t) \/ LoadCheckpoint(t)
          \/ Verify(t) \/ WalkDown(t))
    BY <1>1, Zenon DEF MakePlan, WalkFound, ApplyBegin, PersistRemoved, RollbackComplete,
       AddComplete, SyncStart, LoadCheckpoint, Verify, WalkDown
  <2>2. ~Retry(t) /\ ~Stop(t)
    BY <1>1, Zenon DEF Retry, Stop, Unwind
  <2>3. ~(PlanRefused(t) \/ WalkRefused(t) \/ WalkExhausted(t) \/ Finish(t)
          \/ ApplyRefused(t) \/ AddRefused(t) \/ Fail(t))
    BY <2>2, Zenon DEF PlanRefused, WalkRefused, WalkExhausted, Finish, ApplyRefused,
       AddRefused, Fail
  <2>4. ~(AnchorAtTip(t) \/ FirstBlock(t) \/ BirthdayAnchor(t) \/ FetchBlocks(t))
    BY <1>1, <2>2, Zenon DEF AnchorAtTip, FirstBlock, BirthdayAnchor, FetchBlocks
  <2> QED
    BY <1>2, <1>3, <2>1, <2>3, <2>4, ZenonT(30) DEF SyncStep
<1>5. e = [block |-> Applying(t), addresses |-> Inspected(t)] /\ pass[t].at = "adding"
  BY <1>4, Zenon DEF AddBlock, Add, At
<1> QED
  BY <1>5, Zenon

\* The entry w of the collection has no gap: every applied block from its birthday
\* on was inspected for its address.
Observed(w) == \A e \in history : w.start <= Pos[e.block] => AddressOf[w.id] \in e.addresses

\* An entry that is published stays without a gap.
LEMMA StaysObserved ==
    ASSUME IndexingInv, [IndexingNext]_indexVars, NEW w \in published, Observed(w)
    PROVE  Observed(w)'
BY NewlyApplied, CommitInspects, Zenon DEF Observed

\* The repository agrees with the pass that holds the permit.
LEMMA Agrees ==
    ASSUME IndexingInv, Backend = "postgres" => SpendsRun
    PROVE  StoreAgrees
<1> SUFFICES ASSUME NEW t \in Task
             PROVE  /\ At(t, "adding") =>
                          \/ CanAdd(Applying(t), pass[t].checkpoint, Inspected(t))
                          \/ SpendsUnknown(Applying(t), Inspected(t))
                    /\ At(t, "rollback") /\ AboveAncestor(t) => CanRemove(pass[t].checkpoint)
  BY Zenon DEF StoreAgrees
<1>1. ASSUME pass[t].at = "adding"
      PROVE  \/ CanAdd(Applying(t), pass[t].checkpoint, Inspected(t))
             \/ SpendsUnknown(Applying(t), Inspected(t))
  <2>1. /\ Applying(t) \in Block /\ Inspected(t) \in SUBSET Address
        /\ pass[t].checkpoint = checkpoint /\ Connects(Applying(t), checkpoint)
    BY <1>1, FirstQueued, InspectedType, Locals, ZenonT(30) DEF PassCurrent
  <2>2. ~SpendFails(Applying(t), Inspected(t)) /\ RepositoryInv
    BY Zenon DEF SpendFails, IndexingInv
  <2> QED
    BY <2>1, <2>2, AddAccepted, Zenon
<1>2. ASSUME pass[t].at = "rollback", AboveAncestor(t)
      PROVE  CanRemove(pass[t].checkpoint)
  <2>1. pass[t].checkpoint = checkpoint /\ checkpoint # None
    BY <1>2, Locals, Zenon DEF PassCurrent, AboveAncestor
  <2>2. RepositoryInv /\ \E j \in journal : j.block = checkpoint
    BY <2>1, Zenon DEF IndexingInv, CheckpointJournaled
  <2> QED
    BY <2>1, <2>2, RemoveAccepted, Zenon
<1> QED
  BY <1>1, <1>2, Zenon DEF At

-----------------------------------------------------------------------------
(* The theorems.                                                           *)

\* One scope is sound end to end: through every interleaving of a pass with reorgs,
\* publications, failed calls and restarts, what the pass knows and holds fits the
\* admission lock and the repository (Synchronizer::sync).
THEOREM IndexingSound == IndexingSpec => []IndexingInv
<1>1. IndexingInit => IndexingInv
  BY IndexingStartInv, Zenon
<1>2. IndexingInv /\ [IndexingNext]_indexVars => IndexingInv'
  BY IndexingStepInv, Zenon
<1> QED
  BY <1>1, <1>2, PTL DEF IndexingSpec

\* The synchronizer is a client of the admission lock like any other: all that is
\* proved of WalletsSpec holds of it.
THEOREM SyncRefinesWallets == IndexingSpec => WalletsSpec
<1>1. IndexingInit => WalletsInit
  BY Zenon DEF IndexingInit
<1>2. IndexingInv /\ [IndexingNext]_indexVars => [WalletsNext]_vars
  BY IndexingStepsWallets, ZenonT(30)
<1> QED
  BY <1>1, <1>2, IndexingSound, PTL DEF IndexingSpec, WalletsSpec

\* The synchronizer only adds blocks that connect and only removes the checkpoint:
\* all that is proved of RepositorySpec holds of its repository.
THEOREM SyncRefinesRepository == IndexingSpec => RepositorySpec
<1>1. IndexingInit => RepositoryInit
  BY Zenon DEF IndexingInit
<1>2. IndexingInv /\ [IndexingNext]_indexVars => [RepositoryNext]_repositoryVars
  BY IndexingStepsRepository, Zenon
<1> QED
  BY <1>1, <1>2, IndexingSound, PTL DEF IndexingSpec, RepositorySpec

\* Every block is inspected for all addresses published before its commit whose
\* birthday it has reached, with any number of passes and publishers (apply, plan).
THEOREM CommitsInspectPublished == IndexingSpec => InspectsPublished
<1>1. IndexingInv /\ [IndexingNext]_indexVars =>
         \A e \in history' \ history : \A w \in published :
            w.start <= Pos[e.block] => AddressOf[w.id] \in e.addresses
  BY NewlyApplied, CommitInspects, Zenon
<1> QED
  BY <1>1, IndexingSound, PTL DEF IndexingSpec, InspectsPublished

\* The repository never has to refuse the transition of a permit holder, on redb and
\* on a PostgreSQL server that accepts the statement for spends (write_block, remove_tip).
THEOREM StoreNeverDisagrees ==
    ASSUME Backend = "postgres" => SpendsRun
    PROVE  IndexingSpec => []StoreAgrees
<1>1. IndexingInv => StoreAgrees
  BY Agrees, Zenon
<1> QED
  BY <1>1, IndexingSound, PTL

\* A wallet imported at startup is never missed, whatever is published, reorganized
\* or interrupted while the scope runs.
THEOREM ImportsHaveNoGap == IndexingSpec => [](\A w \in Imported : Observed(w))
<1>1. IndexingInit => \A w \in Imported : Observed(w)
  BY Zenon DEF IndexingInit, RepositoryInit, Observed
<1>2. IndexingInv /\ [IndexingNext]_indexVars /\ (\A w \in Imported : Observed(w))
         => (\A w \in Imported : Observed(w))'
  <2>1. IndexingInv => Imported \subseteq published
    BY Zenon DEF IndexingInv, AdmissionInv, IdsUnique
  <2> QED
    BY <2>1, StaysObserved, Zenon
<1> QED
  BY <1>1, <1>2, IndexingSound, PTL DEF IndexingSpec

\* A scope whose wallets are all imported at startup has an index without holes.
THEOREM ImportedIndexHasNoGap ==
    ASSUME Publisher = {}
    PROVE  IndexingSpec => []NoGap
<1> DEFINE Fixed == published = Imported /\ registry = {}
<1>1. IndexingInit => Fixed
  BY Zenon DEF IndexingInit, WalletsInit
<1>2. IndexingInv /\ [IndexingNext]_indexVars /\ Fixed => Fixed'
  <2> SUFFICES ASSUME IndexingInv, [IndexingNext]_indexVars, Fixed
               PROVE  Fixed'
    BY Zenon
  <2>1. [WalletsNext]_vars
    BY IndexingStepsWallets, Zenon
  <2>2. Restart \/ UNCHANGED <<published, registry>>
    BY <2>1, Zenon DEF WalletsNext, TaskStep, vars, walletVars
  <2> QED
    BY <2>2, Zenon DEF Restart
<1>3. Fixed /\ (\A w \in Imported : Observed(w)) => NoGap
  BY Zenon DEF Observed, NoGap
<1> QED
  BY <1>1, <1>2, <1>3, IndexingSound, ImportsHaveNoGap, PTL DEF IndexingSpec
=============================================================================
