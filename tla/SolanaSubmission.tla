-------------------------- MODULE SolanaSubmission --------------------------
(***************************************************************************)
(* Native SOL sends: the source leases and guards of the Solana            *)
(* coordinator, the dispatch and reconciliation of signed envelopes, the   *)
(* application's submission supervisor and its ordered shutdown.           *)
(*                                                                         *)
(* A caller (an HTTP handler) leases its sources, prepares one envelope    *)
(* per transfer, turns the leases into guards and registers a dormant task *)
(* with the supervisor.  The task dispatches the envelopes in order; an    *)
(* envelope whose outcome stays unknown keeps its source guarded until     *)
(* signature status, or the finalized index, decides its fate.  A caller   *)
(* may be dropped at every await (its connection closes); a task may panic *)
(* and takes the supervisor down with it.                                  *)
(*                                                                         *)
(* The checks and readings inside preparation are in SolanaPreparation;    *)
(* here preparation either fails or yields envelopes with one lifetime.    *)
(***************************************************************************)
EXTENDS Integers, Sequences, FiniteSets

CONSTANTS
    Caller,      \* the sends that handlers may start
    Source,      \* wallet addresses
    Jobs,        \* the batches each send may carry: sequences of sources
    Close,       \* the supervisor's close command
    Capacity,    \* of the supervisor's command queue
    Lifetime,    \* block heights a fresh blockhash stays valid for
    MaxHeight,   \* bound: the last block the node produces
    PageLimit,   \* history entries per page
    MaxPanics,   \* bound: tasks that may panic
    MayFail,     \* RPC, index and synchronization failures are possible
    MayStop      \* the application may be asked to stop

ASSUME CloseIsNoSend == Close \notin Caller
ASSUME JobsAreBatches == Jobs \in [Caller -> SUBSET (Seq(Source) \ {<<>>})]
ASSUME BoundsAreNumbers ==
    /\ Capacity \in Nat /\ Lifetime \in Nat /\ MaxHeight \in Nat
    /\ PageLimit \in Nat \ {0} /\ MaxPanics \in Nat

\* An instance of Jobs: one send carries a batch of every source, the others a single
\* transfer of its first source, so that all of them meet at one wallet.
Overlapping ==
    LET large == CHOOSE c \in Caller : TRUE
        all == CHOOSE f \in [1..Cardinality(Source) -> Source] : \A s \in Source : \E i \in DOMAIN f : f[i] = s
    IN  [c \in Caller |-> IF c = large THEN {all} ELSE {<<all[1]>>}]

VARIABLES
    preparing, guarded,   \* SourceState, behind the coordinator's mutex
    call,         \* per send: the handler's future
    task,         \* per send: its submission task
    queue,        \* commands sent to the supervisor
    supervisor,   \* "running", "draining", "ended" or "failed"
    stage,        \* how far the application's shutdown is
    sync,         \* index synchronization: "running", "fatal", "stopped"
    height,       \* confirmed block height of the node
    checkpoint,   \* height of the index checkpoint
    landed,       \* envelopes in a block, with the height of the block
    sent,         \* envelopes that were on the wire
    accepted,     \* envelopes known to be accepted or in a block
    absent,       \* envelopes given up
    panics

appVars == <<queue, supervisor, stage, sync>>
nodeVars == <<height, checkpoint, landed>>
sourceVars == <<preparing, guarded>>
vars == <<preparing, guarded, call, task, queue, supervisor, stage, sync,
          height, checkpoint, landed, sent, accepted, absent, panics>>

Sources(c) == {call[c].job[i] : i \in DOMAIN call[c].job}

LastValid(c) == call[c].until

\* The envelope the task of c is at: signed for one source, with the last
\* height a block may include it at.
Current(c) == [of |-> c, item |-> task[c].item,
               source |-> call[c].job[task[c].item], until |-> LastValid(c)]

settled == accepted \cup absent

\* A failing read, or a node, index or transport that does not answer.
Unavailable == MayFail

\* What a handler may be told.
Outcome == [kind : {"none", "ok", "busy", "definite", "ambiguous", "unavailable"},
            item : Nat]

Told(kind, item) == [kind |-> kind, item |-> item]

Idle == [at |-> "new", job |-> <<>>, until |-> 0, outcome |-> Told("none", 0)]

NoTask == [at |-> "none", holds |-> {}, activation |-> "held", item |-> 1,
           tries |-> 0, seen |-> 0, read |-> {}]

Finished == [NoTask EXCEPT !.at = "finished"]

Init ==
    /\ preparing = {} /\ guarded = {}
    /\ call = [c \in Caller |-> Idle]
    /\ task = [c \in Caller |-> NoTask]
    /\ queue = <<>> /\ supervisor = "running"
    /\ stage = "serving" /\ sync = "running"
    /\ height = 0 /\ checkpoint = 0
    /\ landed = {} /\ sent = {} /\ accepted = {} /\ absent = {}
    /\ panics = 0

-----------------------------------------------------------------------------
(* The handler: lease, prepare, register, wait.                            *)

Busy == preparing \cup guarded

Leased(c) == call[c].at \in {"prepare", "prepared"}

\* A request that came in before the listener stopped may get to its lease until the
\* handlers are drained.
HandlersRun == stage \in {"serving", "stopping", "closing", "closed"}

\* Coordinator::send up to the lease: every source of the batch or none.
Lease(c, job) ==
    /\ call[c].at = "new" /\ HandlersRun
    /\ LET wanted == {job[i] : i \in DOMAIN job}
           busy   == {i \in DOMAIN job : job[i] \in Busy}
       IN  IF busy # {}
           THEN /\ \E i \in busy :
                      /\ \A k \in busy : i <= k
                      /\ call' = [call EXCEPT ![c].at = "done", ![c].job = job,
                                              ![c].outcome = Told("busy", i)]
                /\ UNCHANGED preparing
           ELSE /\ call' = [call EXCEPT ![c].at = "prepare", ![c].job = job]
                /\ preparing' = preparing \cup wanted
    /\ UNCHANGED <<guarded, task, appVars, nodeVars, sent, accepted, absent, panics>>

\* Acquisition or preparation fails: the leases go with the future.
PreparationFails(c) ==
    /\ call[c].at = "prepare"
    /\ call' = [call EXCEPT ![c].at = "done", ![c].outcome = Told("unavailable", 0)]
    /\ preparing' = preparing \ Sources(c)
    /\ UNCHANGED <<guarded, task, appVars, nodeVars, sent, accepted, absent, panics>>

\* Preparation succeeds with the lifetime of a blockhash read on the way.
Prepared(c) ==
    /\ call[c].at = "prepare"
    /\ height + Lifetime < MaxHeight
    /\ call' = [call EXCEPT ![c].at = "prepared", ![c].until = height + Lifetime]
    /\ UNCHANGED <<sourceVars, task, appVars, nodeVars, sent, accepted, absent, panics>>

\* Submitter::submit before registration: the block height is read once
\* more; a live lifetime turns the leases into guards, which the dormant
\* task captures.
Submit(c) ==
    /\ call[c].at = "prepared"
    /\ \/ /\ height > LastValid(c) \/ Unavailable
          /\ call' = [call EXCEPT ![c].at = "done", ![c].outcome = Told("definite", 1)]
          /\ UNCHANGED <<guarded, task>>
       \/ /\ height <= LastValid(c)
          /\ guarded' = guarded \cup Sources(c)
          /\ call' = [call EXCEPT ![c].at = "send"]
          /\ task' = [task EXCEPT ![c].at = "queued", ![c].holds = Sources(c)]
    /\ preparing' = preparing \ Sources(c)
    /\ UNCHANGED <<appVars, nodeVars, sent, accepted, absent, panics>>

Accepting == supervisor = "running"

\* Registrar::insert: the command is sent when the queue has room.
Enqueue(c) ==
    /\ call[c].at = "send"
    /\ Accepting /\ Len(queue) < Capacity
    /\ queue' = Append(queue, c)
    /\ call' = [call EXCEPT ![c].at = "ack"]
    /\ UNCHANGED <<sourceVars, task, supervisor, stage, sync, nodeVars, sent, accepted, absent, panics>>

\* The task of c is dropped before it ran to the end: GuardedSources::drop.
Dropped == [NoTask EXCEPT !.at = "gone"]

\* Registration is closed, or its acknowledgement is lost.
RegistrationFails(c) ==
    /\ \/ call[c].at = "send" /\ ~Accepting
       \/ call[c].at = "ack" /\ task[c].at = "gone"
    /\ call' = [call EXCEPT ![c].at = "done", ![c].outcome = Told("unavailable", 0)]
    /\ guarded' = guarded \ task[c].holds
    /\ task' = [task EXCEPT ![c] = Dropped]
    /\ UNCHANGED <<preparing, appVars, nodeVars, sent, accepted, absent, panics>>

\* The acknowledgement arrives: the handler starts the task.
Activate(c) ==
    /\ call[c].at = "ack" /\ task[c].at = "dormant"
    /\ call' = [call EXCEPT ![c].at = "wait"]
    /\ task' = [task EXCEPT ![c].activation = "started"]
    /\ UNCHANGED <<sourceVars, appVars, nodeVars, sent, accepted, absent, panics>>

\* The result arrives, or the task ended without one.
Deliver(c) ==
    /\ call[c].at = "wait"
    /\ \/ /\ call[c].outcome.kind # "none"
          /\ call' = [call EXCEPT ![c].at = "done"]
       \/ /\ call[c].outcome.kind = "none" /\ task[c].at \in {"gone", "panicked"}
          /\ call' = [call EXCEPT ![c].at = "done", ![c].outcome = Told("unavailable", 0)]
    /\ UNCHANGED <<sourceVars, task, appVars, nodeVars, sent, accepted, absent, panics>>

\* The handler's future is dropped at one of its awaits.
Disconnect(c) ==
    /\ call[c].at \in {"prepare", "prepared", "send", "ack", "wait"}
    /\ call' = [call EXCEPT ![c].at = "gone"]
    /\ preparing' = IF Leased(c) THEN preparing \ Sources(c) ELSE preparing
    /\ guarded' = IF call[c].at = "send" THEN guarded \ task[c].holds ELSE guarded
    /\ task' = CASE call[c].at = "send" -> [task EXCEPT ![c] = Dropped]
                 [] call[c].at = "ack" -> [task EXCEPT ![c].activation = "dropped"]
                 [] OTHER -> task
    /\ UNCHANGED <<appVars, nodeVars, sent, accepted, absent, panics>>

-----------------------------------------------------------------------------
(* The submission task.                                                    *)

Running(c, at) == task[c].at = at

\* run returned a definite result: its guards are released, then the result
\* is sent to whoever still waits for it.
Complete(c, outcome) ==
    /\ guarded' = guarded \ task[c].holds
    /\ task' = [task EXCEPT ![c] = Finished]
    /\ call' = [call EXCEPT ![c].outcome = outcome]

\* SubmissionTask::dormant: nothing runs before the activation.
Begin(c) ==
    /\ Running(c, "dormant")
    /\ \/ /\ task[c].activation = "started"
          /\ task' = [task EXCEPT ![c].at = "dispatch"]
          /\ UNCHANGED guarded
       \/ /\ task[c].activation = "dropped"
          /\ guarded' = guarded \ task[c].holds
          /\ task' = [task EXCEPT ![c] = Dropped]
    /\ UNCHANGED <<preparing, call, appVars, nodeVars, sent, accepted, absent, panics>>

\* run, before every envelope but the first.
CheckLifetime(c) ==
    /\ Running(c, "check")
    /\ \/ /\ height > LastValid(c) \/ Unavailable
          /\ Complete(c, Told("definite", task[c].item))
       \/ /\ height <= LastValid(c)
          /\ task' = [task EXCEPT ![c].at = "dispatch", ![c].tries = 0]
          /\ UNCHANGED <<guarded, call>>
    /\ UNCHANGED <<preparing, appVars, nodeVars, sent, accepted, absent, panics>>

\* sendTransaction leaves for the node.
Dispatch(c) ==
    /\ Running(c, "dispatch")
    /\ sent' = sent \cup {Current(c)}
    /\ task' = [task EXCEPT ![c].at = "answer", ![c].tries = @ + 1]
    /\ UNCHANGED <<sourceVars, call, appVars, nodeVars, accepted, absent, panics>>

\* The envelope is known to have been taken: on to the next one.
Accepted(c) ==
    /\ accepted' = accepted \cup {Current(c)}
    /\ IF task[c].item = Len(call[c].job)
       THEN Complete(c, Told("ok", task[c].item))
       ELSE /\ task' = [task EXCEPT ![c].at = "check", ![c].item = @ + 1]
            /\ UNCHANGED <<guarded, call>>

\* GuardedSources::retain_ambiguity: only the source of the envelope stays
\* guarded, and no longer by the task's own guard; then the caller is told.
RetainAmbiguity(c) ==
    /\ guarded' = guarded \ (task[c].holds \ {Current(c).source})
    /\ task' = [task EXCEPT ![c].at = "inspect", ![c].holds = {}, ![c].tries = 0]
    /\ call' = [call EXCEPT ![c].outcome = Told("ambiguous", task[c].item)]
    /\ UNCHANGED accepted

\* The node returns the local signature, or anything else.
Answer(c) ==
    /\ Running(c, "answer")
    /\ \/ Accepted(c)
       \/ /\ task' = [task EXCEPT ![c].at = "status"]
          /\ UNCHANGED <<guarded, call, accepted>>
    /\ UNCHANGED <<preparing, appVars, nodeVars, sent, absent, panics>>

InBlock(e) == \E l \in landed : l.envelope = e

Attempts == 3

\* getSignatureStatuses after a send that did not return the signature.
Observe(c) ==
    /\ Running(c, "status")
    /\ \/ InBlock(Current(c)) /\ Accepted(c)
       \/ /\ task[c].tries < Attempts
          /\ task' = [task EXCEPT ![c].at = "expiry"]
          /\ UNCHANGED <<guarded, call, accepted>>
       \/ /\ task[c].tries = Attempts \/ Unavailable
          /\ RetainAmbiguity(c)
    /\ UNCHANGED <<preparing, appVars, nodeVars, sent, absent, panics>>

\* The same bytes go out again while the lifetime lasts.
Retry(c) ==
    /\ Running(c, "expiry")
    /\ \/ /\ height <= LastValid(c)
          /\ task' = [task EXCEPT ![c].at = "dispatch"]
          /\ UNCHANGED <<guarded, call, accepted>>
       \/ /\ height > LastValid(c) \/ Unavailable
          /\ RetainAmbiguity(c)
    /\ UNCHANGED <<preparing, appVars, nodeVars, sent, absent, panics>>
-----------------------------------------------------------------------------
(* Reconciler::resolve: inspect, and inspect again after a pause.          *)

\* Either kind of terminal evidence releases the guard of the source.
Resolve(c, present) ==
    /\ guarded' = guarded \ {Current(c).source}
    /\ accepted' = IF present THEN accepted \cup {Current(c)} ELSE accepted
    /\ absent' = IF present THEN absent ELSE absent \cup {Current(c)}
    /\ task' = [task EXCEPT ![c] = Finished]

Goes(c, at) ==
    /\ task' = [task EXCEPT ![c].at = at]
    /\ UNCHANGED <<guarded, accepted, absent>>

Pause(c) ==
    /\ task' = [task EXCEPT ![c].at = "pause", ![c].seen = 0, ![c].read = {}]
    /\ UNCHANGED <<guarded, accepted, absent>>

\* Present: the signature has a status, at whatever commitment.
InspectStatus(c) ==
    /\ Running(c, "inspect")
    /\ \/ InBlock(Current(c)) /\ Resolve(c, TRUE)
       \/ Goes(c, "mark")
    /\ UNCHANGED <<preparing, call, appVars, nodeVars, sent, panics>>

\* The checkpoint the scan has to keep to.
MarkCheckpoint(c) ==
    /\ Running(c, "mark")
    /\ \/ Unavailable /\ Pause(c)
       \/ /\ task' = [task EXCEPT ![c].at = "page", ![c].seen = checkpoint, ![c].read = {}]
          /\ UNCHANGED <<guarded, accepted, absent>>
    /\ UNCHANGED <<preparing, call, appVars, nodeVars, sent, panics>>

\* The indexed transactions of a source.
History(s) == {l \in landed : l.height <= checkpoint /\ l.envelope.source = s}

\* The pages that may follow a cursor behind which the entries of rest are: the
\* first of them in the order of the index.
NextPage(rest) ==
    {P \in SUBSET rest :
        /\ P = rest \/ Cardinality(P) = PageLimit
        /\ Cardinality(P) <= PageLimit
        /\ \A l \in P, m \in rest \ P : l.height <= m.height}

\* One page, which must belong to the marked checkpoint.
ScanPage(c) ==
    /\ Running(c, "page")
    /\ \/ (checkpoint # task[c].seen \/ Unavailable) /\ Pause(c)
       \/ /\ checkpoint = task[c].seen
          /\ LET rest == History(Current(c).source) \ task[c].read
             IN  \E page \in NextPage(rest) :
                    IF \E l \in page : l.envelope = Current(c)
                    THEN Resolve(c, TRUE)
                    ELSE IF page # rest
                    THEN /\ task' = [task EXCEPT ![c].read = @ \cup page]
                         /\ UNCHANGED <<guarded, accepted, absent>>
                    ELSE Goes(c, "recheck")
    /\ UNCHANGED <<preparing, call, appVars, nodeVars, sent, panics>>

\* The traversal counts only if the checkpoint did not move meanwhile.
Recheck(c) ==
    /\ Running(c, "recheck")
    /\ \/ checkpoint = task[c].seen /\ Goes(c, "verdict")
       \/ (checkpoint # task[c].seen \/ Unavailable) /\ Pause(c)
    /\ UNCHANGED <<preparing, call, appVars, nodeVars, sent, panics>>

\* Variant of ProvenAbsent: the index may lag behind the lifetime.
ProvenAbsentByExpiry(c) == height > LastValid(c)

\* The lifetime is over, and the index has seen all of it.
ProvenAbsent(c) == height > LastValid(c) /\ task[c].seen >= LastValid(c)

Verdict(c) ==
    /\ Running(c, "verdict")
    /\ \/ ProvenAbsent(c) /\ Resolve(c, FALSE)
       \/ (~ProvenAbsent(c) \/ Unavailable) /\ Pause(c)
    /\ UNCHANGED <<preparing, call, appVars, nodeVars, sent, panics>>

\* The delay is over, or the index announced a checkpoint.
Resume(c) ==
    /\ Running(c, "pause")
    /\ Goes(c, "inspect")
    /\ UNCHANGED <<preparing, call, appVars, nodeVars, sent, panics>>

-----------------------------------------------------------------------------
(* Supervisor::run.                                                        *)

Live(c) == task[c].at \notin {"none", "queued", "finished", "gone", "panicked"}

\* Insert: the task is in the set before its registration is acknowledged.
TakeInsert ==
    /\ supervisor = "running" /\ queue # <<>> /\ Head(queue) # Close
    /\ queue' = Tail(queue)
    /\ task' = [task EXCEPT ![Head(queue)].at = "dormant"]
    /\ UNCHANGED <<sourceVars, call, supervisor, stage, sync, nodeVars, sent, accepted, absent, panics>>

\* The tasks in C are dropped where they are, with the guards they hold.  A task is cut
\* at an await; a poll that an abort finds running comes before it here.
DropTasks(C) ==
    /\ guarded' = guarded \ UNION {task[c].holds : c \in C}
    /\ task' = [c \in Caller |-> IF c \in C THEN Dropped ELSE task[c]]

Queued == {c \in Caller : \E i \in DOMAIN queue : queue[i] = c}

\* Close: later sends fail, and what is still queued is dropped.
TakeClose ==
    /\ supervisor = "running" /\ queue # <<>> /\ Head(queue) = Close
    /\ supervisor' = "draining"
    /\ queue' = <<>>
    /\ DropTasks(Queued)
    /\ UNCHANGED <<preparing, call, stage, sync, nodeVars, sent, accepted, absent, panics>>

\* A fault: the task unwinds, dropping what it holds.
Panic(c) ==
    /\ Live(c) /\ supervisor \in {"running", "draining"}
    /\ panics < MaxPanics
    /\ panics' = panics + 1
    /\ guarded' = guarded \ task[c].holds
    /\ task' = [task EXCEPT ![c].at = "panicked", ![c].holds = {}]
    /\ UNCHANGED <<preparing, call, appVars, nodeVars, sent, accepted, absent>>

\* join_next reports the panic and run returns early: the set aborts every
\* task that is left and the receiver drops every command.
SupervisorFails ==
    /\ \E c \in Caller : task[c].at = "panicked"
    /\ supervisor = "running" => queue = <<>>
    /\ supervisor \in {"running", "draining"}
    /\ supervisor' = "failed"
    /\ queue' = <<>>
    /\ DropTasks({c \in Caller : Live(c) \/ task[c].at = "panicked"} \cup Queued)
    /\ UNCHANGED <<preparing, call, stage, sync, nodeVars, sent, accepted, absent, panics>>

\* Variant of SupervisorEnds: the set is not joined.
SupervisorEndsAtOnce ==
    /\ supervisor = "draining"
    /\ supervisor' = "ended"
    /\ UNCHANGED <<sourceVars, call, task, queue, stage, sync, nodeVars, sent, accepted, absent, panics>>

\* Every task of the set was joined.
SupervisorEnds ==
    /\ supervisor = "draining"
    /\ \A c \in Caller : ~Live(c) /\ task[c].at # "panicked"
    /\ supervisor' = "ended"
    /\ UNCHANGED <<sourceVars, call, task, queue, stage, sync, nodeVars, sent, accepted, absent, panics>>

-----------------------------------------------------------------------------
(* main: serving and the ordered shutdown.                                 *)

\* Serving; admission stopped; the registrar told to close, and closed; the
\* handlers drained; the submissions drained; indexing stopped.
Stages == <<"serving", "stopping", "closing", "closed", "handled", "drained", "stopped">>

Reached(s) == \E i, j \in DOMAIN Stages : Stages[i] = s /\ Stages[j] = stage /\ i <= j

Advance(from, to) == stage = from /\ stage' = to

\* A signal arrives, or a supervised task ends: readiness is withdrawn and
\* the listener stops.
StopAdmission ==
    /\ MayStop
    /\ Advance("serving", "stopping")
    /\ UNCHANGED <<sourceVars, call, task, queue, supervisor, sync, nodeVars, sent, accepted, absent, panics>>

\* Control::close, unless supervision already ended.
CloseRegistrar ==
    /\ \/ /\ Accepting /\ Len(queue) < Capacity
          /\ Advance("stopping", "closing")
          /\ queue' = Append(queue, Close)
       \/ /\ ~Accepting
          /\ stage \in {"stopping", "closing"}
          /\ stage' = "closed"
          /\ UNCHANGED queue
    /\ UNCHANGED <<sourceVars, call, task, supervisor, sync, nodeVars, sent, accepted, absent, panics>>

HandlersDone == \A c \in Caller : call[c].at \in {"new", "done", "gone"}

DrainHandlers ==
    /\ HandlersDone
    /\ Advance("closed", "handled")
    /\ UNCHANGED <<sourceVars, call, task, queue, supervisor, sync, nodeVars, sent, accepted, absent, panics>>

DrainSubmissions ==
    /\ supervisor \in {"ended", "failed"}
    /\ Advance("handled", "drained")
    /\ UNCHANGED <<sourceVars, call, task, queue, supervisor, sync, nodeVars, sent, accepted, absent, panics>>

StopIndexing ==
    /\ Advance("drained", "stopped")
    /\ sync' = IF sync = "running" THEN "stopped" ELSE sync
    /\ UNCHANGED <<sourceVars, call, task, queue, supervisor, nodeVars, sent, accepted, absent, panics>>

-----------------------------------------------------------------------------
(* The node and the index.                                                 *)

\* The node produces a block with any of the envelopes still valid in it.
Produce ==
    /\ height < MaxHeight
    /\ height' = height + 1
    /\ \E S \in SUBSET {e \in sent : ~InBlock(e) /\ e.until > height} :
          landed' = landed \cup {[envelope |-> e, height |-> height + 1] : e \in S}
    /\ UNCHANGED <<sourceVars, call, task, appVars, checkpoint, sent, accepted, absent, panics>>

\* Synchronization commits the next finalized block.
IndexBlock ==
    /\ sync = "running" /\ checkpoint < height
    /\ checkpoint' = checkpoint + 1
    /\ UNCHANGED <<sourceVars, call, task, appVars, height, landed, sent, accepted, absent, panics>>

\* Synchronization ends with a fatal error.
IndexerFails ==
    /\ Unavailable /\ sync = "running"
    /\ sync' = "fatal"
    /\ UNCHANGED <<sourceVars, call, task, queue, supervisor, stage, nodeVars, sent, accepted, absent, panics>>

HandlerStep(c) ==
    \/ PreparationFails(c) \/ Prepared(c) \/ Submit(c) \/ Enqueue(c)
    \/ RegistrationFails(c) \/ Activate(c) \/ Deliver(c)

TaskStep(c) ==
    \/ Begin(c) \/ CheckLifetime(c) \/ Dispatch(c) \/ Answer(c) \/ Observe(c) \/ Retry(c)
    \/ InspectStatus(c) \/ MarkCheckpoint(c) \/ ScanPage(c) \/ Recheck(c) \/ Verdict(c)
    \/ Resume(c)

SupervisorStep == TakeInsert \/ TakeClose \/ SupervisorFails \/ SupervisorEnds

MainStep == CloseRegistrar \/ DrainHandlers \/ DrainSubmissions \/ StopIndexing

\* The process returned, or it serves and every send of the instance is over.
Rest ==
    /\ \/ stage = "stopped"
       \/ stage = "serving" /\ ~MayStop /\ \A c \in Caller : call[c].at \in {"done", "gone"}
    /\ UNCHANGED vars

Next ==
    \/ \E c \in Caller : \E job \in Jobs[c] : Lease(c, job)
    \/ \E c \in Caller : HandlerStep(c) \/ TaskStep(c) \/ Disconnect(c) \/ Panic(c)
    \/ SupervisorStep \/ StopAdmission \/ MainStep
    \/ Produce \/ IndexBlock \/ IndexerFails
    \/ Rest

Spec == Init /\ [][Next]_vars

-----------------------------------------------------------------------------

Phases == {"new", "prepare", "prepared", "send", "ack", "wait", "done", "gone"}
TaskPhases == {"none", "queued", "dormant", "check", "dispatch", "answer", "status", "expiry",
               "inspect", "mark", "page", "recheck", "verdict", "pause",
               "finished", "gone", "panicked"}
Envelope == [of : Caller, item : Nat, source : Source, until : 0..MaxHeight]
Handler == [at : Phases, job : Seq(Source), until : 0..MaxHeight, outcome : Outcome]
SubmissionTask ==
    [at : TaskPhases, holds : SUBSET Source, activation : {"held", "started", "dropped"},
     item : Nat, tries : 0..3, seen : 0..MaxHeight, read : SUBSET landed]

TypeOK ==
    /\ preparing \subseteq Source /\ guarded \subseteq Source
    /\ call \in [Caller -> Handler] /\ task \in [Caller -> SubmissionTask]
    /\ queue \in Seq(Caller \cup {Close}) /\ Len(queue) <= Capacity
    /\ supervisor \in {"running", "draining", "ended", "failed"}
    /\ stage \in {Stages[i] : i \in DOMAIN Stages}
    /\ sync \in {"running", "fatal", "stopped"}
    /\ checkpoint \in 0..height /\ height \in 0..MaxHeight
    /\ sent \subseteq Envelope /\ settled \subseteq sent
    /\ landed \subseteq [envelope : sent, height : 1..height]
    /\ panics \in 0..MaxPanics

\* The sources a send owns: leased, held by its task, or retained for the
\* envelope its task reconciles.
Reconciling(c) == task[c].at \in {"inspect", "mark", "page", "recheck", "verdict", "pause"}

Owns(c) ==
    (IF Leased(c) THEN Sources(c) ELSE {}) \cup task[c].holds
        \cup (IF Reconciling(c) THEN {Current(c).source} ELSE {})

\* A source has at most one owner, and what the coordinator's two sets hold
\* is exactly what the sends own: no lease or guard is ever leaked by a
\* dropped handler, a closed registrar or an aborted task, and none is
\* released by a send that does not own it.  (A reconciliation that the
\* supervisor aborted leaves its source guarded.)
OneOwner ==
    /\ \A c, d \in Caller : c # d => Owns(c) \cap Owns(d) = {}
    /\ preparing = UNION {Sources(c) : c \in {d \in Caller : Leased(d)}}
    /\ panics = 0 => guarded = (UNION {Owns(c) : c \in Caller}) \ preparing

\* An envelope that may still land keeps its source out of reach: of the
\* envelopes of a source that went out, at most one has an unknown outcome,
\* and while it is unknown the source is guarded.
OneOpenEnvelope ==
    panics = 0 => \A e \in sent \ settled :
        /\ e.source \in guarded
        /\ \A f \in sent \ settled : e.source = f.source => e = f

\* Absence is final: an envelope is given up only when no block will ever
\* hold it.
GivenUpNeverLands ==
    \A e \in absent : ~InBlock(e) /\ height >= e.until

\* What a handler is told: a definite failure, a busy source or a failed
\* registration means that neither the named envelope nor a later one of
\* the batch was ever on the wire; the ones before it were accepted.  (Only
\* a panic loses the result of a task that already dispatched.)
DefiniteMeansUnsent ==
    \A c \in Caller : \A e \in sent :
        /\ e.of = c
        /\ call[c].outcome.kind \in {"definite", "busy", "unavailable"}
        /\ panics = 0
        => call[c].outcome.kind = "definite" /\ e.item < call[c].outcome.item
             /\ e \in settled

\* What leaves the process, leaves it from a task that the supervisor owns.
SupervisedStep ==
    sent' # sent => supervisor \in {"running", "draining"} /\ ~Reached("drained")

\* Nothing is dispatched that the application does not supervise, and after
\* it drained its submissions nothing is left that could be.
SupervisedDispatch == [][SupervisedStep]_vars

\* Synchronization is stopped, by the shutdown, only when every guard was
\* resolved and every handler was answered.
IndexOutlivesGuards ==
    sync = "stopped" =>
        /\ HandlersDone
        /\ supervisor # "failed" => guarded = {} /\ preparing = {} /\ sent = settled

\* Sends are safe: sources with one owner and one open envelope, no envelope given up
\* that lands, failures that say what was sent, and a shutdown that leaves nothing.
SendsAreSafe ==
    /\ OneOwner /\ OneOpenEnvelope /\ GivenUpNeverLands
    /\ DefiniteMeansUnsent /\ IndexOutlivesGuards

-----------------------------------------------------------------------------

\* The runtime polls every future that can go on; the node goes on
\* producing blocks, and synchronization goes on while it runs.
Fairness ==
    /\ \A c \in Caller : WF_vars(HandlerStep(c)) /\ WF_vars(TaskStep(c))
    /\ WF_vars(SupervisorStep) /\ WF_vars(MainStep)
    /\ WF_vars(Produce) /\ WF_vars(IndexBlock)

LiveSpec == Spec /\ Fairness

\* With a node and an index that answer, every shutdown that was asked for
\* ends, whatever was in flight.
Stopping == stage \notin {"serving", "stopped"}

=============================================================================
