------------------------------ MODULE Composer ------------------------------
(***************************************************************************)
(* Several chains behind one loop.  The composer lets the services of its  *)
(* scopes synchronize one after the other, each reading the shared         *)
(* selection of addresses for itself; the loop of the runtime turns what   *)
(* a pass reports into the state that readiness is made of, and retries.   *)
(* Addresses are published and blocks produced meanwhile.                  *)
(*                                                                         *)
(* Of a service only what the composer can see is here: it observes its    *)
(* tip, then plans, then applies a batch of blocks under the revision of   *)
(* its plan.  How it does so is the subject of Indexing.                   *)
(*                                                                         *)
(* A publication reads the checkpoint and only then asks for its permit.   *)
(* Blocks that are applied in between lie at or above the start of the     *)
(* wallet and are not scanned for it: the gap that Indexing shows.         *)
(***************************************************************************)
EXTENDS Integers, Sequences, SequencesExt, FiniteSets, FiniteSetsExt

CONSTANTS
    None,
    Compositions,   \* lists of scopes the composer may be made of
    Scope,          \* all scopes an address may be in
    Address,        \* addresses: Address \subseteq [name, scope]
    Batch,          \* batch_size of every service
    MaxHeight,      \* bound: last block of every chain
    MaxFails        \* bound: failures of sources and stores

VARIABLES
    scopes,       \* the composer's, <<>> when it was refused
    tip,          \* tip[s]: position of the last block of the chain
    checkpoint,   \* checkpoint[s]: position of the last block applied
    revision,     \* revision[s] of the scope's admission
    asking,       \* publications that have read the checkpoint: [address, start]
    selection,    \* published filters, with the checkpoint they were published at: [address, start, since]
    scanned,      \* <<address, position>>: inspected for the address
    pass,         \* the pass under way
    sync,         \* what the runtime published last: a SyncState
    fails         \* number of failures

vars == <<scopes, tip, checkpoint, revision, asking, selection, scanned, pass, sync, fails>>

Resting == [at |-> "rest", i |-> 0, observed |-> 0, filters |-> {}, revision |-> 0, todo |-> 0, statuses |-> <<>>]
Ended(at) == [Resting EXCEPT !.at = at]

-----------------------------------------------------------------------------
\* The composer.

\* Composer::new refuses an empty list and a scope that two indexers have.
Composes(list) == list # <<>> /\ IsInjective(list)

\* Composer::indexer.
Routed(s) == s \in ToSet(scopes)

\* Composer::checkpoint, to the service and its index.
CheckpointOf(s) == checkpoint[s]

\* Composer::validate_selection.
ValidSelection ==
    /\ \A f \in selection : Routed(f.address.scope) /\ f.address.name # ""
    /\ \A f, g \in selection : f.address = g.address => f = g

\* Scoped::filters and Scoped::plan: the selection as it is now, of one scope.
Narrowed(s) == {f \in selection : f.address.scope = s}

-----------------------------------------------------------------------------
\* A pass.

Here == scopes[pass.i]

\* Composer::sync begins with the whole selection.
Begin ==
    /\ pass.at = "rest"
    /\ IF ValidSelection
       THEN pass' = [Resting EXCEPT !.at = "tip", !.i = 1] /\ UNCHANGED sync
       ELSE pass' = Ended("stopped") /\ sync' = "Retrying"
    /\ UNCHANGED <<scopes, tip, checkpoint, revision, asking, selection, scanned, fails>>

\* Synchronizer::sync validates what it is given, and asks the source for its tip.
ObserveTip ==
    /\ pass.at = "tip"
    /\ IF \A f \in Narrowed(Here) : f.address.scope = Here
       THEN pass' = [pass EXCEPT !.at = "plan", !.observed = tip[Here]] /\ UNCHANGED sync
       ELSE pass' = Ended("stopped") /\ sync' = "Retrying"
    /\ UNCHANGED <<scopes, tip, checkpoint, revision, asking, selection, scanned, fails>>

MakePlan ==
    /\ pass.at = "plan"
    /\ pass' = [pass EXCEPT !.at = "apply", !.filters = Narrowed(Here), !.revision = revision[Here], !.todo = Batch]
    /\ UNCHANGED <<scopes, tip, checkpoint, revision, asking, selection, scanned, sync, fails>>

\* Variant of PlanHolds that commits with the filters of any time.
PlanHoldsAlways == TRUE

\* ScopeAdmission::begin: no address was published since the filters were captured.
PlanHolds == revision[Here] = pass.revision

\* One block of the batch; a plan whose revision has passed is refused, which is
\* a retryable conflict.
Apply ==
    /\ pass.at = "apply" /\ pass.todo > 0 /\ checkpoint[Here] < pass.observed
    /\ IF ~PlanHolds
       THEN /\ pass' = Ended("wait") /\ sync' = "Retrying"
            /\ UNCHANGED <<checkpoint, scanned>>
       ELSE LET p == checkpoint[Here] + 1
            IN  /\ checkpoint' = [checkpoint EXCEPT ![Here] = p]
                /\ scanned' = scanned \cup {<<f.address, p>> : f \in {f \in pass.filters : f.start <= p}}
                /\ pass' = [pass EXCEPT !.todo = @ - 1]
                /\ UNCHANGED sync
    /\ UNCHANGED <<scopes, tip, revision, asking, selection, fails>>

\* The status of the service, and on to the next one.
Report ==
    /\ pass.at = "apply" /\ (pass.todo = 0 \/ checkpoint[Here] >= pass.observed)
    /\ LET phase == IF checkpoint[Here] >= pass.observed THEN "Ready" ELSE "CatchingUp"
           statuses == Append(pass.statuses, [scope |-> Here, phase |-> phase, observed |-> pass.observed,
                                              checkpoint |-> checkpoint[Here]])
       IN  pass' = [pass EXCEPT !.at = IF pass.i = Len(scopes) THEN "done" ELSE "tip", !.i = @ + 1, !.statuses = statuses]
    /\ UNCHANGED <<scopes, tip, checkpoint, revision, asking, selection, scanned, sync, fails>>

\* Variant of FromStatuses that is ready with the last chain.
FromStatusesLast(statuses) == Last(statuses).phase

\* SyncState::from_statuses.
FromStatuses(statuses) ==
    IF \/ Len(statuses) # Len(scopes)
       \/ \E s \in ToSet(scopes) : Cardinality({i \in DOMAIN statuses : statuses[i].scope = s}) # 1
       \/ \E i \in DOMAIN statuses : statuses[i].phase = "Ready" /\ statuses[i].checkpoint = None THEN None
    ELSE IF \A i \in DOMAIN statuses : statuses[i].phase = "Ready" THEN "Ready" ELSE "CatchingUp"

PublishState ==
    /\ pass.at = "done"
    /\ LET next == FromStatuses(pass.statuses)
       IN  /\ sync' = IF next = None THEN "Retrying" ELSE next
           /\ pass' = IF next = None THEN Ended("stopped") ELSE IF next = "CatchingUp" THEN Resting ELSE Ended("wait")
    /\ UNCHANGED <<scopes, tip, checkpoint, revision, asking, selection, scanned, fails>>

Wake ==
    /\ pass.at = "wait"
    /\ pass' = Resting
    /\ UNCHANGED <<scopes, tip, checkpoint, revision, asking, selection, scanned, sync, fails>>

\* Where the loop goes with a retryable error.
Refused == "wait"

\* The source or the store of a service fails; the services after it have no turn.
Fail ==
    /\ pass.at \in {"tip", "plan", "apply"} /\ fails < MaxFails
    /\ fails' = fails + 1
    /\ pass' = Ended(Refused)
    /\ sync' = "Retrying"
    /\ UNCHANGED <<scopes, tip, checkpoint, revision, asking, selection, scanned>>

\* The flag is seen between passes, and cancels one at any of its awaits.
Shutdown ==
    /\ pass.at \notin {"stopped", "shut"}
    /\ pass' = Ended("shut")
    /\ UNCHANGED <<scopes, tip, checkpoint, revision, asking, selection, scanned, sync, fails>>

-----------------------------------------------------------------------------
\* Meanwhile.

Grow(s) ==
    /\ Routed(s) /\ tip[s] < MaxHeight
    /\ tip' = [tip EXCEPT ![s] = @ + 1]
    /\ UNCHANGED <<scopes, checkpoint, revision, asking, selection, scanned, pass, sync, fails>>

\* Wallets::store of a generated wallet reads the checkpoint of its scope.
ReadCheckpoint(a) ==
    /\ Routed(a.scope) /\ a \notin {f.address : f \in asking \cup selection}
    /\ asking' = asking \cup {[address |-> a, start |-> CheckpointOf(a.scope) + 1]}
    /\ UNCHANGED <<scopes, tip, checkpoint, revision, selection, scanned, pass, sync, fails>>

\* The permit is granted and the wallet inserted, which no commit of the scope overlaps.  A
\* publication that had to wait for a commit starts from the checkpoint of that commit, any
\* other from the checkpoint it read.
Admit(f, waited) ==
    /\ f \in asking
    /\ LET s == f.address.scope
           start == IF waited THEN CheckpointOf(s) + 1 ELSE f.start
       IN  /\ selection' = selection \cup {[address |-> f.address, start |-> start, since |-> checkpoint[s]]}
           /\ revision' = [revision EXCEPT ![s] = @ + 1]
    /\ asking' = asking \ {f}
    /\ UNCHANGED <<scopes, tip, checkpoint, scanned, pass, sync, fails>>

Init ==
    \E list \in Compositions : \E given \in SUBSET {a \in Address : a.scope \notin ToSet(list)} :
        /\ scopes = IF Composes(list) THEN list ELSE <<>>
        /\ tip = [s \in Scope |-> 1] /\ checkpoint = [s \in Scope |-> 0] /\ revision = [s \in Scope |-> 0]
        /\ asking = {} /\ selection = {[address |-> a, start |-> 0, since |-> 0] : a \in given}
        /\ scanned = {} /\ fails = 0
        /\ pass = IF Composes(list) THEN Resting ELSE Ended("refused")
        /\ sync = "CatchingUp"

Step == Begin \/ ObserveTip \/ MakePlan \/ Apply \/ Report \/ PublishState \/ Wake
Over == pass.at \in {"stopped", "shut", "refused"} /\ UNCHANGED vars

Next ==
    \/ Step
    \/ Fail
    \/ Shutdown
    \/ Over
    \/ \E s \in Scope : Grow(s)
    \/ \E a \in Address : ReadCheckpoint(a)
    \/ \E f \in asking, waited \in BOOLEAN : Admit(f, waited)

\* The runtime polls its loop for as long as it runs; sources fail finitely often.
Spec == Init /\ [][Next]_vars /\ WF_vars(Step)

-----------------------------------------------------------------------------

\* Every block applied since an address was published, from its start on, was inspected
\* for it, whatever was published between the begin of the pass, the observation of the
\* tip, the plan of its service and the blocks of the batch.  Blocks that were applied
\* while the publication waited for its permit are not spoken of.
NothingSkipped ==
    \A f \in selection : Routed(f.address.scope) =>
        \A p \in Max({f.start, f.since + 1})..checkpoint[f.address.scope] : <<f.address, p>> \in scanned

\* The loop ends with an error for a selection that names a scope nobody indexes and
\* for nothing else: addresses of one chain never make the service of another fail.
OnlyBadSelectionStops ==
    pass.at = "stopped" => \E f \in selection : ~Routed(f.address.scope)

\* Readiness is published after a pass in which every scope has reached a tip that it
\* observed in this very pass.
ReadyIsTrue ==
    PublishState /\ sync' = "Ready" =>
        \A s \in ToSet(scopes) : \E i \in DOMAIN pass.statuses :
            pass.statuses[i].scope = s /\ pass.statuses[i].observed <= checkpoint[s]

\* With finitely many failures all chains catch up and the loop says so, unless it is
\* shut down or was never good: retryable failures of one chain delay the chains
\* behind it, and end nothing.
CaughtUp ==
    \/ pass.at \in {"shut", "refused"}
    \/ \E f \in selection : ~Routed(f.address.scope)
    \/ sync = "Ready" /\ \A s \in ToSet(scopes) : checkpoint[s] = tip[s]

CatchesUp == <>CaughtUp
=============================================================================
