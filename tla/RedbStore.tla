----------------------------- MODULE RedbStore -----------------------------
(***************************************************************************)
(* The redb store (packages/storage/redb/src): one owner thread holds the  *)
(* database file and serves a bounded queue of commands; callers wait for  *)
(* a reply or give up.  An I/O failure closes the handle, which is opened  *)
(* again before it is used; a failed commit may be durable and is never    *)
(* replayed.  The process may crash at any time.                           *)
(*                                                                         *)
(* Callers read a record and then commit a put or a delete on condition    *)
(* that the record is as they read it, the way the index repository does.  *)
(***************************************************************************)
EXTENDS Integers, Sequences, FiniteSets

CONSTANTS
    Client, Key,
    None,              \* Option::None, a missing record
    Capacity,          \* command_queue_capacity
    MaxCommits,        \* bound: MaxCommits[c] commits are tried by client c
    MaxFaults,         \* bound: I/O failures
    MaxCrashes,        \* bound: crashes of the process
    MaxVersion         \* u64::MAX of the global version

ASSUME CapacityPositive == Capacity \in Nat \ {0}
ASSUME NoneIsNoRecord == None \notin [value : Client \X Nat, version : Nat]
ASSUME NoneIsNoCaller == None \notin Client \cup (Client \X Nat)
ASSUME NoneIsNoReply == None \notin {"unavailable", "conflict", "exhausted", "ok"}
ASSUME BoundsAreNumbers ==
    /\ MaxCommits \in [Client -> Nat]
    /\ MaxFaults \in Nat /\ MaxCrashes \in Nat /\ MaxVersion \in Nat

VARIABLES
    file,      \* "missing", "blank" (no format marker) or "ready"
    data,      \* DATA_TABLE: the version and value of each record
    version,   \* GLOBAL_VERSION_KEY
    process,   \* "down", "creating", "up" or "closing" (the last handle is gone)
    db,        \* Backend::db: "open" or "closed"
    queue,     \* the command channel
    client,    \* what each caller does
    faults, crashes,
    log        \* auxiliary: the commits that took effect, in order

vars == <<file, data, version, process, db, queue, client, faults, crashes, log>>

\* A caller: the record it read (seen: its version, base: the commits before it),
\* the commit it tries, the reply it got and the I/O failures behind that reply.
Idle == [pc |-> "idle", tries |-> 0, key |-> None, seen |-> None, base |-> 0,
         id |-> None, reply |-> None, met |-> 0]

Rest(c) == [Idle EXCEPT !.tries = client[c].tries]

Init ==
    /\ file = "missing"
    /\ data = [k \in Key |-> None]
    /\ version = 0
    /\ process = "down"
    /\ db = "closed"
    /\ queue = <<>>
    /\ client = [c \in Client |-> Idle]
    /\ faults = 0
    /\ crashes = 0
    /\ log = <<>>

-----------------------------------------------------------------------------
(* Opening and closing.                                                    *)

\* DatabasePath::validate finds no file or an empty one: redb creates it.
CreateFile ==
    /\ process = "down"
    /\ file = "missing"
    /\ file' = "blank"
    /\ process' = "creating"
    /\ UNCHANGED <<data, version, db, queue, client, faults, crashes, log>>

\* open reports the handle: the owner thread has opened the file and takes commands.
OwnerStarts == process' = "up" /\ db' = "open"

\* initialize_format commits the tables and the marker.
InitializeFormat ==
    /\ process = "creating"
    /\ file' = "ready"
    /\ OwnerStarts
    /\ UNCHANGED <<data, version, queue, client, faults, crashes, log>>

\* require_format: the file has the marker.
HasFormat == file = "ready"

\* global_version: the file has records only together with a version.
HasVersion == version = 0 => \A k \in Key : data[k] = None

OpenFile ==
    /\ process = "down"
    /\ file # "missing"
    /\ HasFormat /\ HasVersion
    /\ OwnerStarts
    /\ UNCHANGED <<file, data, version, queue, client, faults, crashes, log>>

Waiting(c) == client[c].pc = "waiting"

\* The last handle is dropped.  No caller waits, but commands whose callers gave
\* up may still be queued.
DropHandle ==
    /\ process = "up"
    /\ \A c \in Client : ~Waiting(c)
    /\ process' = "closing"
    /\ UNCHANGED <<file, data, version, db, queue, client, faults, crashes, log>>

\* Variant that stops as soon as the handle is gone.
JoinAtOnce ==
    /\ process = "closing"
    /\ process' = "down"
    /\ db' = "closed"
    /\ queue' = <<>>
    /\ client' = [c \in Client |-> Rest(c)]
    /\ UNCHANGED <<file, data, version, faults, crashes, log>>

\* The channel is closed and drained: the owner thread returns, drop joins it.
JoinOwner ==
    /\ process = "closing"
    /\ queue = <<>>
    /\ process' = "down"
    /\ db' = "closed"
    /\ client' = [c \in Client |-> Rest(c)]
    /\ UNCHANGED <<file, data, version, queue, faults, crashes, log>>

\* What was committed is on disk (Durability::Immediate), the rest is gone.
Crash ==
    /\ process # "down"
    /\ crashes < MaxCrashes
    /\ crashes' = crashes + 1
    /\ process' = "down"
    /\ db' = "closed"
    /\ queue' = <<>>
    /\ client' = [c \in Client |-> Rest(c)]
    /\ UNCHANGED <<file, data, version, faults, log>>

-----------------------------------------------------------------------------
(* Callers.                                                                *)

\* The command is accepted: the channel has room.
Accept(command) == Len(queue) < Capacity /\ queue' = Append(queue, command)

SubmitGet(c, k) ==
    /\ process = "up"
    /\ client[c].pc = "idle"
    /\ client[c].tries < MaxCommits[c]
    /\ Accept([client |-> c, id |-> None, key |-> k])
    /\ client' = [client EXCEPT ![c].pc = "waiting", ![c].key = k]
    /\ UNCHANGED <<file, data, version, process, db, faults, crashes, log>>

\* A batch: the record is as it was read (Condition), then a put or a delete.
SubmitCommit(c, delete) ==
    LET id == <<c, client[c].tries>>
    IN  /\ process = "up"
        /\ client[c].pc = "read"
        /\ Accept([client |-> c, id |-> id, key |-> client[c].key, seen |-> client[c].seen,
                   base |-> client[c].base, delete |-> delete])
        /\ client' = [client EXCEPT ![c].pc = "waiting", ![c].id = id, ![c].tries = @ + 1]
        /\ UNCHANGED <<file, data, version, process, db, faults, crashes, log>>

\* The caller's future is dropped after the command was accepted: the command
\* stays, its reply has no receiver.
GiveUp(c) ==
    /\ Waiting(c)
    /\ client' = [client EXCEPT ![c] = Rest(c)]
    /\ queue' = [i \in DOMAIN queue |->
          IF queue[i].client = c THEN [queue[i] EXCEPT !.client = None] ELSE queue[i]]
    /\ UNCHANGED <<file, data, version, process, db, faults, crashes, log>>

\* The caller has used its reply and starts again.
Forget(c) ==
    /\ client[c].pc \in {"read", "told"}
    /\ client' = [client EXCEPT ![c] = Rest(c)]
    /\ UNCHANGED <<file, data, version, process, db, queue, faults, crashes, log>>

-----------------------------------------------------------------------------
(* The owner thread.                                                       *)

\* ensure_open: how the handle is, and how many I/O failures it took.
EnsureOpen ==
    IF db = "open" THEN {[used |-> 0, db |-> "open"]}
    ELSE {[used |-> 0, db |-> "open"], [used |-> 1, db |-> "closed"]}

Reopen == {[used |-> 0, db |-> "open"], [used |-> 1, db |-> "closed"]}

\* read_with_reopen: a failed read is tried once more on a fresh handle.
ReadOutcome ==
    LET failed == [ok |-> FALSE, db |-> "closed"]
        read == [ok |-> TRUE, db |-> "open"]
        Took(n, o) == [ok |-> o.ok, db |-> o.db, used |-> n]
    IN  UNION {IF h.db = "closed" THEN {Took(h.used, failed)}
               ELSE {Took(h.used, read), Took(h.used + 1, read), Took(h.used + 2, failed)}
               : h \in EnsureOpen}

\* commit: fails before anything is written, or with an unknown outcome; the
\* handle is opened again, the batch is not tried again.
CommitOutcome ==
    UNION {IF h.db = "closed"
           THEN {[used |-> h.used, db |-> "closed", ok |-> FALSE, durable |-> FALSE]}
           ELSE {[used |-> h.used, db |-> "open", ok |-> TRUE, durable |-> TRUE]}
                \cup {[used |-> h.used + 1 + r.used, db |-> r.db, ok |-> FALSE, durable |-> d] :
                         r \in Reopen, d \in BOOLEAN}
           : h \in EnsureOpen}

\* evaluate_condition
Holds(command) ==
    IF command.seen = None THEN data[command.key] = None
    ELSE data[command.key] # None /\ data[command.key].version = command.seen

NextVersion(k) == version + 1

\* Variant that forgets the global version.
ApplyData(command) ==
    /\ data' = [data EXCEPT ![command.key] =
          IF command.delete THEN None ELSE [value |-> command.id, version |-> version + 1]]
    /\ version' = version
    /\ log' = log

\* commit_once: the operation and the new global version, in one transaction.
Apply(command) ==
    /\ data' = [data EXCEPT ![command.key] =
          IF command.delete THEN None
          ELSE [value |-> command.id, version |-> NextVersion(command.key)]]
    /\ version' = version + 1
    /\ log' = Append(log, [id |-> command.id, key |-> command.key, base |-> command.base,
                          seen |-> command.seen, delete |-> command.delete])

Serves == queue # <<>> /\ process \in {"up", "closing"}

\* The handle after the command, and its reply to a caller that still waits.
Finish(outcome, answer) ==
    LET c == Head(queue).client
    IN  /\ faults + outcome.used <= MaxFaults
        /\ faults' = faults + outcome.used
        /\ db' = outcome.db
        /\ client' = IF c = None THEN client
                     ELSE [client EXCEPT ![c] = [answer EXCEPT !.met = outcome.used]]
        /\ queue' = Tail(queue)
        /\ UNCHANGED <<file, process, crashes>>

Told(c, reply) == IF c = None THEN None ELSE [client[c] EXCEPT !.pc = "told", !.reply = reply]

ServeGet ==
    /\ Serves
    /\ LET command == Head(queue)
           c == command.client
       IN  /\ command.id = None
           /\ \E o \in ReadOutcome :
                 Finish(o, IF c = None \/ ~o.ok THEN Told(c, "unavailable")
                           ELSE [client[c] EXCEPT !.pc = "read", !.base = Len(log),
                                   !.seen = IF data[command.key] = None THEN None
                                            ELSE data[command.key].version])
    /\ UNCHANGED <<data, version, log>>

\* Variant that answers a failed commit as if nothing had been written.
Refused(outcome, command) ==
    IF ~outcome.ok THEN "conflict"
    ELSE IF ~Holds(command) THEN "conflict"
    ELSE IF version = MaxVersion THEN "exhausted" ELSE "ok"

CommitReply(outcome, command) ==
    IF ~outcome.ok THEN "unavailable"
    ELSE IF ~Holds(command) THEN "conflict"
    ELSE IF version = MaxVersion THEN "exhausted" ELSE "ok"

ServeCommit ==
    /\ Serves
    /\ LET command == Head(queue)
       IN  /\ command.id # None
           /\ \E o \in CommitOutcome :
                 /\ IF o.durable /\ Holds(command) /\ version < MaxVersion
                    THEN Apply(command)
                    ELSE UNCHANGED <<data, version, log>>
                 /\ Finish(o, Told(command.client, CommitReply(o, command)))

-----------------------------------------------------------------------------

Next ==
    \/ CreateFile \/ InitializeFormat \/ OpenFile
    \/ DropHandle \/ JoinOwner \/ Crash
    \/ \E c \in Client :
          \/ \E k \in Key : SubmitGet(c, k)
          \/ \E delete \in BOOLEAN : SubmitCommit(c, delete)
          \/ GiveUp(c) \/ Forget(c)
    \/ ServeGet \/ ServeCommit

Spec == Init /\ [][Next]_vars

\* The owner thread runs while there are commands, and returns after the last of them.
FairSpec == Spec /\ WF_vars(ServeGet) /\ WF_vars(ServeCommit) /\ WF_vars(JoinOwner)

-----------------------------------------------------------------------------
(* Properties.                                                             *)

Id == UNION {{c} \X (0..MaxCommits[c]) : c \in Client}
Record == [value : Id, version : 1..MaxVersion]

\* Every variable holds a value of its type, and the queue keeps its bound.
TypeOK ==
    /\ file \in {"missing", "blank", "ready"}
    /\ data \in [Key -> Record \cup {None}]
    /\ version \in 0..MaxVersion
    /\ process \in {"down", "creating", "up", "closing"}
    /\ db \in {"open", "closed"}
    /\ Len(queue) <= Capacity
    /\ \A c \in Client : client[c].pc \in {"idle", "waiting", "read", "told"}
    /\ faults \in 0..MaxFaults /\ crashes \in 0..MaxCrashes

\* A commit whose caller read the record takes effect only if no other commit
\* touched it since, not even one that deleted and one that created it again; a
\* commit whose caller found no record, only if there is none.  No update is lost,
\* whatever was cancelled, ambiguous or cut by a crash.
NoLostUpdate ==
    \A i \in DOMAIN log :
        LET before == {j \in 1..i - 1 : log[j].key = log[i].key}
        IN  IF log[i].seen = None
            THEN \A j \in before : log[j].delete \/ \E k \in before : k > j
            ELSE \A j \in before : j <= log[i].base

\* A reply tells the truth about a commit: it has taken effect when the answer is
\* ok, and neither has nor ever will when it is a conflict or an exhausted
\* version; and no commit takes effect twice (write.rs: "never replay").
RepliesAreTrue ==
    /\ \A i, j \in DOMAIN log : log[i].id = log[j].id => i = j
    /\ \A c \in Client :
          client[c].pc = "told" /\ client[c].id # None =>
              LET done == \E i \in DOMAIN log : log[i].id = client[c].id
              IN  /\ client[c].reply = "ok" => done
                  /\ client[c].reply \in {"conflict", "exhausted"} =>
                        ~done /\ \A i \in DOMAIN queue : queue[i].id # client[c].id

\* An operation fails as unavailable only when it met an I/O failure itself: a
\* handle that an earlier failure closed is opened again (ensure_open).
FailuresHeal ==
    \A c \in Client : client[c].reply = "unavailable" => client[c].met > 0

\* A file that was ever in use is accepted when it is opened again, after any
\* crash and any failed commit: records and the global version move together.
FileReopens == file = "ready" => HasFormat /\ HasVersion

\* The store is safe: variables of their types, no update lost, true replies,
\* failures that heal, and a file that opens again.
StoreIsSafe == TypeOK /\ NoLostUpdate /\ RepliesAreTrue /\ FailuresHeal /\ FileReopens

Queued(id, commands) == \E i \in DOMAIN commands : commands[i].id = id

Effective(id, commits) == \E i \in DOMAIN commits : commits[i].id = id

\* No accepted commit vanishes, although its caller gives up or the last handle is
\* dropped before its turn: it leaves the queue when it takes effect, when its condition
\* fails or the versions are exhausted, by an I/O failure or in a crash, and for no other
\* reason.  A copy of the file after the teardown of the last handle is ordered after all
\* accepted commits (WorkerHandle::drop).
AcceptedIsDecided ==
    [][\A i \in DOMAIN queue :
          queue[i].id # None /\ ~Queued(queue[i].id, queue') =>
              \/ Effective(queue[i].id, log')
              \/ ~Holds(queue[i]) \/ version = MaxVersion
              \/ faults' > faults \/ crashes' > crashes]_vars

\* The drop of the last handle waits for the owner thread.
Dropping == process = "closing"

\* Every accepted command is answered, even behind commands nobody waits for.
Answered == \A c \in Client : Waiting(c) ~> ~Waiting(c)
=============================================================================
