-------------------------- MODULE RedbStoreProofs --------------------------
(***************************************************************************)
(* Proofs about the redb store, for any callers, records, queue capacity   *)
(* and number of commits, faults and crashes: no update is lost, a file    *)
(* that was in use opens again, and an accepted commit is decided even     *)
(* when its caller gave up or the last handle is dropped.                  *)
(*                                                                         *)
(* The key of the argument is that the global version counts the commits:  *)
(* the version of a record is then the position of the last commit that    *)
(* touched it, and a commit that finds the version its caller read has     *)
(* only older commits of the record behind it.                             *)
(***************************************************************************)
EXTENDS RedbStore, SequenceTheorems, TLAPS

GetCommand == [client : Client \cup {None}, id : {None}, key : Key]
CommitCommand == [client : Client \cup {None}, id : Client \X Nat, key : Key,
                  seen : Nat \cup {None}, base : Nat, delete : BOOLEAN]
Caller == [pc : {"idle", "waiting", "read", "told"}, tries : Nat, key : Key \cup {None},
           seen : Nat \cup {None}, base : Nat, id : (Client \X Nat) \cup {None},
           reply : {None, "unavailable", "conflict", "exhausted", "ok"}, met : Nat]
Entry == [id : Client \X Nat, key : Key, base : Nat, seen : Nat \cup {None}, delete : BOOLEAN]

Types ==
    /\ queue \in Seq(GetCommand \cup CommitCommand)
    /\ client \in [Client -> Caller]
    /\ log \in Seq(Entry)
    /\ crashes \in Nat
    /\ file \in {"missing", "blank", "ready"}

\* A queued command belongs to one caller, who waits for it and named a record.
Awaited ==
    /\ \A i \in 1 .. Len(queue) : queue[i].client # None =>
           client[queue[i].client].pc = "waiting"
    /\ \A i, j \in 1 .. Len(queue) :
           queue[i].client # None /\ queue[i].client = queue[j].client => i = j
    /\ \A c \in Client : client[c].pc \in {"waiting", "read"} => client[c].key \in Key

\* What a caller read is not newer than the log it read it from.
ReadsAreOld ==
    /\ \A c \in Client : client[c].seen # None => client[c].seen <= client[c].base
    /\ \A i \in 1 .. Len(queue) : queue[i].id # None /\ queue[i].seen # None =>
           queue[i].seen <= queue[i].base

\* The record is as the commits left it, and its version is the position of the
\* last of them.
LastCommit(k, n) ==
    /\ n \in 1 .. Len(log) /\ log[n].key = k /\ ~ log[n].delete
    /\ \A j \in 1 .. Len(log) : log[j].key = k => j <= n
Gone(k) ==
    \A j \in 1 .. Len(log) : log[j].key = k =>
        log[j].delete \/ \E n \in 1 .. Len(log) : log[n].key = k /\ j < n
DataFollowsLog ==
    /\ version = Len(log)
    /\ DOMAIN data = Key
    /\ \A k \in Key : IF data[k] = None THEN Gone(k) ELSE LastCommit(k, data[k].version)

IInv == Types /\ Awaited /\ ReadsAreOld /\ DataFollowsLog /\ NoLostUpdate

-----------------------------------------------------------------------------

LEMMA InitIInv ==
    ASSUME Init
    PROVE  IInv
<1> USE DEF Init, Idle
<1>1. Types
  BY DEF Types, Caller
<1>2. Awaited /\ ReadsAreOld
  BY DEF Awaited, ReadsAreOld
<1>3. DataFollowsLog /\ NoLostUpdate
  BY DEF DataFollowsLog, Gone, NoLostUpdate
<1>4. QED
  BY <1>1, <1>2, <1>3, Zenon DEF IInv

\* A step that changes neither the data nor what callers and commands carry.
LEMMA LifecycleStep ==
    ASSUME IInv, CreateFile \/ InitializeFormat \/ OpenFile \/ DropHandle \/ UNCHANGED vars
    PROVE  IInv'
<1>1. /\ UNCHANGED <<data, version, queue, client, crashes, log>>
      /\ file' \in {"missing", "blank", "ready"}
  BY Zenon DEF CreateFile, InitializeFormat, OpenFile, DropHandle, vars, IInv, Types
<1> USE <1>1
<1>2. Types' /\ Awaited' /\ ReadsAreOld'
  BY Zenon DEF IInv, Types, Awaited, ReadsAreOld
<1>3. DataFollowsLog' /\ NoLostUpdate'
  BY Zenon DEF IInv, DataFollowsLog, LastCommit, Gone, NoLostUpdate
<1>4. QED
  BY <1>2, <1>3, Zenon DEF IInv

\* A caller that starts again carries nothing.
LEMMA RestFacts ==
    ASSUME IInv, NEW c \in Client
    PROVE  Rest(c) \in Caller /\ Rest(c).pc = "idle" /\ Rest(c).seen = None
<1>1. client[c] \in Caller
  BY Zenon DEF IInv, Types
<1>2. Rest(c) = [pc |-> "idle", tries |-> client[c].tries, key |-> None, seen |-> None,
                 base |-> 0, id |-> None, reply |-> None, met |-> 0]
  BY DEF Rest, Idle
<1>3. QED
  BY <1>1, <1>2 DEF Caller

\* The end of the process, orderly or not, leaves the data and the log.
LEMMA StopStep ==
    ASSUME IInv, JoinOwner \/ Crash
    PROVE  IInv'
<1>1. /\ queue' = <<>> /\ client' = [c \in Client |-> Rest(c)]
      /\ UNCHANGED <<file, data, version, log>> /\ crashes' \in Nat
  BY DEF JoinOwner, Crash, IInv, Types
<1>2. Types'
  BY <1>1, RestFacts DEF IInv, Types
<1>3. Awaited' /\ ReadsAreOld'
  BY <1>1, RestFacts DEF Awaited, ReadsAreOld
<1>4. DataFollowsLog' /\ NoLostUpdate'
  BY <1>1, Zenon DEF IInv, DataFollowsLog, LastCommit, Gone, NoLostUpdate
<1>5. QED
  BY <1>2, <1>3, <1>4, Zenon DEF IInv

\* A caller reads or commits: one more command, for a caller that now waits.
LEMMA SubmitStep ==
    ASSUME IInv, NEW c \in Client,
           (\E k \in Key : SubmitGet(c, k)) \/ (\E delete \in BOOLEAN : SubmitCommit(c, delete))
    PROVE  IInv'
<1>1. /\ client[c] \in Caller /\ client[c].pc \in {"idle", "read"}
      /\ UNCHANGED <<file, data, version, crashes, log>>
  BY Zenon DEF IInv, Types, SubmitGet, SubmitCommit
<1>2. PICK command \in GetCommand \cup CommitCommand :
          /\ command.client = c /\ queue' = Append(queue, command)
          /\ command.id # None /\ command.seen # None => command.seen <= command.base
  <2>1. ASSUME NEW k \in Key, SubmitGet(c, k)
        PROVE  LET command == [client |-> c, id |-> None, key |-> k]
               IN  /\ command \in GetCommand /\ queue' = Append(queue, command)
                   /\ command.client = c /\ command.id = None
    BY <2>1, Zenon DEF SubmitGet, Accept, GetCommand
  <2>2. ASSUME NEW delete \in BOOLEAN, SubmitCommit(c, delete)
        PROVE  LET command == [client |-> c, id |-> <<c, client[c].tries>>, key |-> client[c].key,
                               seen |-> client[c].seen, base |-> client[c].base,
                               delete |-> delete]
               IN  /\ command \in CommitCommand /\ queue' = Append(queue, command)
                   /\ command.client = c
                   /\ command.seen # None => command.seen <= command.base
    BY <1>1, <2>2, Zenon DEF SubmitCommit, Accept, CommitCommand, IInv, Awaited, ReadsAreOld, Caller
  <2>3. QED
    BY <2>1, <2>2, Zenon
<1>3. /\ client' \in [Client -> Caller]
      /\ client'[c].pc = "waiting" /\ client'[c].key \in Key
      /\ client'[c].seen = client[c].seen /\ client'[c].base = client[c].base
      /\ \A d \in Client \ {c} : client'[d] = client[d]
  <2>1. ASSUME NEW k \in Key, SubmitGet(c, k)
        PROVE  client' = [client EXCEPT ![c].pc = "waiting", ![c].key = k]
    BY <2>1, Zenon DEF SubmitGet
  <2>2. ASSUME NEW delete \in BOOLEAN, SubmitCommit(c, delete)
        PROVE  /\ client' = [client EXCEPT ![c].pc = "waiting",
                                 ![c].id = <<c, client[c].tries>>, ![c].tries = @ + 1]
               /\ client[c].key \in Key
    BY <1>1, <2>2, Zenon DEF SubmitCommit, IInv, Awaited
  <2>3. client \in [Client -> Caller]
    BY Zenon DEF IInv, Types
  <2>4. ASSUME NEW k \in Key, SubmitGet(c, k) PROVE <1>3!:
    BY <1>1, <2>1, <2>3, <2>4 DEF Caller
  <2>5. ASSUME NEW delete \in BOOLEAN, SubmitCommit(c, delete) PROVE <1>3!:
    BY <1>1, <2>2, <2>3, <2>5 DEF Caller
  <2>6. QED
    BY <2>4, <2>5, Zenon
<1>4. /\ Len(queue') = Len(queue) + 1 /\ Len(queue) \in Nat /\ queue'[Len(queue) + 1].client = c
      /\ queue'[Len(queue) + 1] = command
      /\ \A i \in 1 .. Len(queue) : queue'[i] = queue[i]
      /\ queue' \in Seq(GetCommand \cup CommitCommand)
  BY <1>2 DEF IInv, Types
<1>5. Types'
  BY <1>1, <1>3, <1>4, Zenon DEF IInv, Types
<1>6. Awaited'
  <2>1. \A i \in 1 .. Len(queue) : queue[i].client # c \/ c = None
    BY <1>1, Zenon DEF IInv, Awaited
  <2>2. \A i \in 1 .. Len(queue) : queue[i].client \in Client \cup {None}
    BY DEF IInv, Types, GetCommand, CommitCommand
  <2>3. QED
    BY <1>3, <1>4, <2>1, <2>2, SMTT(30) DEF IInv, Awaited
<1>7. ReadsAreOld'
  BY <1>2, <1>3, <1>4 DEF IInv, ReadsAreOld
<1>8. DataFollowsLog' /\ NoLostUpdate'
  BY <1>1, Zenon DEF IInv, DataFollowsLog, LastCommit, Gone, NoLostUpdate
<1>9. QED
  BY <1>5, <1>6, <1>7, <1>8, Zenon DEF IInv

\* A caller that gives up leaves its command in the queue, without a caller.
LEMMA GiveUpStep ==
    ASSUME IInv, NEW c \in Client, GiveUp(c)
    PROVE  IInv'
<1>1. /\ client' = [client EXCEPT ![c] = Rest(c)]
      /\ queue' = [i \in DOMAIN queue |->
             IF queue[i].client = c THEN [queue[i] EXCEPT !.client = None] ELSE queue[i]]
      /\ UNCHANGED <<file, data, version, crashes, log>>
  BY Zenon DEF GiveUp
<1>2. queue \in Seq(GetCommand \cup CommitCommand)
  BY Zenon DEF IInv, Types
<1>3. ASSUME NEW i \in 1 .. Len(queue)
      PROVE  /\ queue[i] \in GetCommand \cup CommitCommand
             /\ queue'[i] \in GetCommand \cup CommitCommand
             /\ queue'[i].client # c \/ c = None
             /\ queue'[i].client \in {queue[i].client, None}
             /\ queue'[i].id = queue[i].id
             /\ queue'[i].id # None =>
                    queue'[i].seen = queue[i].seen /\ queue'[i].base = queue[i].base
  <2>1. queue[i] \in GetCommand \cup CommitCommand /\ i \in DOMAIN queue
    BY <1>2
  <2>2. queue'[i] = IF queue[i].client = c THEN [queue[i] EXCEPT !.client = None] ELSE queue[i]
    BY <1>1, <2>1, Zenon
  <2>3. CASE queue[i] \in GetCommand
    BY <2>2, <2>3, Zenon DEF GetCommand
  <2>4. CASE queue[i] \in CommitCommand
    BY <2>2, <2>4, Zenon DEF CommitCommand
  <2>5. QED
    BY <2>1, <2>3, <2>4, Zenon
<1>4. Len(queue') = Len(queue) /\ queue' \in Seq(GetCommand \cup CommitCommand)
  <2>1. Len(queue) \in Nat /\ DOMAIN queue = 1 .. Len(queue)
    BY <1>2
  <2>2. queue' \in [1 .. Len(queue) -> GetCommand \cup CommitCommand]
    <3>1. queue' = [i \in 1 .. Len(queue) |-> queue'[i]]
      BY <1>1, <2>1, Zenon
    <3>2. QED
      BY <1>3, <3>1, Zenon
  <2>3. QED
    BY <2>1, <2>2
<1>5. Rest(c) \in Caller /\ Rest(c).pc = "idle" /\ Rest(c).seen = None
  BY RestFacts, Zenon
<1>6. Types'
  BY <1>1, <1>4, <1>5, Zenon DEF IInv, Types
<1>7. Awaited'
  <2>1. \A d \in Client \ {c} : client'[d] = client[d]
    BY <1>1, Zenon DEF IInv, Types
  <2>2. client'[c] = Rest(c)
    BY <1>1, Zenon DEF IInv, Types
  <2>3. \A i \in 1 .. Len(queue) : queue'[i].client # None =>
            queue'[i].client = queue[i].client /\ queue'[i].client \in Client \ {c}
    BY <1>3, Zenon DEF GetCommand, CommitCommand
  <2>4. QED
    BY <1>4, <1>5, <2>1, <2>2, <2>3 DEF IInv, Awaited
<1>8. ReadsAreOld'
  <2>1. \A i \in 1 .. Len(queue') : queue'[i].id # None /\ queue'[i].seen # None =>
            queue'[i].seen <= queue'[i].base
    BY <1>3, <1>4, Zenon DEF IInv, ReadsAreOld
  <2>2. QED
    BY <1>1, <1>5, <2>1, Zenon DEF IInv, Types, ReadsAreOld
<1>9. DataFollowsLog' /\ NoLostUpdate'
  BY <1>1, Zenon DEF IInv, DataFollowsLog, LastCommit, Gone, NoLostUpdate
<1>10. QED
  BY <1>6, <1>7, <1>8, <1>9, Zenon DEF IInv

LEMMA ForgetStep ==
    ASSUME IInv, NEW c \in Client, Forget(c)
    PROVE  IInv'
<1>1. /\ client[c].pc \in {"read", "told"} /\ client' = [client EXCEPT ![c] = Rest(c)]
      /\ UNCHANGED <<file, data, version, queue, crashes, log>>
  BY Zenon DEF Forget
<1>2. Rest(c) \in Caller /\ Rest(c).pc = "idle" /\ Rest(c).seen = None
  BY RestFacts, Zenon
<1>3. /\ client'[c] = Rest(c) /\ \A d \in Client \ {c} : client'[d] = client[d]
      /\ client' \in [Client -> Caller]
  BY <1>1, <1>2, Zenon DEF IInv, Types
<1>4. Types'
  BY <1>1, <1>3, Zenon DEF IInv, Types
<1>5. Awaited'
  <2>1. \A i \in 1 .. Len(queue) : queue[i].client # None =>
            queue[i].client \in Client \ {c}
    BY <1>1 DEF IInv, Types, Awaited, GetCommand, CommitCommand
  <2>2. QED
    BY <1>1, <1>2, <1>3, <2>1, Zenon DEF IInv, Awaited
<1>6. ReadsAreOld'
  BY <1>1, <1>2, <1>3, Zenon DEF IInv, ReadsAreOld
<1>7. DataFollowsLog' /\ NoLostUpdate'
  BY <1>1, Zenon DEF IInv, DataFollowsLog, LastCommit, Gone, NoLostUpdate
<1>8. QED
  BY <1>4, <1>5, <1>6, <1>7, Zenon DEF IInv

-----------------------------------------------------------------------------
(* The owner thread.                                                       *)

LEMMA UsedFacts ==
    /\ \A o \in ReadOutcome : o.used \in Nat
    /\ \A o \in CommitOutcome : o.used \in Nat
<1>1. \A h \in EnsureOpen : h.used \in Nat
  BY DEF EnsureOpen
<1>2. \A r \in Reopen : r.used \in Nat
  BY DEF Reopen
<1>3. ASSUME NEW o \in ReadOutcome PROVE o.used \in Nat
  <2>1. PICK h \in EnsureOpen :
            o.used = h.used \/ o.used = h.used + 1 \/ o.used = h.used + 2
    BY <1>3 DEF ReadOutcome
  <2>2. QED
    BY <1>1, <2>1
<1>4. ASSUME NEW o \in CommitOutcome PROVE o.used \in Nat
  <2>1. PICK h \in EnsureOpen :
            o.used = h.used \/ \E r \in Reopen : o.used = h.used + 1 + r.used
    BY <1>4 DEF CommitOutcome
  <2>2. QED
    BY <1>1, <1>2, <2>1
<1>5. QED
  BY <1>3, <1>4, Zenon

\* The head of the queue is served: its caller, if it still waits, is answered.
LEMMA ServedFacts ==
    ASSUME IInv, Serves, queue' = Tail(queue), NEW a \in Caller,
           a.pc \in {"read", "told"}, a.seen # None => a.seen <= a.base,
           a.pc = "read" => a.key \in Key, file' = file, crashes' = crashes,
           client' = IF Head(queue).client = None THEN client
                     ELSE [client EXCEPT ![Head(queue).client] = a]
    PROVE  Awaited' /\ ReadsAreOld' /\ client' \in [Client -> Caller]
           /\ queue' \in Seq(GetCommand \cup CommitCommand)
<1> DEFINE c == Head(queue).client
<1>1. /\ queue \in Seq(GetCommand \cup CommitCommand) /\ queue # <<>>
      /\ client \in [Client -> Caller]
  BY Zenon DEF IInv, Types, Serves
<1>2. /\ Len(queue) \in Nat \ {0} /\ Len(queue') = Len(queue) - 1 /\ Head(queue) = queue[1]
      /\ \A i \in 1 .. Len(queue') : i + 1 \in 1 .. Len(queue) /\ queue'[i] = queue[i + 1]
      /\ queue' \in Seq(GetCommand \cup CommitCommand)
  BY <1>1
<1>3. \A i \in 1 .. Len(queue) : queue[i].client \in Client \cup {None}
  BY <1>1 DEF GetCommand, CommitCommand
<1>4. c # None => c \in Client /\ client'[c] = a /\ \A d \in Client \ {c} : client'[d] = client[d]
  BY <1>1, <1>2, <1>3
<1>5. client' \in [Client -> Caller]
  BY <1>1, <1>4, Zenon
<1>6. \A i \in 1 .. Len(queue') : queue'[i].client # None => queue'[i].client # c
  BY <1>2 DEF IInv, Awaited
<1>7. Awaited'
  <2>1. \A i \in 1 .. Len(queue') : queue'[i].client # None =>
            client'[queue'[i].client].pc = "waiting"
    BY <1>2, <1>3, <1>4, <1>6 DEF IInv, Awaited
  <2>2. \A i, j \in 1 .. Len(queue') :
            queue'[i].client # None /\ queue'[i].client = queue'[j].client => i = j
    BY <1>2 DEF IInv, Awaited
  <2>3. \A d \in Client : client'[d].pc \in {"waiting", "read"} => client'[d].key \in Key
    BY <1>4, Zenon DEF IInv, Awaited
  <2>4. QED
    BY <2>1, <2>2, <2>3, Zenon DEF Awaited
<1>8. ReadsAreOld'
  <2>1. \A d \in Client : client'[d].seen # None => client'[d].seen <= client'[d].base
    BY <1>4, Zenon DEF IInv, ReadsAreOld
  <2>2. \A i \in 1 .. Len(queue') : queue'[i].id # None /\ queue'[i].seen # None =>
            queue'[i].seen <= queue'[i].base
    BY <1>2, Zenon DEF IInv, ReadsAreOld
  <2>3. QED
    BY <2>1, <2>2, Zenon DEF ReadsAreOld
<1>9. QED
  BY <1>2, <1>5, <1>7, <1>8, Zenon

\* The caller of the command that is served waits.
LEMMA ServedCaller ==
    ASSUME IInv, Serves, Head(queue).client # None
    PROVE  LET c == Head(queue).client
           IN  /\ c \in Client /\ client[c] \in Caller /\ client[c].key \in Key
               /\ client[c].seen # None => client[c].seen <= client[c].base
<1> DEFINE c == Head(queue).client
<1>1. queue \in Seq(GetCommand \cup CommitCommand) /\ queue # <<>>
  BY Zenon DEF IInv, Types, Serves
<1>2. Head(queue) = queue[1] /\ 1 \in 1 .. Len(queue)
      /\ Head(queue) \in GetCommand \cup CommitCommand
  BY <1>1
<1>3. c \in Client
  BY <1>2, Zenon DEF GetCommand, CommitCommand
<1>4. QED
  BY <1>2, <1>3, Zenon DEF IInv, Types, Awaited, ReadsAreOld

\* It is told an answer,
LEMMA ToldFacts ==
    ASSUME IInv, Serves, Head(queue).client # None, NEW n \in Nat,
           NEW reply \in {"unavailable", "conflict", "exhausted", "ok"}
    PROVE  LET told == [Told(Head(queue).client, reply) EXCEPT !.met = n]
           IN  /\ told \in Caller /\ told.pc = "told"
               /\ told.seen # None => told.seen <= told.base
<1> DEFINE c == Head(queue).client
<1>1. /\ client[c] \in Caller
      /\ client[c].seen # None => client[c].seen <= client[c].base
  BY ServedCaller, Zenon
<1>2. Told(c, reply) = [client[c] EXCEPT !.pc = "told", !.reply = reply]
  BY Zenon DEF Told
<1> HIDE DEF c
<1>3. /\ Told(c, reply) \in Caller /\ Told(c, reply).pc = "told"
      /\ Told(c, reply).seen = client[c].seen /\ Told(c, reply).base = client[c].base
  BY <1>1, <1>2, Zenon DEF Caller
<1>4. /\ [Told(c, reply) EXCEPT !.met = n] \in Caller
      /\ [Told(c, reply) EXCEPT !.met = n].pc = "told"
      /\ [Told(c, reply) EXCEPT !.met = n].seen = client[c].seen
      /\ [Told(c, reply) EXCEPT !.met = n].base = client[c].base
  BY <1>3, Zenon DEF Caller
<1>5. QED
  BY <1>1, <1>4, Zenon DEF c

\* or has read the record.
LEMMA ReadFacts ==
    ASSUME IInv, Serves, Head(queue).client # None, NEW n \in Nat,
           NEW seen \in Nat \cup {None}, NEW base \in Nat, seen # None => seen <= base
    PROVE  LET read == [[client[Head(queue).client] EXCEPT !.pc = "read", !.base = base,
                                                           !.seen = seen]
                           EXCEPT !.met = n]
           IN  /\ read \in Caller /\ read.pc = "read" /\ read.key \in Key
               /\ read.seen # None => read.seen <= read.base
<1> DEFINE c == Head(queue).client
           r == [client[c] EXCEPT !.pc = "read", !.base = base, !.seen = seen]
<1>1. client[c] \in Caller /\ client[c].key \in Key
  BY ServedCaller, Zenon
<1>2. /\ r \in Caller /\ r.pc = "read" /\ r.key = client[c].key
      /\ r.seen = seen /\ r.base = base
  BY <1>1, Zenon DEF Caller
<1> HIDE DEF r
<1>3. /\ [r EXCEPT !.met = n] \in Caller /\ [r EXCEPT !.met = n].pc = "read"
      /\ [r EXCEPT !.met = n].key = client[c].key
      /\ [r EXCEPT !.met = n].seen = seen /\ [r EXCEPT !.met = n].base = base
  BY <1>2, Zenon DEF Caller
<1>4. QED
  BY <1>1, <1>3, Zenon DEF r

LEMMA ServeGetStep ==
    ASSUME IInv, ServeGet
    PROVE  IInv'
<1> DEFINE command == Head(queue)
           c == command.client
           found == IF data[command.key] = None THEN None ELSE data[command.key].version
<1>1. PICK o \in ReadOutcome :
          Finish(o, IF c = None \/ ~ o.ok THEN Told(c, "unavailable")
                    ELSE [client[c] EXCEPT !.pc = "read", !.base = Len(log), !.seen = found])
  BY Zenon DEF ServeGet
<1>2. /\ Serves /\ queue' = Tail(queue) /\ UNCHANGED <<file, data, version, crashes, log>>
      /\ command \in GetCommand \cup CommitCommand /\ Len(log) \in Nat
  BY <1>1 DEF ServeGet, Finish, IInv, Types, Serves
<1>3. found \in Nat \cup {None} /\ (found # None => found <= Len(log))
  <2>1. command.key \in Key
    BY <1>2, Zenon DEF GetCommand, CommitCommand
  <2>2. QED
    BY <1>2, <2>1 DEF IInv, DataFollowsLog, LastCommit
<1>4. PICK a \in Caller :
          /\ a.pc \in {"read", "told"} /\ (a.seen # None => a.seen <= a.base)
          /\ a.pc = "read" => a.key \in Key
          /\ client' = IF c = None THEN client ELSE [client EXCEPT ![c] = a]
  <2>1. o.used \in Nat
    BY UsedFacts, Zenon
  <2>2. CASE c = None
    <3>1. client' = client
      BY <1>1, <2>2, Zenon DEF Finish
    <3>2. [Idle EXCEPT !.pc = "told"] \in Caller /\ [Idle EXCEPT !.pc = "told"].pc = "told"
          /\ [Idle EXCEPT !.pc = "told"].seen = None
      BY Zenon DEF Idle, Caller
    <3>3. QED
      BY <2>2, <3>1, <3>2, Zenon
  <2>3. CASE c # None /\ ~ o.ok
    <3>1. client' = [client EXCEPT ![c] = [Told(c, "unavailable") EXCEPT !.met = o.used]]
      BY <1>1, <2>3, Zenon DEF Finish
    <3>2. QED
      BY <1>2, <2>1, <2>3, <3>1, ToldFacts, Zenon
  <2>4. CASE c # None /\ o.ok
    <3>1. client' = [client EXCEPT ![c] =
                        [[client[c] EXCEPT !.pc = "read", !.base = Len(log), !.seen = found]
                            EXCEPT !.met = o.used]]
      BY <1>1, <2>4, Zenon DEF Finish
    <3>2. QED
      BY <1>2, <1>3, <2>1, <2>4, <3>1, ReadFacts, Zenon
  <2>5. QED
    BY <2>2, <2>3, <2>4, Zenon
<1>5. Awaited' /\ ReadsAreOld' /\ client' \in [Client -> Caller]
      /\ queue' \in Seq(GetCommand \cup CommitCommand)
  BY <1>2, <1>4, ServedFacts, Zenon
<1>6. Types'
  BY <1>2, <1>5, Zenon DEF IInv, Types
<1>7. DataFollowsLog' /\ NoLostUpdate'
  BY <1>2, Zenon DEF IInv, DataFollowsLog, LastCommit, Gone, NoLostUpdate
<1>8. QED
  BY <1>5, <1>6, <1>7, Zenon DEF IInv

\* A commit that takes effect has only commits its caller knew behind it.
LEMMA ApplyStep ==
    ASSUME IInv, NEW command \in CommitCommand, Holds(command), Apply(command),
           command.seen # None => command.seen <= command.base
    PROVE  log' \in Seq(Entry) /\ DataFollowsLog' /\ NoLostUpdate'
<1> DEFINE n == Len(log) + 1
           k == command.key
           entry == [id |-> command.id, key |-> k, base |-> command.base,
                     seen |-> command.seen, delete |-> command.delete]
<1>1. /\ k \in Key /\ entry \in Entry /\ entry.key = k
      /\ entry.delete <=> command.delete
      /\ entry.seen = command.seen /\ entry.base = command.base
      /\ command.base \in Nat /\ command.delete \in BOOLEAN
  BY Zenon DEF CommitCommand, Entry
<1>2. log \in Seq(Entry) /\ log' = Append(log, entry)
  BY Zenon DEF IInv, Types, Apply
<1> HIDE DEF entry
<1>3. /\ Len(log) \in Nat /\ Len(log') = n /\ log'[n] = entry /\ log' \in Seq(Entry)
      /\ \A i \in 1 .. Len(log) : log'[i] = log[i]
  BY <1>1, <1>2
<1>4. /\ version' = n /\ DOMAIN data' = Key
      /\ data'[k] = IF command.delete THEN None ELSE [value |-> command.id, version |-> n]
      /\ \A j \in Key \ {k} : data'[j] = data[j]
  BY <1>1, Zenon DEF Apply, NextVersion, IInv, DataFollowsLog
<1>5. DataFollowsLog'
  <2>1. ASSUME NEW j \in Key \ {k}
        PROVE  IF data'[j] = None THEN Gone(j)' ELSE LastCommit(j, data[j].version)'
    <3>1. CASE data[j] = None
      <4>1. Gone(j)
        BY <3>1, Zenon DEF IInv, DataFollowsLog
      <4>2. Gone(j)'
        BY <1>1, <1>3, <2>1, <4>1 DEF Gone
      <4>3. QED
        BY <1>4, <3>1, <4>2, Zenon
    <3>2. CASE data[j] # None
      <4>1. LastCommit(j, data[j].version)
        BY <3>2, Zenon DEF IInv, DataFollowsLog
      <4>2. LastCommit(j, data[j].version)'
        BY <1>1, <1>3, <1>4, <2>1, <4>1 DEF LastCommit
      <4>3. QED
        BY <1>4, <3>2, <4>2, Zenon
    <3>3. QED
      BY <3>1, <3>2, Zenon
  <2>2. CASE command.delete
    <3>1. Gone(k)'
      BY <1>1, <1>3, <2>2 DEF Gone
    <3>2. QED
      BY <1>3, <1>4, <2>1, <2>2, <3>1, Zenon DEF DataFollowsLog
  <2>3. CASE ~ command.delete
    <3>1. data'[k].version = n /\ data'[k] # None
      <4>1. [value |-> command.id, version |-> n] \in [value : Client \X Nat, version : Nat]
        BY <1>3 DEF CommitCommand
      <4>2. QED
        BY <1>4, <2>3, <4>1, NoneIsNoRecord
    <3>2. LastCommit(k, data[k].version)'
      BY <1>1, <1>3, <2>3, <3>1 DEF LastCommit
    <3>3. QED
      BY <1>3, <1>4, <2>1, <3>1, <3>2, Zenon DEF DataFollowsLog
  <2>4. QED
    BY <1>1, <2>2, <2>3, Zenon
<1>6. NoLostUpdate'
  <2>1. ASSUME NEW i \in 1 .. Len(log), log[i].seen = None,
               NEW j \in 1 .. i - 1, log[j].key = log[i].key
        PROVE  log[j].delete \/ \E m \in 1 .. i - 1 : log[m].key = log[i].key /\ m > j
    BY <1>3, <2>1 DEF IInv, NoLostUpdate
  <2>2. ASSUME NEW i \in 1 .. Len(log), log[i].seen # None,
               NEW j \in 1 .. i - 1, log[j].key = log[i].key
        PROVE  j <= log[i].base
    BY <1>3, <2>2 DEF IInv, NoLostUpdate
  <2>3. ASSUME command.seen = None, NEW j \in 1 .. Len(log), log[j].key = k
        PROVE  log[j].delete \/ \E m \in 1 .. Len(log) : log[m].key = k /\ m > j
    <3>1. Gone(k)
      BY <1>1, <2>3, Zenon DEF Holds, IInv, DataFollowsLog
    <3>2. QED
      BY <1>3, <2>3, <3>1, Zenon DEF Gone
  <2>4. ASSUME command.seen # None, NEW j \in 1 .. Len(log), log[j].key = k
        PROVE  j <= command.base
    <3>1. LastCommit(k, command.seen)
      BY <1>1, <2>4, Zenon DEF Holds, IInv, DataFollowsLog
    <3>2. QED
      BY <1>1, <1>3, <2>4, <3>1 DEF LastCommit
  <2>5. \A i \in DOMAIN log' : i \in 1 .. Len(log) \/ i = n
    BY <1>3
  <2>6. ASSUME NEW i \in DOMAIN log', i # n
        PROVE  LET before == {j \in 1 .. i - 1 : log'[j].key = log'[i].key}
               IN  IF log'[i].seen = None
                   THEN \A j \in before : log'[j].delete \/ \E m \in before : m > j
                   ELSE \A j \in before : j <= log'[i].base
    <3>1. i \in 1 .. Len(log) /\ \A j \in 1 .. i : log'[j] = log[j]
      BY <1>3, <2>5, <2>6
    <3>2. QED
      BY <2>1, <2>2, <3>1, SMTT(30)
  <2>7. LET before == {j \in 1 .. n - 1 : log'[j].key = log'[n].key}
        IN  IF log'[n].seen = None
            THEN \A j \in before : log'[j].delete \/ \E m \in before : m > j
            ELSE \A j \in before : j <= log'[n].base
    <3>1. n - 1 = Len(log)
      BY <1>3
    <3>2. QED
      BY <1>1, <1>3, <2>3, <2>4, <3>1, Zenon
  <2>8. QED
    BY <2>6, <2>7, Zenon DEF NoLostUpdate
<1>7. QED
  BY <1>3, <1>5, <1>6, Zenon

LEMMA ServeCommitStep ==
    ASSUME IInv, ServeCommit
    PROVE  IInv'
<1> DEFINE command == Head(queue)
           c == command.client
<1>1. PICK o \in CommitOutcome :
          /\ IF o.durable /\ Holds(command) /\ version < MaxVersion
             THEN Apply(command)
             ELSE UNCHANGED <<data, version, log>>
          /\ Finish(o, Told(c, CommitReply(o, command)))
  BY Zenon DEF ServeCommit
<1>2. /\ Serves /\ queue' = Tail(queue) /\ UNCHANGED <<file, crashes>>
      /\ command.id # None
  BY <1>1, Zenon DEF ServeCommit, Finish
<1>3. /\ command \in CommitCommand
      /\ command.seen # None => command.seen <= command.base
  <2>1. queue \in Seq(GetCommand \cup CommitCommand) /\ queue # <<>>
    BY <1>2, Zenon DEF IInv, Types, Serves
  <2>2. command = queue[1] /\ 1 \in 1 .. Len(queue) /\ command \in GetCommand \cup CommitCommand
    BY <2>1
  <2>3. command \in CommitCommand
    BY <1>2, <2>2, Zenon DEF GetCommand
  <2>4. QED
    BY <1>2, <2>2, <2>3, Zenon DEF IInv, ReadsAreOld
<1>4. log' \in Seq(Entry) /\ DataFollowsLog' /\ NoLostUpdate'
  <2>1. CASE Holds(command) /\ Apply(command)
    BY <1>3, <2>1, ApplyStep, Zenon
  <2>2. CASE UNCHANGED <<data, version, log>>
    BY <2>2, Zenon DEF IInv, Types, DataFollowsLog, LastCommit, Gone, NoLostUpdate
  <2>3. QED
    BY <1>1, <2>1, <2>2, Zenon
<1>5. PICK a \in Caller :
          /\ a.pc \in {"read", "told"} /\ (a.seen # None => a.seen <= a.base)
          /\ a.pc = "read" => a.key \in Key
          /\ client' = IF c = None THEN client ELSE [client EXCEPT ![c] = a]
  <2>1. o.used \in Nat
    BY UsedFacts, Zenon
  <2>2. CASE c = None
    <3>1. client' = client
      BY <1>1, <2>2, Zenon DEF Finish
    <3>2. [Idle EXCEPT !.pc = "told"] \in Caller /\ [Idle EXCEPT !.pc = "told"].pc = "told"
          /\ [Idle EXCEPT !.pc = "told"].seen = None
      BY Zenon DEF Idle, Caller
    <3>3. QED
      BY <2>2, <3>1, <3>2, Zenon
  <2>3. CASE c # None
    <3>1. PICK reply \in {"unavailable", "conflict", "exhausted", "ok"} :
              reply = CommitReply(o, command)
      BY Zenon DEF CommitReply
    <3>2. client' = [client EXCEPT ![c] = [Told(c, CommitReply(o, command)) EXCEPT !.met = o.used]]
      BY <1>1, <2>3, Zenon DEF Finish
    <3>3. PICK n \in Nat : n = o.used
      BY <2>1, Zenon
    <3>4. LET told == [Told(c, reply) EXCEPT !.met = n]
          IN  /\ told \in Caller /\ told.pc = "told"
              /\ told.seen # None => told.seen <= told.base
      BY <1>2, <2>3, ToldFacts, Zenon
    <3>5. QED
      BY <2>3, <3>1, <3>2, <3>3, <3>4, Zenon
  <2>4. QED
    BY <2>2, <2>3, Zenon
<1>6. Awaited' /\ ReadsAreOld' /\ client' \in [Client -> Caller]
      /\ queue' \in Seq(GetCommand \cup CommitCommand)
  BY <1>2, <1>5, ServedFacts, Zenon
<1>7. Types'
  BY <1>2, <1>4, <1>6, Zenon DEF IInv, Types
<1>8. QED
  BY <1>4, <1>6, <1>7, Zenon DEF IInv

-----------------------------------------------------------------------------
(* The theorems.                                                           *)

LEMMA NextIInv ==
    ASSUME IInv, [Next]_vars
    PROVE  IInv'
<1>1. CASE CreateFile \/ InitializeFormat \/ OpenFile \/ DropHandle \/ UNCHANGED vars
  BY <1>1, LifecycleStep, Zenon
<1>2. CASE JoinOwner \/ Crash
  BY <1>2, StopStep, Zenon
<1>3. ASSUME NEW c \in Client,
             (\E k \in Key : SubmitGet(c, k)) \/ (\E delete \in BOOLEAN : SubmitCommit(c, delete))
      PROVE  IInv'
  BY <1>3, SubmitStep, Zenon
<1>4. ASSUME NEW c \in Client, GiveUp(c) PROVE IInv'
  BY <1>4, GiveUpStep, Zenon
<1>5. ASSUME NEW c \in Client, Forget(c) PROVE IInv'
  BY <1>5, ForgetStep, Zenon
<1>6. CASE ServeGet
  BY <1>6, ServeGetStep, Zenon
<1>7. CASE ServeCommit
  BY <1>7, ServeCommitStep, Zenon
<1>8. QED
  BY <1>1, <1>2, <1>3, <1>4, <1>5, <1>6, <1>7, Zenon DEF Next

THEOREM InductiveInvariant == Spec => []IInv
BY InitIInv, NextIInv, PTL DEF Spec

\* A commit takes effect only if no other commit touched its record since its
\* caller read it, through cancellations, ambiguous commits and crashes.
THEOREM UpdatesNotLost == Spec => []NoLostUpdate
<1>1. IInv => NoLostUpdate
  BY Zenon DEF IInv
<1>2. QED
  BY <1>1, InductiveInvariant, PTL

\* A file that was in use has the marker and, if it has records, a version:
\* after any crash or failed commit it is accepted when it is opened again.
THEOREM FilesReopen == Spec => []FileReopens
<1>1. ASSUME IInv PROVE FileReopens
  <2>1. ASSUME version = 0, NEW k \in Key PROVE data[k] = None
    BY <1>1, <2>1 DEF IInv, Types, DataFollowsLog, LastCommit
  <2>2. QED
    BY <2>1, Zenon DEF FileReopens, HasFormat, HasVersion
<1>2. QED
  BY <1>1, InductiveInvariant, PTL

-----------------------------------------------------------------------------
(* Replies and bounds.  A caller numbers its commits, so that the identity  *)
(* of a commit is new when it is submitted: it is queued once and enters    *)
(* the log at most once, when it leaves the queue.                          *)

\* The caller of a commit has counted it.
Given(id) == id[2] < client[id[1]].tries

\* What a caller carries: a commit of its own while it waits for one or was
\* answered, a reply only when it was answered, and room for the commit that
\* follows a read.
Counted ==
    \A c \in Client :
        /\ client[c].tries <= MaxCommits[c]
        /\ client[c].pc \in {"waiting", "read"} /\ client[c].id = None =>
               client[c].tries < MaxCommits[c]
        /\ client[c].pc \in {"idle", "read"} => client[c].id = None
        /\ client[c].id # None => client[c].id[1] = c
        /\ client[c].pc # "told" => client[c].reply = None

\* A queued commit is the one its caller waits for, and is nowhere else.
Numbered ==
    /\ \A i \in 1 .. Len(queue) : queue[i].client # None =>
           client[queue[i].client].id = queue[i].id
    /\ \A i \in 1 .. Len(queue) : queue[i].id # None => Given(queue[i].id)
    /\ \A n \in 1 .. Len(log) : Given(log[n].id)
    /\ \A i, j \in 1 .. Len(queue) : queue[i].id # None /\ queue[i].id = queue[j].id => i = j
    /\ \A i \in 1 .. Len(queue), n \in 1 .. Len(log) : queue[i].id # log[n].id

SInv == Counted /\ Numbered /\ TypeOK /\ RepliesAreTrue /\ FailuresHeal

LEMMA InitSInv ==
    ASSUME Init
    PROVE  SInv
<1> USE DEF Init, Idle
<1>1. Counted
  BY BoundsAreNumbers DEF Counted
<1>2. Numbered /\ RepliesAreTrue
  BY DEF Numbered, RepliesAreTrue
<1>5. FailuresHeal
  BY NoneIsNoReply DEF FailuresHeal
<1>3. TypeOK
  BY BoundsAreNumbers, CapacityPositive DEF TypeOK
<1>4. QED
  BY <1>1, <1>2, <1>3, <1>5, Zenon DEF SInv

LEMMA LifecycleSafe ==
    ASSUME SInv, CreateFile \/ InitializeFormat \/ OpenFile \/ DropHandle \/ UNCHANGED vars
    PROVE  SInv'
<1>1. /\ UNCHANGED <<data, version, queue, client, faults, crashes, log>>
      /\ file' \in {"missing", "blank", "ready"} /\ db' \in {"open", "closed"}
      /\ process' \in {"down", "creating", "up", "closing"}
  BY Zenon DEF CreateFile, InitializeFormat, OpenFile, DropHandle, OwnerStarts, vars, SInv, TypeOK
<1>2. Counted' /\ Numbered'
  BY <1>1, Zenon DEF SInv, Counted, Numbered, Given
<1>3. RepliesAreTrue' /\ FailuresHeal'
  BY <1>1, Zenon DEF SInv, RepliesAreTrue, FailuresHeal
<1>4. TypeOK'
  BY <1>1, Zenon DEF SInv, TypeOK
<1>5. QED
  BY <1>2, <1>3, <1>4, Zenon DEF SInv

\* A caller that starts again keeps its count only.
LEMMA RestCount ==
    ASSUME NEW c \in Client
    PROVE  /\ Rest(c).tries = client[c].tries /\ Rest(c).pc = "idle"
           /\ Rest(c).id = None /\ Rest(c).reply = None
<1>1. Rest(c) = [pc |-> "idle", tries |-> client[c].tries, key |-> None, seen |-> None,
                 base |-> 0, id |-> None, reply |-> None, met |-> 0]
  BY DEF Rest, Idle
<1>2. QED
  BY <1>1


\* What RepliesAreTrue says of one caller.
Truthful(c) ==
    client[c].pc = "told" /\ client[c].id # None =>
        LET done == \E i \in DOMAIN log : log[i].id = client[c].id
        IN  /\ client[c].reply = "ok" => done
            /\ client[c].reply \in {"conflict", "exhausted"} =>
                  ~done /\ \A i \in DOMAIN queue : queue[i].id # client[c].id

\* The types of the sequences, entry by entry.
LEMMA Typed ==
    ASSUME IInv
    PROVE  /\ Len(queue) \in Nat /\ DOMAIN queue = 1 .. Len(queue)
           /\ Len(log) \in Nat /\ DOMAIN log = 1 .. Len(log)
           /\ \A i \in 1 .. Len(queue) : /\ queue[i].client \in Client \cup {None}
                                         /\ queue[i].id \in (Client \X Nat) \cup {None}
           /\ \A n \in 1 .. Len(log) : log[n].id \in Client \X Nat
<1>1. queue \in Seq(GetCommand \cup CommitCommand) /\ log \in Seq(Entry)
  BY Zenon DEF IInv, Types
<1>2. /\ Len(queue) \in Nat /\ DOMAIN queue = 1 .. Len(queue)
      /\ Len(log) \in Nat /\ DOMAIN log = 1 .. Len(log)
      /\ \A i \in 1 .. Len(queue) : queue[i] \in GetCommand \cup CommitCommand
      /\ \A n \in 1 .. Len(log) : log[n] \in Entry
  BY <1>1
<1>3. \A i \in 1 .. Len(queue) : /\ queue[i].client \in Client \cup {None}
                                 /\ queue[i].id \in (Client \X Nat) \cup {None}
  BY <1>2, Zenon DEF GetCommand, CommitCommand
<1>4. \A n \in 1 .. Len(log) : log[n].id \in Client \X Nat
  BY <1>2, Zenon DEF Entry
<1>5. QED
  BY <1>2, <1>3, <1>4, Zenon

\* A commit keeps its number while its caller keeps its count.
LEMMA GivenStays ==
    ASSUME NEW id \in Client \X Nat, Given(id), \A c \in Client : client'[c].tries = client[c].tries
    PROVE  Given(id)'
BY DEF Given

\* The end of the process leaves no command and no caller that was answered.
LEMMA StopSafe ==
    ASSUME IInv, SInv, JoinOwner \/ Crash
    PROVE  SInv'
<1>1. /\ queue' = <<>> /\ client' = [c \in Client |-> Rest(c)] /\ process' = "down"
      /\ db' = "closed" /\ UNCHANGED <<file, data, version, faults, log>>
  BY Zenon DEF JoinOwner, Crash
<1>2. crashes' \in 0 .. MaxCrashes
  BY BoundsAreNumbers DEF JoinOwner, Crash, SInv, TypeOK
<1>3. \A c \in Client : /\ client'[c].tries = client[c].tries /\ client'[c].pc = "idle"
                        /\ client'[c].id = None /\ client'[c].reply = None
  BY <1>1, RestCount, Zenon
<1>4. Counted'
  BY <1>3, Zenon DEF SInv, Counted
<1>5. Numbered'
  <2>1. (\A n \in 1 .. Len(log) : Given(log[n].id))'
    BY <1>1, <1>3, Typed, GivenStays, Zenon DEF SInv, Numbered
  <2>2. \A i : i \notin 1 .. Len(queue')
    BY <1>1
  <2>3. QED
    BY <2>1, <2>2, Zenon DEF Numbered
<1>6. RepliesAreTrue' /\ FailuresHeal'
  BY <1>1, <1>3, NoneIsNoReply DEF SInv, RepliesAreTrue, FailuresHeal
<1>7. TypeOK'
  BY <1>1, <1>2, <1>3, CapacityPositive DEF SInv, TypeOK
<1>8. QED
  BY <1>4, <1>5, <1>6, <1>7, Zenon DEF SInv

\* One more command, of a caller that now waits for it: a read, or a commit
\* under a number its caller has not used.
LEMMA AcceptSafe ==
    ASSUME IInv, SInv, NEW c \in Client, client[c].pc \in {"idle", "read"},
           NEW command \in GetCommand \cup CommitCommand, Accept(command), command.client = c,
           client'[c].pc = "waiting", client'[c].id = command.id,
           \A d \in Client \ {c} : client'[d] = client[d],
           client'[c].tries \in Nat, client[c].tries \in Nat, client[c].tries <= client'[c].tries,
           command.id # None => /\ command.id = <<c, client[c].tries>>
                                /\ client[c].tries < client'[c].tries,
           log' = log
    PROVE  Numbered' /\ RepliesAreTrue' /\ Len(queue') <= Capacity
<1> DEFINE n == Len(queue) + 1
<1>1. queue \in Seq(GetCommand \cup CommitCommand) /\ Len(queue) \in Nat
      /\ DOMAIN queue = 1 .. Len(queue)
  BY Typed, Zenon DEF IInv, Types
<1>2. Len(queue) < Capacity /\ queue' = Append(queue, command)
  BY Zenon DEF Accept
<1>3. /\ Len(queue') = n /\ DOMAIN queue' = 1 .. Len(queue') /\ queue'[n] = command
      /\ \A i \in 1 .. Len(queue) : queue'[i] = queue[i]
      /\ \A i \in 1 .. Len(queue') : i \in 1 .. Len(queue) \/ i = n
  BY <1>1, <1>2
<1>4. Len(queue') <= Capacity
  BY <1>1, <1>2, <1>3, CapacityPositive
<1> HIDE DEF n
<1>5. \A i \in 1 .. Len(queue) : queue[i].client # c
  BY NoneIsNoCaller, Zenon DEF IInv, Awaited
<1>6. ASSUME NEW id \in Client \X Nat, Given(id)
      PROVE  id # command.id /\ Given(id)'
  <2>1. id[1] \in Client /\ id[2] \in Nat
    OBVIOUS
  <2>2. CASE id[1] = c
    <3>1. id[2] < client[c].tries
      BY <1>6, <2>2, Zenon DEF Given
    <3>2. id[2] < client'[c].tries
      BY <2>1, <3>1
    <3>3. id # <<c, client[c].tries>>
      BY <2>1, <3>1
    <3>4. QED
      BY <2>2, <3>2, <3>3, NoneIsNoCaller, Zenon DEF Given
  <2>3. CASE id[1] # c
    <3>1. id # <<c, client[c].tries>>
      BY <2>3
    <3>2. QED
      BY <1>6, <2>1, <2>3, <3>1, NoneIsNoCaller, Zenon DEF Given
  <2>4. QED
    BY <2>2, <2>3, Zenon
<1>7. ASSUME command.id # None
      PROVE  command.id[2] < client'[command.id[1]].tries
  <2>1. command.id[1] = c /\ command.id[2] = client[c].tries
    BY <1>7
  <2>2. QED
    BY <1>7, <2>1, Zenon
<1>8. /\ \A i \in 1 .. Len(queue) : queue[i].id # None => queue[i].id # command.id
      /\ \A i \in 1 .. Len(log) : log[i].id # command.id
  BY <1>6, Typed, Zenon DEF SInv, Numbered
<1>9. Numbered'
  <2>1. \A i \in 1 .. Len(queue') : queue'[i].client # None =>
            client'[queue'[i].client].id = queue'[i].id
    <3>1. \A i \in 1 .. Len(queue) : queue[i].client # None =>
              queue[i].client \in Client \ {c} /\ client[queue[i].client].id = queue[i].id
      BY <1>5, Typed, Zenon DEF SInv, Numbered
    <3>2. \A i \in 1 .. Len(queue) : queue'[i].client # None =>
              client'[queue'[i].client].id = queue'[i].id
      <4>1. ASSUME NEW i \in 1 .. Len(queue), queue'[i].client # None
            PROVE  client'[queue'[i].client].id = queue'[i].id
        <5>1. queue'[i] = queue[i]
          BY <1>3, Zenon
        <5>2. PICK d \in Client \ {c} : d = queue[i].client /\ client[d].id = queue[i].id
          BY <3>1, <4>1, <5>1, Zenon
        <5>3. QED
          BY <5>1, <5>2, Zenon
      <4>2. QED
        BY <4>1, Zenon
    <3>3. QED
      BY <1>3, <3>2, Zenon
  <2>2. \A i \in 1 .. Len(queue') : queue'[i].id # None =>
            queue'[i].id[2] < client'[queue'[i].id[1]].tries
    <3>1. \A i \in 1 .. Len(queue) : queue[i].id # None =>
              queue[i].id \in Client \X Nat /\ Given(queue[i].id)
      BY Typed, Zenon DEF SInv, Numbered
    <3>2. \A i \in 1 .. Len(queue) : queue[i].id # None =>
              queue[i].id[2] < client'[queue[i].id[1]].tries
      BY <1>6, <3>1, Zenon DEF Given
    <3>3. QED
      BY <1>3, <1>7, <3>2, Zenon
  <2>3. \A i \in 1 .. Len(log') : log'[i].id[2] < client'[log'[i].id[1]].tries
    <3>1. \A i \in 1 .. Len(log) : log[i].id \in Client \X Nat /\ Given(log[i].id)
      BY Typed, Zenon DEF SInv, Numbered
    <3>2. QED
      BY <1>6, <3>1, Zenon DEF Given
  <2>4. \A i, j \in 1 .. Len(queue') : queue'[i].id # None /\ queue'[i].id = queue'[j].id => i = j
    <3>1. \A i, j \in 1 .. Len(queue) : queue[i].id # None /\ queue[i].id = queue[j].id => i = j
      BY Zenon DEF SInv, Numbered
    <3>2. ASSUME NEW i \in 1 .. Len(queue'), NEW j \in 1 .. Len(queue'),
                 queue'[i].id # None, queue'[i].id = queue'[j].id
          PROVE  i = j
      <4>1. CASE i = n
        BY <1>3, <1>8, <3>2, <4>1, Zenon
      <4>2. CASE i \in 1 .. Len(queue)
        BY <1>3, <1>8, <3>1, <3>2, <4>2, ZenonT(30)
      <4>3. QED
        BY <1>3, <4>1, <4>2, Zenon
    <3>3. QED
      BY <3>2, Zenon
  <2>5. \A i \in 1 .. Len(queue'), m \in 1 .. Len(log') : queue'[i].id # log'[m].id
    <3>1. \A i \in 1 .. Len(queue), m \in 1 .. Len(log) : queue[i].id # log[m].id
      BY Zenon DEF SInv, Numbered
    <3>2. QED
      BY <1>3, <1>8, <3>1, ZenonT(30)
  <2>6. QED
    BY <2>1, <2>2, <2>3, <2>4, <2>5, Zenon DEF Numbered, Given
<1>10. ASSUME NEW d \in Client
       PROVE  Truthful(d)'
  <2>1. CASE client'[d].pc = "told" /\ client'[d].id # None
    <3>1. d # c /\ client'[d] = client[d] /\ client[d].id[1] = d
      BY <2>1, Zenon DEF SInv, Counted
    <3>2. command.id # client[d].id
      <4>1. <<c, client[c].tries>>[1] = c
        OBVIOUS
      <4>2. QED
        BY <2>1, <3>1, <4>1, Zenon
    <3>3. Truthful(d)
      BY Zenon DEF SInv, RepliesAreTrue, Truthful
    <3>4. \A i \in DOMAIN queue' : queue'[i].id = client[d].id =>
              \E k \in DOMAIN queue : queue[k].id = client[d].id
      BY <1>1, <1>3, <3>2, Zenon
    <3>5. QED
      BY <3>1, <3>3, <3>4, Zenon DEF Truthful
  <2>2. CASE ~ (client'[d].pc = "told" /\ client'[d].id # None)
    BY <2>2, Zenon DEF Truthful
  <2>3. QED
    BY <2>1, <2>2, Zenon
<1>11. RepliesAreTrue'
  BY <1>10, Zenon DEF SInv, RepliesAreTrue, Truthful
<1>12. QED
  BY <1>4, <1>9, <1>11, Zenon

LEMMA SubmitGetSafe ==
    ASSUME IInv, SInv, NEW c \in Client, NEW k \in Key, SubmitGet(c, k)
    PROVE  SInv'
<1> DEFINE command == [client |-> c, id |-> None, key |-> k]
<1>1. /\ client[c].pc = "idle" /\ client[c].tries < MaxCommits[c] /\ Accept(command)
      /\ client' = [client EXCEPT ![c].pc = "waiting", ![c].key = k]
      /\ UNCHANGED <<file, data, version, process, db, faults, crashes, log>>
  BY Zenon DEF SubmitGet
<1>2. command \in GetCommand \cup CommitCommand /\ command.client = c /\ command.id = None
  BY Zenon DEF GetCommand
<1> HIDE DEF command
<1>3. client \in [Client -> Caller]
  BY Zenon DEF IInv, Types
<1>4. /\ client'[c].pc = "waiting" /\ client'[c].tries = client[c].tries
      /\ client'[c].id = client[c].id /\ client'[c].reply = client[c].reply
      /\ client[c].tries \in Nat
      /\ \A d \in Client \ {c} : client'[d] = client[d]
  BY <1>1, <1>3 DEF Caller
<1>5. client[c].id = None /\ client[c].reply = None
  BY <1>1 DEF SInv, Counted
<1>6. Counted'
  BY <1>1, <1>4, <1>5, ZenonT(30) DEF SInv, Counted
<1>7. client[c].tries <= client'[c].tries
  BY <1>4
<1>8. Numbered' /\ RepliesAreTrue' /\ Len(queue') <= Capacity
  BY <1>1, <1>2, <1>4, <1>5, <1>7, AcceptSafe, Zenon
<1>9. FailuresHeal'
  BY <1>4, <1>5, NoneIsNoReply, Zenon DEF SInv, FailuresHeal
<1>10. TypeOK'
  BY <1>1, <1>4, <1>8, Zenon DEF SInv, TypeOK
<1>11. QED
  BY <1>6, <1>8, <1>9, <1>10, Zenon DEF SInv

LEMMA SubmitCommitSafe ==
    ASSUME IInv, SInv, NEW c \in Client, NEW delete \in BOOLEAN, SubmitCommit(c, delete)
    PROVE  SInv'
<1> DEFINE id == <<c, client[c].tries>>
           command == [client |-> c, id |-> id, key |-> client[c].key, seen |-> client[c].seen,
                       base |-> client[c].base, delete |-> delete]
<1>1. /\ client[c].pc = "read" /\ Accept(command)
      /\ client' = [client EXCEPT ![c].pc = "waiting", ![c].id = id, ![c].tries = @ + 1]
      /\ UNCHANGED <<file, data, version, process, db, faults, crashes, log>>
  BY Zenon DEF SubmitCommit
<1>2. client \in [Client -> Caller] /\ client[c] \in Caller /\ client[c].key \in Key
  BY <1>1, Zenon DEF IInv, Types, Awaited
<1>3. /\ id \in Client \X Nat /\ id[1] = c /\ id # None /\ client[c].tries \in Nat
  BY <1>2, NoneIsNoCaller DEF Caller
<1>4. command \in GetCommand \cup CommitCommand /\ command.client = c /\ command.id = id
  BY <1>2, <1>3, Zenon DEF CommitCommand, Caller
<1> HIDE DEF command
<1>5. /\ client'[c].pc = "waiting" /\ client'[c].tries = client[c].tries + 1
      /\ client'[c].id = id /\ client'[c].reply = client[c].reply
      /\ \A d \in Client \ {c} : client'[d] = client[d]
  BY <1>1, <1>2 DEF Caller
<1>6. client[c].id = None /\ client[c].reply = None /\ client[c].tries < MaxCommits[c]
  BY <1>1 DEF SInv, Counted
<1>7. /\ client'[c].tries \in Nat /\ client[c].tries < client'[c].tries
      /\ client[c].tries <= client'[c].tries /\ client'[c].tries <= MaxCommits[c]
  BY <1>3, <1>5, <1>6, BoundsAreNumbers
<1>8. Counted'
  BY <1>3, <1>5, <1>6, <1>7, Zenon DEF SInv, Counted
<1>9. Numbered' /\ RepliesAreTrue' /\ Len(queue') <= Capacity
  BY <1>1, <1>3, <1>4, <1>5, <1>7, AcceptSafe, Zenon
<1>10. FailuresHeal'
  BY <1>5, <1>6, NoneIsNoReply, Zenon DEF SInv, FailuresHeal
<1>11. TypeOK'
  BY <1>1, <1>5, <1>9, Zenon DEF SInv, TypeOK
<1>12. QED
  BY <1>8, <1>9, <1>10, <1>11, Zenon DEF SInv

\* A caller starts again: it forgets its reply, or gives up its command, which
\* keeps its number.
LEMMA RestSafe ==
    ASSUME IInv, SInv, NEW c \in Client, GiveUp(c) \/ Forget(c)
    PROVE  SInv'
<1>1. /\ client' = [client EXCEPT ![c] = Rest(c)]
      /\ UNCHANGED <<file, data, version, process, db, faults, crashes, log>>
  BY Zenon DEF GiveUp, Forget
<1>2. client \in [Client -> Caller] /\ log \in Seq(Entry)
      /\ queue \in Seq(GetCommand \cup CommitCommand)
  BY Zenon DEF IInv, Types
<1>3. /\ client'[c] = Rest(c) /\ \A d \in Client \ {c} : client'[d] = client[d]
  BY <1>1, <1>2, Zenon
<1>4. /\ client'[c].tries = client[c].tries /\ client'[c].pc = "idle"
      /\ client'[c].id = None /\ client'[c].reply = None
  BY <1>3, RestCount, Zenon
<1>5. /\ Len(queue') = Len(queue) /\ DOMAIN queue' = DOMAIN queue
      /\ \A i \in 1 .. Len(queue) :
             /\ queue'[i].id = queue[i].id
             /\ queue'[i].client # None => queue'[i].client = queue[i].client
                                           /\ queue'[i].client \in Client \ {c}
  <2>1. CASE Forget(c)
    <3>1. queue' = queue /\ client[c].pc \in {"read", "told"}
      BY <2>1, Zenon DEF Forget
    <3>2. \A i \in 1 .. Len(queue) : queue[i].client # None => queue[i].client \in Client \ {c}
      BY <1>2, <3>1 DEF IInv, Awaited, GetCommand, CommitCommand
    <3>3. QED
      BY <3>1, <3>2, Zenon
  <2>2. CASE GiveUp(c)
    <3>1. queue' = [i \in DOMAIN queue |->
              IF queue[i].client = c THEN [queue[i] EXCEPT !.client = None] ELSE queue[i]]
      BY <2>2, Zenon DEF GiveUp
    <3>2. DOMAIN queue = 1 .. Len(queue) /\ Len(queue) \in Nat
      BY <1>2
    <3>3. DOMAIN queue' = DOMAIN queue /\ Len(queue') = Len(queue)
      <4>1. DOMAIN queue' = 1 .. Len(queue)
        BY <3>1, <3>2, Zenon
      <4>2. queue' = [i \in 1 .. Len(queue) |-> queue'[i]]
        BY <3>1, <3>2, Zenon
      <4>3. QED
        BY <3>2, <4>1, <4>2
    <3>4. ASSUME NEW i \in 1 .. Len(queue)
          PROVE  /\ queue'[i].id = queue[i].id
                 /\ queue'[i].client # None => queue'[i].client = queue[i].client
                                               /\ queue'[i].client \in Client \ {c}
      <4>1. queue[i] \in GetCommand \cup CommitCommand
        BY <1>2
      <4>2. queue'[i] = IF queue[i].client = c THEN [queue[i] EXCEPT !.client = None] ELSE queue[i]
        BY <3>1, <3>2, Zenon
      <4>3. CASE queue[i] \in GetCommand
        BY <4>2, <4>3, Zenon DEF GetCommand
      <4>4. CASE queue[i] \in CommitCommand
        BY <4>2, <4>4, Zenon DEF CommitCommand
      <4>5. QED
        BY <4>1, <4>3, <4>4, Zenon
    <3>5. QED
      BY <3>3, <3>4, Zenon
  <2>3. QED
    BY <2>1, <2>2, Zenon
<1>6. Counted'
  BY <1>3, <1>4, Zenon DEF SInv, Counted
<1>7. Numbered'
  <2>1. \A d \in Client : client'[d].tries = client[d].tries
    BY <1>3, <1>4, Zenon
  <2>2. \A id \in Client \X Nat : Given(id) => Given(id)'
    BY <2>1, GivenStays, Zenon
  <2>3. /\ \A i \in 1 .. Len(queue') : queue'[i].id # None =>
               queue'[i].id[2] < client'[queue'[i].id[1]].tries
        /\ \A n \in 1 .. Len(log') : log'[n].id[2] < client'[log'[n].id[1]].tries
    <3>1. /\ \A i \in 1 .. Len(queue) : queue[i].id # None =>
                 queue[i].id[2] < client'[queue[i].id[1]].tries
          /\ \A n \in 1 .. Len(log) : log[n].id[2] < client'[log[n].id[1]].tries
      <4>1. /\ \A i \in 1 .. Len(queue) : queue[i].id # None =>
                   queue[i].id \in Client \X Nat /\ Given(queue[i].id)
            /\ \A n \in 1 .. Len(log) : log[n].id \in Client \X Nat /\ Given(log[n].id)
        BY Typed, Zenon DEF SInv, Numbered
      <4>2. QED
        BY <2>2, <4>1, Zenon DEF Given
    <3>2. QED
      BY <1>1, <1>5, <3>1, Zenon
  <2>4. \A i \in 1 .. Len(queue') : queue'[i].client # None =>
            client'[queue'[i].client].id = queue'[i].id
    <3>1. \A i \in 1 .. Len(queue) : queue[i].client # None =>
              client[queue[i].client].id = queue[i].id
      BY Zenon DEF SInv, Numbered
    <3>2. QED
      BY <1>3, <1>5, <3>1, Typed, ZenonT(30)
  <2>5. /\ \A i, j \in 1 .. Len(queue') :
               queue'[i].id # None /\ queue'[i].id = queue'[j].id => i = j
        /\ \A i \in 1 .. Len(queue'), n \in 1 .. Len(log') : queue'[i].id # log'[n].id
    <3>1. /\ \A i, j \in 1 .. Len(queue) : queue[i].id # None /\ queue[i].id = queue[j].id => i = j
          /\ \A i \in 1 .. Len(queue), n \in 1 .. Len(log) : queue[i].id # log[n].id
      BY Zenon DEF SInv, Numbered
    <3>2. \A i \in 1 .. Len(queue') : i \in 1 .. Len(queue) /\ queue'[i].id = queue[i].id
      BY <1>5, Zenon
    <3>3. \A i, j \in 1 .. Len(queue') :
              queue'[i].id # None /\ queue'[i].id = queue'[j].id => i = j
      BY <3>1, <3>2, ZenonT(30)
    <3>4. \A i \in 1 .. Len(queue'), n \in 1 .. Len(log') : queue'[i].id # log'[n].id
      BY <1>1, <3>1, <3>2, ZenonT(30)
    <3>5. QED
      BY <3>3, <3>4, Zenon
  <2>6. QED
    BY <2>3, <2>4, <2>5, Zenon DEF Numbered, Given
<1>8. RepliesAreTrue'
  <2>1. ASSUME NEW d \in Client PROVE Truthful(d)'
    <3>1. Truthful(d)
      BY Zenon DEF SInv, RepliesAreTrue, Truthful
    <3>2. CASE client'[d].pc = "told"
      <4>1. client'[d] = client[d]
        BY <1>3, <1>4, <3>2, Zenon
      <4>2. \A i \in DOMAIN queue' : i \in DOMAIN queue /\ queue'[i].id = queue[i].id
        BY <1>5, Typed, Zenon
      <4>3. QED
        BY <1>1, <3>1, <4>1, <4>2, Zenon DEF Truthful
    <3>3. CASE client'[d].pc # "told"
      BY <3>3, Zenon DEF Truthful
    <3>4. QED
      BY <3>2, <3>3, Zenon
  <2>2. QED
    BY <1>1, <2>1, Zenon DEF SInv, RepliesAreTrue, Truthful
<1>9. FailuresHeal'
  BY <1>3, <1>4, NoneIsNoReply DEF SInv, FailuresHeal
<1>10. TypeOK'
  BY <1>1, <1>3, <1>4, <1>5, Zenon DEF SInv, TypeOK
<1>11. QED
  BY <1>6, <1>7, <1>8, <1>9, <1>10, Zenon DEF SInv

\* An operation that fails met a failure, and one that succeeds is durable.
LEMMA OutcomeFacts ==
    /\ \A o \in ReadOutcome : /\ o.used \in Nat /\ o.db \in {"open", "closed"}
                              /\ ~ o.ok => o.used > 0
    /\ \A o \in CommitOutcome : /\ o.used \in Nat /\ o.db \in {"open", "closed"}
                                /\ ~ o.ok => o.used > 0
                                /\ o.ok => o.durable
<1>1. \A h \in EnsureOpen : /\ h.used \in Nat /\ h.db \in {"open", "closed"}
                            /\ h.db = "closed" => h.used > 0
  BY DEF EnsureOpen
<1>2. \A r \in Reopen : r.used \in Nat /\ r.db \in {"open", "closed"}
  BY DEF Reopen
<1>3. ASSUME NEW o \in ReadOutcome
      PROVE  o.used \in Nat /\ o.db \in {"open", "closed"} /\ (~ o.ok => o.used > 0)
  <2>1. PICK h \in EnsureOpen :
            \/ h.db = "closed" /\ o.used = h.used /\ o.db = "closed"
            \/ o.used = h.used /\ o.ok /\ o.db = "open"
            \/ o.used = h.used + 1 /\ o.ok /\ o.db = "open"
            \/ o.used = h.used + 2 /\ o.db = "closed"
    BY <1>3 DEF ReadOutcome
  <2>2. QED
    BY <1>1, <2>1
<1>4. ASSUME NEW o \in CommitOutcome
      PROVE  /\ o.used \in Nat /\ o.db \in {"open", "closed"} /\ (~ o.ok => o.used > 0)
             /\ o.ok => o.durable
  <2>1. PICK h \in EnsureOpen :
            \/ h.db = "closed" /\ o.used = h.used /\ o.db = "closed" /\ ~ o.ok
            \/ o.used = h.used /\ o.ok /\ o.durable /\ o.db = "open"
            \/ \E r \in Reopen : o.used = h.used + 1 + r.used /\ o.db = r.db /\ ~ o.ok
    BY <1>4 DEF CommitOutcome
  <2>2. QED
    BY <1>1, <1>2, <2>1
<1>5. QED
  BY <1>3, <1>4, Zenon

\* A commit moves from the queue to the log, or out of the queue only.
LEMMA ServedNumbers ==
    ASSUME IInv, SInv, Serves, queue' = Tail(queue), NEW a \in Caller,
           Head(queue).client # None =>
               /\ a.tries = client[Head(queue).client].tries
               /\ a.id = client[Head(queue).client].id
               /\ a.pc = "told" \/ (a.pc = "read" /\ a.id = None /\ a.reply = None),
           client' = IF Head(queue).client = None THEN client
                     ELSE [client EXCEPT ![Head(queue).client] = a],
           \/ log' = log
           \/ \E e \in Entry : e.id = Head(queue).id /\ log' = Append(log, e)
    PROVE  /\ Counted' /\ Numbered'
           /\ \A i, j \in DOMAIN log' : log'[i].id = log'[j].id => i = j
           /\ \A d \in Client : d # Head(queue).client => Truthful(d)'
<1> DEFINE command == Head(queue)
           c == command.client
<1>1. /\ queue \in Seq(GetCommand \cup CommitCommand) /\ queue # <<>>
      /\ client \in [Client -> Caller] /\ log \in Seq(Entry)
  BY Zenon DEF IInv, Types, Serves
<1>2. /\ Len(queue) \in Nat \ {0} /\ Len(queue') = Len(queue) - 1 /\ command = queue[1]
      /\ \A i \in 1 .. Len(queue') : i + 1 \in 1 .. Len(queue) /\ queue'[i] = queue[i + 1]
      /\ DOMAIN queue' = 1 .. Len(queue') /\ 1 \in 1 .. Len(queue)
      /\ DOMAIN queue = 1 .. Len(queue)
  BY <1>1
<1>3. \A i \in 1 .. Len(queue) : /\ queue[i].client \in Client \cup {None}
                                 /\ queue[i].id \in (Client \X Nat) \cup {None}
  BY <1>1 DEF GetCommand, CommitCommand
<1>4. c # None => /\ c \in Client /\ client'[c] = a /\ client[c].pc = "waiting"
                  /\ \A d \in Client \ {c} : client'[d] = client[d]
  <2>1. c # None => c \in Client /\ client[c].pc = "waiting"
    BY <1>2, <1>3 DEF IInv, Awaited
  <2>2. QED
    BY <1>1, <2>1, Zenon
<1>5. /\ \A d \in Client : d # c => client'[d] = client[d]
      /\ \A d \in Client : client'[d].tries = client[d].tries
      /\ \A d \in Client : client'[d].id = client[d].id
  BY <1>1, <1>4, Zenon
<1>6. /\ Len(log) \in Nat /\ DOMAIN log = 1 .. Len(log) /\ DOMAIN log' = 1 .. Len(log')
      /\ Len(log') \in {Len(log), Len(log) + 1}
      /\ \A n \in 1 .. Len(log) : log'[n] = log[n] /\ log[n].id \in Client \X Nat
      /\ \A n \in 1 .. Len(log') : n \notin 1 .. Len(log) =>
             n = Len(log) + 1 /\ log'[n].id = command.id /\ command.id \in Client \X Nat
  <2>1. \A n \in 1 .. Len(log) : log[n].id \in Client \X Nat
    BY Typed, Zenon
  <2>2. \A e \in Entry : e.id \in Client \X Nat
    BY Zenon DEF Entry
  <2>3. CASE log' = log
    BY <1>1, <2>1, <2>3
  <2>4. ASSUME NEW e \in Entry, e.id = command.id, log' = Append(log, e)
        PROVE  <1>6!:
    <3>1. /\ Len(log) \in Nat /\ DOMAIN log = 1 .. Len(log) /\ DOMAIN log' = 1 .. Len(log')
          /\ Len(log') = Len(log) + 1 /\ log'[Len(log) + 1] = e
          /\ \A n \in 1 .. Len(log) : log'[n] = log[n]
          /\ \A n \in 1 .. Len(log') : n \notin 1 .. Len(log) => n = Len(log) + 1
      BY <1>1, <2>4
    <3>2. QED
      BY <2>1, <2>2, <2>4, <3>1, Zenon
  <2>5. QED
    BY <2>3, <2>4, Zenon
<1> HIDE DEF command, c
<1>7. Counted'
  <2>1. ASSUME NEW d \in Client, d # c
        PROVE  /\ client'[d].tries <= MaxCommits[d]
               /\ client'[d].pc \in {"waiting", "read"} /\ client'[d].id = None =>
                      client'[d].tries < MaxCommits[d]
               /\ client'[d].pc \in {"idle", "read"} => client'[d].id = None
               /\ client'[d].id # None => client'[d].id[1] = d
               /\ client'[d].pc # "told" => client'[d].reply = None
    BY <1>5, <2>1, Zenon DEF SInv, Counted
  <2>2. ASSUME NEW d \in Client, d = c, c # None
        PROVE  /\ client'[d].tries <= MaxCommits[d]
               /\ client'[d].pc \in {"waiting", "read"} /\ client'[d].id = None =>
                      client'[d].tries < MaxCommits[d]
               /\ client'[d].pc \in {"idle", "read"} => client'[d].id = None
               /\ client'[d].id # None => client'[d].id[1] = d
               /\ client'[d].pc # "told" => client'[d].reply = None
    <3>1. client'[d] = a /\ (a.pc = "told" \/ (a.pc = "read" /\ a.id = None /\ a.reply = None))
      BY <1>4, <2>2, Zenon DEF c, command
    <3>2. QED
      BY <1>4, <1>5, <2>2, <3>1 DEF SInv, Counted
  <2>3. QED
    BY <2>1, <2>2, NoneIsNoCaller, Zenon DEF Counted
<1>8. \A id \in Client \X Nat : Given(id) => Given(id)'
  BY <1>5 DEF Given
<1>9. Numbered'
  <2>1. \A i \in 1 .. Len(queue') : queue'[i].client # None =>
            client'[queue'[i].client].id = queue'[i].id
    BY <1>2, <1>3, <1>5 DEF SInv, Numbered
  <2>2. (\A i \in 1 .. Len(queue) : queue[i].id # None => Given(queue[i].id))'
    <3>1. ASSUME NEW i \in 1 .. Len(queue'), queue'[i].id # None
          PROVE  \E x \in Client \X Nat : x = queue'[i].id /\ Given(x)
      BY <1>2, <1>3, <3>1 DEF SInv, Numbered
    <3>2. QED
      BY <1>8, <3>1, Zenon DEF Given
  <2>3. (\A n \in 1 .. Len(log) : Given(log[n].id))'
    <3>1. command.id # None => Given(command.id)
      BY <1>2 DEF SInv, Numbered
    <3>2. ASSUME NEW n \in 1 .. Len(log')
          PROVE  \E x \in Client \X Nat : x = log'[n].id /\ Given(x)
      <4>1. \A m \in 1 .. Len(log) : Given(log[m].id)
        BY Zenon DEF SInv, Numbered
      <4>2. CASE n \in 1 .. Len(log)
        BY <1>6, <4>1, <4>2, Zenon
      <4>3. CASE n \notin 1 .. Len(log)
        BY <1>6, <3>1, <4>3, NoneIsNoCaller, Zenon
      <4>4. QED
        BY <4>2, <4>3, Zenon
    <3>3. QED
      BY <1>8, <3>2, Zenon DEF Given
  <2>4. \A i, j \in 1 .. Len(queue') : queue'[i].id # None /\ queue'[i].id = queue'[j].id => i = j
    BY <1>2 DEF SInv, Numbered
  <2>5. \A i \in 1 .. Len(queue'), n \in 1 .. Len(log') : queue'[i].id # log'[n].id
    <3>1. \A i \in 1 .. Len(queue') : \E k \in 1 .. Len(queue) : k # 1 /\ queue'[i] = queue[k]
      BY <1>2
    <3>2. \A n \in 1 .. Len(log') :
              \/ n \in 1 .. Len(log) /\ log'[n] = log[n]
              \/ log'[n].id = command.id /\ command.id # None
      BY <1>6, NoneIsNoCaller, Zenon
    <3>3. \A k \in 1 .. Len(queue) : k # 1 /\ command.id # None => queue[k].id # command.id
      BY <1>2, Zenon DEF SInv, Numbered
    <3>4. \A k \in 1 .. Len(queue), m \in 1 .. Len(log) : queue[k].id # log[m].id
      BY Zenon DEF SInv, Numbered
    <3>5. ASSUME NEW i \in 1 .. Len(queue'), NEW n \in 1 .. Len(log')
          PROVE  queue'[i].id # log'[n].id
      <4>1. PICK k \in 1 .. Len(queue) : k # 1 /\ queue'[i] = queue[k]
        BY <3>1, Zenon
      <4>2. CASE n \in 1 .. Len(log) /\ log'[n] = log[n]
        BY <3>4, <4>1, <4>2, Zenon
      <4>3. CASE log'[n].id = command.id /\ command.id # None
        BY <3>3, <4>1, <4>3, Zenon
      <4>4. QED
        BY <3>2, <4>2, <4>3, Zenon
    <3>6. QED
      BY <3>5, Zenon
  <2>6. QED
    BY <2>1, <2>2, <2>3, <2>4, <2>5, Zenon DEF Numbered
<1>10. ASSUME NEW i \in DOMAIN log', NEW j \in DOMAIN log', log'[i].id = log'[j].id
       PROVE  i = j
  <2>1. \A n \in 1 .. Len(log) : log[n].id # command.id
    BY <1>2, Zenon DEF SInv, Numbered
  <2>2. \A m, n \in 1 .. Len(log) : log[m].id = log[n].id => m = n
    BY <1>6, Zenon DEF SInv, RepliesAreTrue
  <2>3. i \in 1 .. Len(log') /\ j \in 1 .. Len(log')
    BY <1>6, Zenon
  <2>4. CASE i \in 1 .. Len(log) /\ j \in 1 .. Len(log)
    BY <1>6, <1>10, <2>2, <2>4, Zenon
  <2>5. CASE i \in 1 .. Len(log) /\ j \notin 1 .. Len(log)
    BY <1>6, <1>10, <2>1, <2>3, <2>5, Zenon
  <2>6. CASE i \notin 1 .. Len(log) /\ j \in 1 .. Len(log)
    BY <1>6, <1>10, <2>1, <2>3, <2>6, Zenon
  <2>7. CASE i \notin 1 .. Len(log) /\ j \notin 1 .. Len(log)
    BY <1>6, <2>3, <2>7, Zenon
  <2>8. QED
    BY <2>4, <2>5, <2>6, <2>7, Zenon
<1>11. ASSUME NEW d \in Client, d # c
       PROVE  Truthful(d)'
  <2>1. Truthful(d)
    BY Zenon DEF SInv, RepliesAreTrue, Truthful
  <2>2. client'[d] = client[d]
    BY <1>5, <1>11, Zenon
  <2>3. \A i \in DOMAIN log : i \in DOMAIN log' /\ log'[i] = log[i]
    <3>1. Len(log) \in Nat /\ (Len(log') = Len(log) \/ Len(log') = Len(log) + 1)
      BY <1>6, Zenon
    <3>2. \A i \in 1 .. Len(log) : i \in 1 .. Len(log')
      BY <3>1
    <3>3. QED
      BY <1>6, <3>2, Zenon
  <2>4. \A i \in DOMAIN log' : i \in DOMAIN log \/ \E k \in DOMAIN queue : log'[i].id = queue[k].id
    BY <1>2, <1>6, Zenon
  <2>5. \A i \in DOMAIN queue' : \E k \in DOMAIN queue : queue'[i] = queue[k]
    BY <1>2
  <2>6. CASE \E i \in DOMAIN log : log[i].id = client[d].id
    BY <2>1, <2>2, <2>3, <2>6, Zenon DEF Truthful
  <2>7. CASE \A i \in DOMAIN queue : queue[i].id # client[d].id
    BY <2>1, <2>2, <2>3, <2>4, <2>5, <2>7, ZenonT(30) DEF Truthful
  <2>8. CASE client[d].reply \notin {"ok", "conflict", "exhausted"}
    BY <2>2, <2>8, Zenon DEF Truthful
  <2>9. QED
    BY <2>1, <2>2, <2>6, <2>7, <2>8, Zenon DEF Truthful
<1>12. QED
  BY <1>7, <1>9, <1>10, <1>11, Zenon DEF c, command

\* A caller that was answered, after n faults.
HasReply(c, reply, n) == [Told(c, reply) EXCEPT !.met = n]

\* An answer keeps the caller's count and its commit.
LEMMA AnswerFacts ==
    ASSUME IInv, Serves, NEW c, c = Head(queue).client, c # None, NEW n \in Nat,
           NEW reply \in {"unavailable", "conflict", "exhausted", "ok"}
    PROVE  /\ HasReply(c, reply, n) \in Caller /\ HasReply(c, reply, n).pc = "told"
           /\ HasReply(c, reply, n).reply = reply /\ HasReply(c, reply, n).met = n
           /\ HasReply(c, reply, n).tries = client[c].tries
           /\ HasReply(c, reply, n).id = client[c].id
<1> DEFINE told == [client[c] EXCEPT !.pc = "told", !.reply = reply]
<1>1. client[c] \in Caller
  BY ServedCaller, Zenon
<1>2. Told(c, reply) = told
  BY Zenon DEF Told
<1>3. /\ told \in Caller /\ told.pc = "told" /\ told.reply = reply
      /\ told.tries = client[c].tries /\ told.id = client[c].id
  BY <1>1, Zenon DEF Caller
<1> HIDE DEF told
<1>4. /\ [told EXCEPT !.met = n] \in Caller /\ [told EXCEPT !.met = n].pc = "told"
      /\ [told EXCEPT !.met = n].reply = reply /\ [told EXCEPT !.met = n].met = n
      /\ [told EXCEPT !.met = n].tries = client[c].tries
      /\ [told EXCEPT !.met = n].id = client[c].id
  BY <1>3, Zenon DEF Caller
<1>5. QED
  BY <1>2, <1>4, Zenon DEF HasReply

LEMMA ServeGetSafe ==
    ASSUME IInv, SInv, ServeGet
    PROVE  SInv'
<1> DEFINE command == Head(queue)
           c == command.client
           found == IF data[command.key] = None THEN None ELSE data[command.key].version
           read == [client[c] EXCEPT !.pc = "read", !.base = Len(log), !.seen = found]
<1>1. PICK o \in ReadOutcome :
          Finish(o, IF c = None \/ ~ o.ok THEN Told(c, "unavailable") ELSE read)
  BY Zenon DEF ServeGet
<1>2. /\ Serves /\ command.id = None /\ queue' = Tail(queue)
      /\ UNCHANGED <<file, process, data, version, crashes, log>>
      /\ db' = o.db /\ faults' = faults + o.used /\ faults + o.used <= MaxFaults
  BY <1>1, Zenon DEF ServeGet, Finish
<1>3. o.used \in Nat /\ o.db \in {"open", "closed"} /\ (~ o.ok => o.used > 0)
  BY OutcomeFacts, Zenon
<1>4. c # None => c \in Client /\ client[c] \in Caller
  BY <1>2, ServedCaller, Zenon
<1>5. c # None => client[c].id = None /\ client[c].pc = "waiting" /\ client[c].reply = None
  <2>1. command = queue[1] /\ 1 \in 1 .. Len(queue)
    BY <1>2 DEF Serves, IInv, Types
  <2>2. c # None => client[c].id = None /\ client[c].pc = "waiting"
    BY <1>2, <2>1, Zenon DEF SInv, Numbered, IInv, Awaited
  <2>3. QED
    BY <1>4, <2>2 DEF SInv, Counted
<1>6. PICK a \in Caller :
          /\ client' = IF c = None THEN client ELSE [client EXCEPT ![c] = a]
          /\ c # None => /\ a.tries = client[c].tries /\ a.id = client[c].id
                         /\ \/ a.pc = "told" /\ a.reply = "unavailable" /\ a.met > 0
                            \/ a.pc = "read" /\ a.id = None /\ a.reply = None
  <2>1. CASE c = None
    <3>1. client' = client
      BY <1>1, <2>1, Zenon DEF Finish
    <3>2. Idle \in Caller
      BY Zenon DEF Idle, Caller
    <3>3. QED
      BY <2>1, <3>1, <3>2, Zenon
  <2>2. CASE c # None /\ ~ o.ok
    <3>1. client' = [client EXCEPT ![c] = [Told(c, "unavailable") EXCEPT !.met = o.used]]
      BY <1>1, <2>2, Zenon DEF Finish
    <3>2. PICK n \in Nat : n = o.used /\ n > 0
      BY <1>3, <2>2, Zenon
    <3>3. PICK a : a = HasReply(c, "unavailable", n)
      OBVIOUS
    <3>4. /\ a \in Caller /\ a.pc = "told" /\ a.reply = "unavailable" /\ a.met = n
          /\ a.tries = client[c].tries /\ a.id = client[c].id
      <4>1. Serves /\ c = Head(queue).client /\ c # None
        BY <1>2, <2>2, Zenon
      <4> HIDE DEF c
      <4>2. /\ HasReply(c, "unavailable", n) \in Caller
            /\ HasReply(c, "unavailable", n).pc = "told"
            /\ HasReply(c, "unavailable", n).reply = "unavailable"
            /\ HasReply(c, "unavailable", n).met = n
            /\ HasReply(c, "unavailable", n).tries = client[c].tries
            /\ HasReply(c, "unavailable", n).id = client[c].id
        BY <4>1, AnswerFacts, SMT
      <4>3. QED
        BY <3>3, <4>2, Zenon
    <3>5. QED
      BY <2>2, <3>1, <3>2, <3>3, <3>4, Zenon DEF HasReply
  <2>3. CASE c # None /\ o.ok
    <3>1. client' = [client EXCEPT ![c] = [read EXCEPT !.met = o.used]]
      BY <1>1, <2>3, Zenon DEF Finish
    <3>2. found \in Nat \cup {None} /\ Len(log) \in Nat
      <4>1. command.key \in Key
        BY <1>2 DEF IInv, Types, Serves, GetCommand, CommitCommand
      <4>2. QED
        BY <4>1 DEF IInv, Types, DataFollowsLog, LastCommit
    <3> HIDE DEF found, c
    <3>3. /\ read \in Caller /\ read.pc = "read" /\ read.tries = client[c].tries
          /\ read.id = client[c].id /\ read.reply = client[c].reply
      BY <1>4, <2>3, <3>2, Zenon DEF Caller
    <3> HIDE DEF read
    <3>4. /\ [read EXCEPT !.met = o.used] \in Caller /\ [read EXCEPT !.met = o.used].pc = "read"
          /\ [read EXCEPT !.met = o.used].tries = client[c].tries
          /\ [read EXCEPT !.met = o.used].id = client[c].id
          /\ [read EXCEPT !.met = o.used].reply = client[c].reply
      BY <1>3, <3>3, Zenon DEF Caller
    <3>5. QED
      BY <1>5, <2>3, <3>1, <3>4, Zenon
  <2>4. QED
    BY <2>1, <2>2, <2>3, Zenon
<1>7. /\ Counted' /\ Numbered'
      /\ \A i, j \in DOMAIN log' : log'[i].id = log'[j].id => i = j
      /\ \A d \in Client : d # c => Truthful(d)'
  BY <1>2, <1>6, ServedNumbers, Zenon
<1>8. /\ \A d \in Client : d # c => client'[d] = client[d]
      /\ c # None => client'[c] = a
  BY <1>4, <1>6, Zenon DEF IInv, Types
<1> HIDE DEF c, command, found, read
<1>9. RepliesAreTrue'
  <2>1. \A d \in Client : d = c => Truthful(d)'
    BY <1>4, <1>6, <1>8, NoneIsNoCaller DEF Truthful
  <2>2. QED
    BY <1>7, <2>1, Zenon DEF RepliesAreTrue, Truthful
<1>10. FailuresHeal'
  BY <1>6, <1>8, NoneIsNoCaller, NoneIsNoReply DEF SInv, FailuresHeal
<1>11. TypeOK'
  <2>1. Len(queue') <= Capacity
    <3>1. queue \in Seq(GetCommand \cup CommitCommand) /\ queue # <<>> /\ Len(queue) <= Capacity
      BY <1>2, Zenon DEF Serves, IInv, Types, SInv, TypeOK
    <3>2. QED
      BY <1>2, <3>1, CapacityPositive
  <2>2. faults' \in 0 .. MaxFaults
    BY <1>2, <1>3, BoundsAreNumbers DEF SInv, TypeOK
  <2>3. \A d \in Client : client'[d].pc \in {"idle", "waiting", "read", "told"}
    BY <1>6, <1>8, NoneIsNoCaller, Zenon DEF SInv, TypeOK
  <2>4. QED
    BY <1>2, <1>3, <2>1, <2>2, <2>3, Zenon DEF SInv, TypeOK
<1>12. QED
  BY <1>7, <1>9, <1>10, <1>11, Zenon DEF SInv

LEMMA ServeCommitSafe ==
    ASSUME IInv, SInv, ServeCommit
    PROVE  SInv'
<1> DEFINE command == Head(queue)
           c == command.client
           takes(o) == o.durable /\ Holds(command) /\ version < MaxVersion
<1>1. PICK o \in CommitOutcome :
          /\ IF takes(o) THEN Apply(command) ELSE UNCHANGED <<data, version, log>>
          /\ Finish(o, Told(c, CommitReply(o, command)))
  BY Zenon DEF ServeCommit
<1>2. /\ Serves /\ command.id # None /\ queue' = Tail(queue)
      /\ UNCHANGED <<file, process, crashes>>
      /\ db' = o.db /\ faults' = faults + o.used /\ faults + o.used <= MaxFaults
  BY <1>1, Zenon DEF ServeCommit, Finish
<1>3. /\ o.used \in Nat /\ o.db \in {"open", "closed"} /\ (~ o.ok => o.used > 0)
      /\ o.ok => o.durable
  BY OutcomeFacts, Zenon
<1>4. c # None => c \in Client /\ client[c] \in Caller
  BY <1>2, ServedCaller, Zenon
<1>5. /\ queue \in Seq(GetCommand \cup CommitCommand) /\ queue # <<>>
      /\ command = queue[1] /\ 1 \in 1 .. Len(queue) /\ Len(queue) \in Nat
      /\ Len(queue') = Len(queue) - 1 /\ DOMAIN queue' = 1 .. Len(queue')
      /\ \A i \in 1 .. Len(queue') : i + 1 \in 1 .. Len(queue) /\ queue'[i] = queue[i + 1]
      /\ log \in Seq(Entry)
  BY <1>2 DEF Serves, IInv, Types
<1>6. command \in CommitCommand /\ Given(command.id)
  <2>1. command \in GetCommand \cup CommitCommand
    BY <1>5
  <2>2. QED
    BY <1>2, <1>5, <2>1, Zenon DEF GetCommand, SInv, Numbered
<1>7. PICK a \in Caller :
          /\ client' = IF c = None THEN client ELSE [client EXCEPT ![c] = a]
          /\ c # None => /\ a.tries = client[c].tries /\ a.id = client[c].id /\ a.pc = "told"
                         /\ a.reply = CommitReply(o, command) /\ a.met = o.used
  <2>1. CASE c = None
    <3>1. client' = client
      BY <1>1, <2>1, Zenon DEF Finish
    <3>2. Idle \in Caller
      BY Zenon DEF Idle, Caller
    <3>3. QED
      BY <2>1, <3>1, <3>2, Zenon
  <2>2. CASE c # None
    <3>1. client' = [client EXCEPT ![c] = [Told(c, CommitReply(o, command)) EXCEPT !.met = o.used]]
      BY <1>1, <2>2, Zenon DEF Finish
    <3>2. PICK reply \in {"unavailable", "conflict", "exhausted", "ok"} :
              reply = CommitReply(o, command)
      BY Zenon DEF CommitReply
    <3>3. PICK n \in Nat : n = o.used
      BY <1>3, Zenon
    <3>4. PICK a : a = HasReply(c, reply, n)
      OBVIOUS
    <3>5. /\ a \in Caller /\ a.pc = "told" /\ a.reply = reply /\ a.met = n
          /\ a.tries = client[c].tries /\ a.id = client[c].id
      <4>1. Serves /\ c = Head(queue).client /\ c # None
        BY <1>2, <2>2, Zenon
      <4> HIDE DEF c
      <4>2. /\ HasReply(c, reply, n) \in Caller /\ HasReply(c, reply, n).pc = "told"
            /\ HasReply(c, reply, n).reply = reply /\ HasReply(c, reply, n).met = n
            /\ HasReply(c, reply, n).tries = client[c].tries
            /\ HasReply(c, reply, n).id = client[c].id
        BY <4>1, AnswerFacts, SMT
      <4>3. QED
        BY <3>4, <4>2, Zenon
    <3>6. QED
      BY <2>2, <3>1, <3>2, <3>3, <3>4, <3>5, Zenon DEF HasReply
  <2>3. QED
    BY <2>1, <2>2, Zenon
<1> DEFINE entry == [id |-> command.id, key |-> command.key, base |-> command.base,
                     seen |-> command.seen, delete |-> command.delete]
<1>8. entry \in Entry /\ entry.id = command.id
  BY <1>6, Zenon DEF CommitCommand, Entry
<1>9. IF takes(o) THEN log' = Append(log, entry) ELSE log' = log
  BY <1>1, Zenon DEF Apply
<1> HIDE DEF entry
<1>10. /\ Counted' /\ Numbered'
       /\ \A i, j \in DOMAIN log' : log'[i].id = log'[j].id => i = j
       /\ \A d \in Client : d # c => Truthful(d)'
  <2>1. log' = log \/ \E e \in Entry : e.id = Head(queue).id /\ log' = Append(log, e)
    BY <1>8, <1>9, Zenon
  <2>2. QED
    BY <1>2, <1>7, <2>1, ServedNumbers, Zenon
<1>11. /\ \A d \in Client : d # c => client'[d] = client[d]
       /\ c # None => client'[c] = a
  BY <1>4, <1>7, Zenon DEF IInv, Types
<1>12. \A d \in Client : d = c => Truthful(d)'
  <2>1. c # None => client'[c].id = command.id
    <3>1. c # None => client[c].id = command.id
      BY <1>5, ZenonT(30) DEF SInv, Numbered
    <3>2. QED
      BY <1>7, <1>11, <3>1, Zenon
  <2>2. ASSUME a.reply = "ok", c # None
        PROVE  \E i \in DOMAIN log' : log'[i].id = command.id
    <3>1. o.ok /\ Holds(command) /\ version # MaxVersion
      BY <1>7, <2>2, Zenon DEF CommitReply
    <3>2. version < MaxVersion
      BY <3>1, BoundsAreNumbers DEF SInv, TypeOK
    <3>3. log' = Append(log, entry)
      BY <1>3, <1>9, <3>1, <3>2, Zenon
    <3>4. QED
      BY <1>5, <1>8, <3>3
  <2>3. ASSUME a.reply \in {"conflict", "exhausted"}, c # None
        PROVE  log' = log
    <3>1. ~ Holds(command) \/ version = MaxVersion
      BY <1>7, <2>3, Zenon DEF CommitReply
    <3>2. version = MaxVersion => ~ (version < MaxVersion)
      BY BoundsAreNumbers
    <3>3. QED
      BY <1>9, <3>1, <3>2, Zenon
  <2>4. /\ \A n \in DOMAIN log : log[n].id # command.id
        /\ \A i \in DOMAIN queue' : queue'[i].id # command.id
    <3>1. \A n \in 1 .. Len(log) : queue[1].id # log[n].id
      BY <1>5, Zenon DEF SInv, Numbered
    <3>2. \A j \in 1 .. Len(queue) : queue[1].id # None /\ queue[1].id = queue[j].id => 1 = j
      BY <1>5, Zenon DEF SInv, Numbered
    <3>3. \A i \in 1 .. Len(queue') : i + 1 # 1
      BY <1>5
    <3>4. \A i \in DOMAIN queue' : queue'[i].id # command.id
      BY <1>2, <1>5, <3>2, <3>3, Zenon
    <3>5. QED
      BY <1>5, <3>1, <3>4, Typed, Zenon
  <2>5. QED
    BY <1>11, <2>1, <2>2, <2>3, <2>4, NoneIsNoCaller, Zenon DEF Truthful
<1>13. RepliesAreTrue'
  BY <1>10, <1>12, NoneIsNoCaller, Zenon DEF RepliesAreTrue, Truthful
<1>14. FailuresHeal'
  <2>1. CommitReply(o, command) = "unavailable" => o.used > 0
    BY <1>3, Zenon DEF CommitReply
  <2>2. QED
    BY <1>7, <1>11, <2>1, NoneIsNoCaller, Zenon DEF SInv, FailuresHeal
<1>15. TypeOK'
  <2>1. Len(queue') <= Capacity
    BY <1>5, CapacityPositive DEF SInv, TypeOK
  <2>2. faults' \in 0 .. MaxFaults
    BY <1>2, <1>3, BoundsAreNumbers DEF SInv, TypeOK
  <2>3. \A d \in Client : client'[d].pc \in {"idle", "waiting", "read", "told"}
    BY <1>7, <1>11, NoneIsNoCaller, Zenon DEF SInv, TypeOK
  <2>4. data' \in [Key -> Record \cup {None}] /\ version' \in 0 .. MaxVersion
    <3>1. CASE takes(o)
      <4>1. /\ data' = [data EXCEPT ![command.key] =
                   IF command.delete THEN None
                   ELSE [value |-> command.id, version |-> version + 1]]
            /\ version' = version + 1
        BY <1>1, <3>1, Zenon DEF Apply, NextVersion
      <4>2. version + 1 \in 1 .. MaxVersion
        BY <3>1, BoundsAreNumbers DEF SInv, TypeOK
      <4>3. command.id \in Id
        <5>1. PICK d \in Client, m \in Nat : command.id = <<d, m>>
          BY <1>6 DEF CommitCommand
        <5>2. m < client[d].tries /\ client[d].tries <= MaxCommits[d] /\ client[d].tries \in Nat
          BY <1>6, <5>1 DEF Given, SInv, Counted, IInv, Types, Caller
        <5>3. m \in 0 .. MaxCommits[d]
          BY <5>2, BoundsAreNumbers
        <5>4. <<d, m>> \in {d} \X (0 .. MaxCommits[d])
          BY <5>3
        <5>5. QED
          BY <5>1, <5>4, Zenon DEF Id
      <4>4. [value |-> command.id, version |-> version + 1] \in Record
        BY <4>2, <4>3, Zenon DEF Record
      <4>5. version' \in 0 .. MaxVersion
        BY <4>1, <4>2
      <4>6. QED
        BY <4>1, <4>4, <4>5, Zenon DEF SInv, TypeOK
    <3>2. CASE ~ takes(o)
      BY <1>1, <3>2, Zenon DEF SInv, TypeOK
    <3>3. QED
      BY <3>1, <3>2, Zenon
  <2>5. QED
    BY <1>2, <1>3, <2>1, <2>2, <2>3, <2>4, Zenon DEF SInv, TypeOK
<1>16. QED
  BY <1>10, <1>13, <1>14, <1>15, Zenon DEF SInv

LEMMA NextSInv ==
    ASSUME IInv, SInv, [Next]_vars
    PROVE  SInv'
<1>1. CASE CreateFile \/ InitializeFormat \/ OpenFile \/ DropHandle \/ UNCHANGED vars
  BY <1>1, LifecycleSafe, Zenon
<1>2. CASE JoinOwner \/ Crash
  BY <1>2, StopSafe, Zenon
<1>3. ASSUME NEW c \in Client, NEW k \in Key, SubmitGet(c, k) PROVE SInv'
  BY <1>3, SubmitGetSafe, Zenon
<1>4. ASSUME NEW c \in Client, NEW delete \in BOOLEAN, SubmitCommit(c, delete) PROVE SInv'
  BY <1>4, SubmitCommitSafe, Zenon
<1>5. ASSUME NEW c \in Client, GiveUp(c) \/ Forget(c) PROVE SInv'
  BY <1>5, RestSafe, Zenon
<1>6. CASE ServeGet
  BY <1>6, ServeGetSafe, Zenon
<1>7. CASE ServeCommit
  BY <1>7, ServeCommitSafe, Zenon
<1>8. QED
  BY <1>1, <1>2, <1>3, <1>4, <1>5, <1>6, <1>7, Zenon DEF Next

\* The store is safe for any callers and bounds: no commit takes effect twice
\* or behind the back of a caller that was told otherwise, an operation fails
\* as unavailable only on an I/O failure of its own, no update is lost, a file
\* that was in use opens again, and the command queue keeps its capacity.
THEOREM StoreStaysSafe == Spec => []StoreIsSafe
<1>1. SInv => TypeOK /\ RepliesAreTrue /\ FailuresHeal
  BY Zenon DEF SInv
<1>2. Spec => []SInv
  BY InductiveInvariant, InitSInv, NextSInv, PTL DEF Spec
<1>3. QED
  BY <1>1, <1>2, UpdatesNotLost, FilesReopen, PTL DEF StoreIsSafe

-----------------------------------------------------------------------------
(* An accepted commit is decided.                                          *)

\* What a step does with the commits of the queue.
Decides ==
    \A i \in DOMAIN queue :
        queue[i].id # None /\ ~Queued(queue[i].id, queue') =>
            \/ Effective(queue[i].id, log')
            \/ ~Holds(queue[i]) \/ version = MaxVersion
            \/ faults' > faults \/ crashes' > crashes

\* A step that keeps every place of the queue, whoever waits for it.
LEMMA KeptCommits ==
    ASSUME \A i \in DOMAIN queue : i \in DOMAIN queue' /\ queue'[i].id = queue[i].id
    PROVE  Decides
BY Zenon DEF Decides, Queued

\* The command that is served leaves its place, the others move up.
LEMMA ServedCommits ==
    ASSUME IInv, queue # <<>>, queue' = Tail(queue)
    PROVE  /\ Head(queue) = queue[1]
           /\ \A i \in DOMAIN queue : i # 1 => Queued(queue[i].id, queue')
<1>1. queue \in Seq(GetCommand \cup CommitCommand)
  BY Zenon DEF IInv, Types
<1>2. Head(queue) = queue[1]
  BY <1>1
<1>3. ASSUME NEW i \in DOMAIN queue, i # 1
      PROVE  Queued(queue[i].id, queue')
  <2>1. i - 1 \in DOMAIN queue' /\ queue'[i - 1] = queue[i]
    BY <1>1, <1>3
  <2>2. QED
    BY <2>1, Zenon DEF Queued
<1>4. QED
  BY <1>2, <1>3, Zenon

LEMMA ServeCommitDecides ==
    ASSUME IInv, SInv, ServeCommit
    PROVE  Decides
<1> DEFINE command == Head(queue)
           entry == [id |-> command.id, key |-> command.key, base |-> command.base,
                     seen |-> command.seen, delete |-> command.delete]
<1>1. PICK o \in CommitOutcome :
          /\ IF o.durable /\ Holds(command) /\ version < MaxVersion
             THEN Apply(command)
             ELSE UNCHANGED <<data, version, log>>
          /\ Finish(o, Told(command.client, CommitReply(o, command)))
  BY Zenon DEF ServeCommit
<1>2. /\ queue # <<>> /\ queue' = Tail(queue)
      /\ faults' = faults + o.used
  BY <1>1, Zenon DEF ServeCommit, Serves, Finish
<1>3. o.used \in Nat /\ (~ o.ok => o.used > 0) /\ (o.ok => o.durable)
  BY OutcomeFacts, Zenon
<1>4. \/ Effective(command.id, log') \/ ~Holds(command)
      \/ version = MaxVersion \/ faults' > faults
  <2>1. CASE ~ o.ok
    <3>1. faults \in Nat
      BY BoundsAreNumbers DEF SInv, TypeOK
    <3>2. QED
      BY <1>2, <1>3, <2>1, <3>1
  <2>2. CASE o.ok /\ Holds(command) /\ version < MaxVersion
    <3>1. log' = Append(log, entry)
      BY <1>1, <1>3, <2>2, Zenon DEF Apply
    <3>2. log \in Seq(Entry)
      BY Zenon DEF IInv, Types
    <3>3. Len(log) + 1 \in DOMAIN log' /\ log'[Len(log) + 1].id = command.id
      BY <3>1, <3>2
    <3>4. QED
      BY <3>3, Zenon DEF Effective
  <2>3. version < MaxVersion \/ version = MaxVersion
    BY BoundsAreNumbers DEF SInv, TypeOK
  <2>4. QED
    BY <2>1, <2>2, <2>3, Zenon
<1>5. QED
  BY <1>2, <1>4, ServedCommits, Zenon DEF Decides

\* No accepted commit vanishes, for any callers, capacity and number of commits:
\* it leaves the queue only when it takes effect, when its condition fails or the
\* versions are exhausted, by an I/O failure or in a crash.  Neither the caller
\* that gives up nor the drop of the last handle takes it away.
THEOREM AcceptedStaysDecided == Spec => AcceptedIsDecided
<1>1. ASSUME IInv, SInv, [Next]_vars
      PROVE  [Decides]_vars
  <2>1. CASE UNCHANGED vars
    BY <2>1, Zenon
  <2>2. CASE CreateFile \/ InitializeFormat \/ OpenFile \/ DropHandle
    <3>1. queue' = queue
      BY <2>2, Zenon DEF CreateFile, InitializeFormat, OpenFile, DropHandle
    <3>2. QED
      BY <3>1, KeptCommits, Zenon
  <2>3. CASE JoinOwner
    <3>1. queue = <<>>
      BY <2>3, Zenon DEF JoinOwner
    <3>2. \A i : i \notin DOMAIN queue
      BY <3>1
    <3>3. QED
      BY <3>2, Zenon DEF Decides
  <2>4. CASE Crash
    <3>1. crashes' > crashes
      BY <1>1, <2>4 DEF Crash, IInv, Types
    <3>2. QED
      BY <3>1, Zenon DEF Decides
  <2>5. ASSUME NEW c \in Client,
               (\E k \in Key : SubmitGet(c, k)) \/ (\E delete \in BOOLEAN : SubmitCommit(c, delete))
        PROVE  Decides
    <3>1. PICK command : queue' = Append(queue, command)
      BY <2>5, Zenon DEF SubmitGet, SubmitCommit, Accept
    <3>2. queue \in Seq(GetCommand \cup CommitCommand)
      BY <1>1, Zenon DEF IInv, Types
    <3>3. \A i \in DOMAIN queue : i \in DOMAIN queue' /\ queue'[i] = queue[i]
      BY <3>1, <3>2
    <3>4. QED
      BY <3>3, KeptCommits, Zenon
  <2>6. ASSUME NEW c \in Client, GiveUp(c)
        PROVE  Decides
    <3>1. ASSUME NEW i \in DOMAIN queue
          PROVE  i \in DOMAIN queue' /\ queue'[i].id = queue[i].id
      BY <2>6 DEF GiveUp
    <3>2. QED
      BY <3>1, KeptCommits, Zenon
  <2>7. ASSUME NEW c \in Client, Forget(c)
        PROVE  Decides
    <3>1. queue' = queue
      BY <2>7, Zenon DEF Forget
    <3>2. QED
      BY <3>1, KeptCommits, Zenon
  <2>8. CASE ServeGet
    <3>1. queue # <<>> /\ queue' = Tail(queue) /\ Head(queue).id = None
      BY <2>8, Zenon DEF ServeGet, Serves, Finish
    <3>2. QED
      BY <1>1, <3>1, ServedCommits, Zenon DEF Decides
  <2>9. CASE ServeCommit
    BY <1>1, <2>9, ServeCommitDecides, Zenon
  <2>10. QED
    BY <1>1, <2>1, <2>2, <2>3, <2>4, <2>5, <2>6, <2>7, <2>8, <2>9, Zenon DEF Next
<1>2. Spec => []SInv
  BY InductiveInvariant, InitSInv, NextSInv, PTL DEF Spec
<1>3. Spec => [][Decides]_vars
  BY <1>1, <1>2, InductiveInvariant, PTL DEF Spec
<1>4. QED
  BY <1>3 DEF AcceptedIsDecided, Decides
=============================================================================
