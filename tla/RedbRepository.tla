--------------------------- MODULE RedbRepository ---------------------------
(***************************************************************************)
(* The redb index repository (sdk/indexing/redb/src/repository): adding    *)
(* and removing a block read record after record, each a call of the       *)
(* store, and then commit one batch on condition that all that was read is *)
(* unchanged; pages are read with three calls.  The transitions are shown  *)
(* to be those of Repository, each one step, whoever else is writing.      *)
(*                                                                         *)
(* Keys are tuples here; StorageCodec is about their bytes.                *)
(***************************************************************************)
EXTENDS Chain, Sequences, SequencesExt, TLC

CONSTANTS
    Output, Owner, Creates, Spends, Retention,   \* as in Repository
    Tx,          \* Tx[b]: the transaction in block b
    Rank,        \* Rank[o]: the place of output o in key order
    Writer, Reader,
    Filters,     \* the address sets blocks are inspected for
    First,       \* the blocks an index may start with
    Limit,       \* entries on a page
    MaxVersion,  \* bound: commits
    MaxPages     \* bound: page requests of a reader

VARIABLES
    store,       \* key -> [value, version], for the keys that exist
    version,     \* the global version of the store
    writer, reader,
    inspected,   \* auxiliary: the applied blocks with their filters
    again        \* auxiliary: the readers whose checkpoint left and came back while
                 \* they read one page

vars == <<store, version, writer, reader, inspected, again>>

CheckpointKey == <<"checkpoint">>
JournalKey(h) == <<"journal", h>>
HistoryKey(a, b) == <<"history", a, Height[b], Tx[b]>>
OutputKey(o) == <<"output", Owner[o], o>>

Get(k) == IF k \in DOMAIN store THEN store[k] ELSE None
Value(k) == IF k \in DOMAIN store THEN store[k].value ELSE None

-----------------------------------------------------------------------------
(* The content of a block, as interpreted for a filter.                    *)

Created(b, addresses) == {o \in Creates[b] \ Spends[b] : Owner[o] \in addresses}
Required(b, addresses) == {o \in Spends[b] \ Creates[b] : Owner[o] \in addresses}
Tracked(b, addresses) == {o \in Spends[b] : Owner[o] \notin addresses}
Touched(b, addresses) == addresses \cap {Owner[o] : o \in Creates[b] \cup Spends[b]}

HistoryKeys(b, addresses) == {HistoryKey(a, b) : a \in Touched(b, addresses)}

-----------------------------------------------------------------------------

Idle == [pc |-> "idle"]
Rest(n) == [pc |-> "idle", pages |-> n]

Init ==
    /\ store = <<>>
    /\ version = 0
    /\ writer = [w \in Writer |-> Idle]
    /\ reader = [r \in Reader |-> Rest(0)]
    /\ inspected = {}
    /\ again = {}

\* A call and the records it will read: checkpoint and journal first, then sets of
\* keys in any order.
Call(op, b, expected, addresses) ==
    [pc |-> "reading", op |-> op, block |-> b, expected |-> expected,
     addresses |-> addresses, seen |-> <<>>,
     todo |-> <<{CheckpointKey}, {JournalKey(Height[b])}>>]

\* Blocks::add; BlockAddition::new checks that b connects to what the caller takes
\* for the checkpoint.
StartAdd(w, b, expected, addresses) ==
    /\ writer[w].pc = "idle"
    /\ version < MaxVersion
    /\ Connects(b, expected)
    /\ expected = None => b \in First
    /\ writer' = [writer EXCEPT ![w] = Call("add", b, expected, addresses)]
    /\ UNCHANGED <<store, version, reader, inspected, again>>

StartRemove(w, b) ==
    /\ writer[w].pc = "idle"
    /\ version < MaxVersion
    /\ writer' = [writer EXCEPT ![w] = Call("remove", b, None, {})]
    /\ UNCHANGED <<store, version, reader, inspected, again>>

Seen(c, k) == IF c.seen[k] = None THEN None ELSE c.seen[k].value

\* write_block after the checkpoint and the journal: whether to go on, and with
\* which keys.
AfterJournal(c) ==
    LET current == Seen(c, CheckpointKey)
        journal == Seen(c, JournalKey(Height[c.block]))
    IN  IF c.op = "add"
        THEN IF current = c.block
             THEN IF journal # None /\ journal.block = c.block THEN "already" ELSE "store"
             ELSE IF journal # None THEN "cannot_connect"
             ELSE IF current # c.expected THEN "conflict" ELSE "go"
        ELSE IF current # c.block THEN "conflict"
             ELSE IF journal = None THEN "too_deep"
             ELSE IF journal.block # c.block THEN "store" ELSE "go"

KeysOf(c) ==
    IF c.op = "add"
    THEN <<HistoryKeys(c.block, c.addresses),
           {OutputKey(o) : o \in Created(c.block, c.addresses)},
           {OutputKey(o) : o \in Required(c.block, c.addresses)},
           {OutputKey(o) : o \in Tracked(c.block, c.addresses)}>>
    ELSE LET journal == Seen(c, JournalKey(Height[c.block]))
         IN  <<journal.history, {OutputKey(o) : o \in journal.created},
               {OutputKey(v.id) : v \in journal.spent}>>

\* Whether the record at k must exist, must not, or may: the phase says.
Demand(c, k) ==
    LET o == k[3]
    IN  IF c.op = "add"
        THEN IF k[1] = "history" \/ o \in Created(c.block, c.addresses) THEN "missing"
             ELSE IF o \in Required(c.block, c.addresses) THEN "present" ELSE "any"
        ELSE IF k[1] = "history" \/ o \in Seen(c, JournalKey(Height[c.block])).created
             THEN "present" ELSE "missing"

\* The error of a record that is not as demanded.
Violated(c, k, found) ==
    \/ Demand(c, k) = "missing" /\ found # None
    \/ Demand(c, k) = "present" /\ found = None

Error(c, k) ==
    IF Demand(c, k) = "missing" THEN "conflict"
    ELSE IF c.op = "add" THEN "invalid_block" ELSE "store"

Reply(w, reply) == writer' = [writer EXCEPT ![w] = [pc |-> "told", reply |-> reply]]

\* One call of the store's get.
Read(w, k) ==
    LET c == writer[w]
        seen == [c EXCEPT !.seen = @ @@ (k :> Get(k)),
                          !.todo = IF Head(@) = {k} THEN Tail(@) ELSE <<Head(@) \ {k}>> \o Tail(@)]
    IN  /\ c.pc = "reading"
        /\ c.todo # <<>>
        /\ k \in Head(c.todo)
        /\ IF k[1] = "checkpoint" THEN writer' = [writer EXCEPT ![w] = seen]
           ELSE IF k[1] = "journal"
           THEN IF AfterJournal(seen) = "go"
                THEN writer' = [writer EXCEPT ![w] =
                         [seen EXCEPT !.todo = SelectSeq(KeysOf(seen), LAMBDA s : s # {})]]
                ELSE Reply(w, AfterJournal(seen))
           ELSE IF Violated(c, k, Get(k)) THEN Reply(w, Error(c, k))
           ELSE writer' = [writer EXCEPT ![w] = seen]
        /\ UNCHANGED <<store, version, reader, inspected, again>>

-----------------------------------------------------------------------------
(* The batch.                                                              *)

\* Every record is as it was read: the same version, or still missing.  A tracked output
\* that was not found puts no condition on the batch.
Holds(c) ==
    \A k \in DOMAIN c.seen :
        \/ Get(k) = c.seen[k]
        \/ c.op = "add" /\ c.seen[k] = None /\ k \in {OutputKey(o) : o \in Tracked(c.block, c.addresses)}

Put(k, value) == k :> [value |-> value, version |-> version + 1]

Without(keys) == [k \in DOMAIN store \ keys |-> store[k]]

\* The spent outputs that were found.
Spent(c) == {o \in Required(c.block, c.addresses) \cup Tracked(c.block, c.addresses) :
                c.seen[OutputKey(o)] # None}

AddedStore(c) ==
    LET b == c.block
        created == Created(b, c.addresses)
        journal == [block |-> b, previous |-> c.expected,
                    history |-> HistoryKeys(b, c.addresses), created |-> created,
                    spent |-> {[id |-> o, created_at |-> Seen(c, OutputKey(o))] : o \in Spent(c)}]
        gone == {OutputKey(o) : o \in Spent(c)} \cup {JournalKey(Height[b] - Retention)}
    IN  [k \in HistoryKeys(b, c.addresses) |-> [value |-> b, version |-> version + 1]]
        @@ [k \in {OutputKey(o) : o \in created} |->
              [value |-> Height[b], version |-> version + 1]]
        @@ Put(JournalKey(Height[b]), journal)
        @@ Put(CheckpointKey, b)
        @@ Without(gone)

RemovedStore(c) ==
    LET journal == Seen(c, JournalKey(Height[c.block]))
        gone == journal.history \cup {OutputKey(o) : o \in journal.created}
                \cup {JournalKey(Height[c.block]), CheckpointKey}
    IN  [k \in {OutputKey(v.id) : v \in journal.spent} |->
            [value |-> (CHOOSE v \in journal.spent : OutputKey(v.id) = k).created_at,
             version |-> version + 1]]
        @@ (IF journal.previous = None THEN <<>> ELSE Put(CheckpointKey, journal.previous))
        @@ Without(gone)

\* The commit: refused, done, or done and reported as unavailable.  One that was
\* not done and is reported as unavailable leaves no trace.
Commit(w, lost) ==
    LET c == writer[w]
    IN  /\ c.pc = "reading"
        /\ c.todo = <<>>
        /\ IF Holds(c)
           THEN /\ store' = IF c.op = "add" THEN AddedStore(c) ELSE RemovedStore(c)
                /\ version' = version + 1
                /\ inspected' = IF c.op = "add"
                                THEN inspected \cup {[block |-> c.block, addresses |-> c.addresses]}
                                ELSE {e \in inspected : e.block # c.block}
                /\ again' = again \cup {r \in Reader :
                      /\ reader[r].pc \in {"scan", "recheck"}
                      /\ reader[r].at = Value(CheckpointKey)'}
                /\ Reply(w, IF lost THEN "unavailable" ELSE "done")
           ELSE /\ Reply(w, "conflict")
                /\ UNCHANGED <<store, version, inspected, again>>
        /\ UNCHANGED reader

Forget(w) ==
    /\ writer[w].pc = "told"
    /\ writer' = [writer EXCEPT ![w] = Idle]
    /\ UNCHANGED <<store, version, reader, inspected, again>>

-----------------------------------------------------------------------------
(* Pages: Transactions::list and Outputs::list.                            *)

Order(k) == IF k[1] = "history" THEN k[3] ELSE Rank[k[3]]

\* The rows of an address from the cursor on, in key order.
Rows(what, a, after) ==
    LET rows == {k \in DOMAIN store : k[1] = what /\ k[2] = a /\ Order(k) > after}
    IN  [i \in 1..Cardinality(rows) |->
            CHOOSE k \in rows : Cardinality({l \in rows : Order(l) < Order(k)}) = i - 1]

StartList(r, what, a) ==
    /\ reader[r].pc = "idle"
    /\ reader[r].pages < MaxPages
    /\ reader' = [reader EXCEPT ![r] =
          [pc |-> "checkpoint", pages |-> @.pages, what |-> what, address |-> a,
           cursor |-> None, at |-> None, page |-> <<>>, more |-> FALSE, got |-> <<>>]]
    /\ again' = again \ {r}
    /\ UNCHANGED <<store, version, writer, inspected>>

\* The cursor of a later page is of the current checkpoint.
CursorIsCurrent(q) == q.cursor # None => q.cursor.checkpoint = Value(CheckpointKey)

ReadCheckpoint(r) ==
    LET q == reader[r]
    IN  /\ q.pc = "checkpoint"
        /\ reader' = [reader EXCEPT ![r] =
              IF CursorIsCurrent(q)
              THEN [q EXCEPT !.pc = "scan", !.at = Value(CheckpointKey), !.pages = @ + 1]
              ELSE Rest(q.pages + 1)]
        /\ UNCHANGED <<store, version, writer, inspected, again>>

ScanPage(r) ==
    LET q == reader[r]
        rows == Rows(q.what, q.address, IF q.cursor = None THEN -1 ELSE q.cursor.after)
    IN  /\ q.pc = "scan"
        /\ reader' = [reader EXCEPT ![r] =
              [q EXCEPT !.pc = "recheck", !.more = Len(rows) > Limit,
                        !.page = IF Len(rows) > Limit THEN SubSeq(rows, 1, Limit) ELSE rows]]
        /\ UNCHANGED <<store, version, writer, inspected, again>>

\* Variant of Unchanged that does not look at the checkpoint again.
UnchangedAny(q) == TRUE

\* ensure_checkpoint
Unchanged(q) == Value(CheckpointKey) = q.at

\* The page is returned, with a cursor if there is more; the caller goes on with
\* the cursor, or has the whole list.
ReturnPage(r) ==
    LET q == reader[r]
        got == q.got \o q.page
    IN  /\ q.pc = "recheck"
        /\ reader' = [reader EXCEPT ![r] =
              IF ~Unchanged(q) THEN Rest(q.pages)
              ELSE IF ~q.more THEN [q EXCEPT !.pc = "listed", !.got = got]
              ELSE IF q.pages < MaxPages
              THEN [q EXCEPT !.pc = "checkpoint", !.got = got,
                      !.cursor = [checkpoint |-> q.at, after |-> Order(Last(q.page))]]
              ELSE Rest(q.pages)]
        /\ UNCHANGED <<store, version, writer, inspected, again>>

Done(r) ==
    /\ reader[r].pc = "listed"
    /\ reader' = [reader EXCEPT ![r] = Rest(@.pages)]
    /\ UNCHANGED <<store, version, writer, inspected, again>>

-----------------------------------------------------------------------------

Next ==
    \/ \E w \in Writer :
          \/ \E b \in Block, addresses \in Filters :
                \E expected \in Checkpoint : StartAdd(w, b, expected, addresses)
          \/ \E b \in Block : StartRemove(w, b)
          \/ writer[w].pc = "reading" /\ \E k \in UNION ToSet(writer[w].todo) : Read(w, k)
          \/ \E lost \in BOOLEAN : Commit(w, lost)
          \/ Forget(w)
    \/ \E r \in Reader :
          \/ \E what \in {"history", "output"}, a \in Address : StartList(r, what, a)
          \/ ReadCheckpoint(r) \/ ScanPage(r) \/ ReturnPage(r) \/ Done(r)

Spec == Init /\ [][Next]_vars

-----------------------------------------------------------------------------
(* Properties.                                                             *)

\* Every variable holds a value of its type.
TypeOK ==
    /\ Value(CheckpointKey) \in Checkpoint
    /\ \A k \in DOMAIN store : store[k].version \in 1..version
    /\ version \in 0..MaxVersion + Cardinality(Writer)
    /\ \A w \in Writer : writer[w].pc \in {"idle", "reading", "told"}
    /\ \A r \in Reader :
          reader[r].pc \in {"idle", "checkpoint", "scan", "recheck", "listed"}
    /\ inspected \in SUBSET [block : Block, addresses : Filters]
    /\ again \in SUBSET Reader

KeysOfKind(kind) == {k \in DOMAIN store : k[1] = kind}

Abstract == INSTANCE Repository WITH
    Backend <- "redb",
    SpendsRun <- TRUE,
    checkpoint <- Value(CheckpointKey),
    journal <- {[block |-> store[k].value.block, previous |-> store[k].value.previous,
                 created |-> store[k].value.created, spent |-> store[k].value.spent] :
                   k \in KeysOfKind("journal")},
    history <- inspected,
    outputs <- {[id |-> k[3], created_at |-> store[k].value] : k \in KeysOfKind("output")}

\* The conditional batches of write_block and remove_tip are the atomic transitions
\* of Repository, although each call reads its records one by one while others
\* commit.
TransitionsAreAtomic == [Abstract!RepositoryNext]_Abstract!repositoryVars

StartsAsRepository == Abstract!RepositoryInit

\* The history rows are those of the applied blocks, each for the addresses the
\* block was inspected for: nothing of a removed block is left.
RowsAreHistory ==
    KeysOfKind("history") = UNION {HistoryKeys(e.block, e.addresses) : e \in inspected}

\* What a list of an address is at a checkpoint, when all addresses are inspected.
ListAt(what, a, c) ==
    LET chain == IF c = None THEN {} ELSE ChainOf[c]
    IN  IF what = "history"
        THEN {HistoryKey(a, b) : b \in {x \in chain : a \in Touched(x, Address)}}
        ELSE {OutputKey(o) : o \in {x \in Output :
                /\ Owner[x] = a
                /\ \E b \in chain : x \in Creates[b]
                /\ \A b \in chain : x \notin Spends[b]}}

Listed(r) == reader[r].pc = "listed"

\* Pages followed from cursor to cursor are the list at the one checkpoint they
\* name, each row once and in order, whatever is committed between and during the
\* pages, unless the checkpoint leaves and comes back while one page is read.
PagesAreOneList ==
    \A r \in Reader : Listed(r) /\ r \notin again =>
        LET q == reader[r]
        IN  /\ ToSet(q.got) = ListAt(q.what, q.address, q.at)
            /\ \A i, j \in DOMAIN q.got : i < j => Order(q.got[i]) < Order(q.got[j])
=============================================================================
