------------------------------ MODULE Postgres ------------------------------
(***************************************************************************)
(* The PostgreSQL repository of one scope, statement by statement: two     *)
(* processes that write to it, each in one transaction at a time, the      *)
(* scope lock and the row locks between them, the keys that the schema     *)
(* enforces, and the validation of the schema before anything is written.  *)
(* It implements Repository, where each transaction is one step.           *)
(*                                                                         *)
(* A row is a record of its table, its key within the scope and its        *)
(* columns; a column a table does not have is None.  SPEND_OUTPUTS runs as *)
(* it is meant; that its text names a table it does not declare is the     *)
(* subject of SpendsRun in Repository.                                     *)
(***************************************************************************)
EXTENDS Chain, Sequences

CONSTANTS
    Output, Owner, Creates, Spends, Retention,   \* as in Repository
    Session,      \* connections of the writers
    Wallet,       \* wallet ids
    SchemaName    \* the configured schema

VARIABLES
    catalog,    \* the schema that is deployed
    accepted,   \* what validate_schema said of it
    rows,       \* committed rows
    session,    \* per session: its operation, its next statement, its rows
    refusal     \* the last error of a statement that the schema refused

vars == <<catalog, accepted, rows, session, refusal>>

-----------------------------------------------------------------------------
(* The schema: per table its columns, the number of its check constraints, *)
(* its keys and other indexes, and whether the foreign key of the          *)
(* journalled outputs cascades.                                            *)

Index(name, primary, unique, columns) == [name |-> name, primary |-> primary, unique |-> unique, columns |-> columns]
Pkey(columns) == Index("pkey", TRUE, TRUE, columns)
Plain(name, columns) == Index(name, FALSE, FALSE, columns)

Table(checks, foreign, indexes) == [columns |-> "as written", c |-> checks, f |-> foreign, indexes |-> indexes]

Scope == <<"chain", "network">>

\* EXPECTED_COLUMNS, EXPECTED_CONSTRAINTS, EXPECTED_INDEXES.
Expected == [
    payments_checkpoint |-> Table(2, 0, {Pkey(Scope)}),
    payments_history |-> Table(3, 0, {Pkey(Scope \o <<"address", "height", "transaction_id">>), Plain("by_height", Scope \o <<"height">>)}),
    payments_journal |-> Table(3, 0, {Pkey(Scope \o <<"height">>)}),
    payments_journal_output |-> Table(0, 1, {Pkey(Scope \o <<"height", "transaction_id", "output_index">>)}),
    payments_movement |-> Table(1, 0, {Pkey(Scope \o <<"address", "height", "transaction_id", "ordinal">>), Plain("by_height", Scope \o <<"height">>)}),
    payments_output |-> Table(0, 0, {Pkey(Scope \o <<"transaction_id", "output_index">>), Plain("by_height", Scope \o <<"created_at">>),
                                     Plain("by_address_identity", Scope \o <<"address", "transaction_id", "output_index">>)}),
    payments_wallet |-> Table(0, 0, {Pkey(<<"id">>), Plain("by_scope", Scope), Index("chain_network_address_key", FALSE, TRUE, Scope \o <<"address">>)})]

ExpectedCatalog == [schema |-> SchemaName, tables |-> Expected, cascade |-> TRUE]

\* What migrations/0001_init.sql creates: the same tables under other names.
Initializer == [
    schema |-> SchemaName, cascade |-> TRUE,
    tables |-> [checkpoint |-> Expected.payments_checkpoint, history |-> Expected.payments_history, journal |-> Expected.payments_journal,
                journal_output |-> Expected.payments_journal_output, movement |-> Expected.payments_movement,
                output |-> Expected.payments_output, payment_wallets |-> Expected.payments_wallet]]

\* The schemas that a deployment may hold: the expected one, ones that lack one thing
\* each, and what the migrations create.
Without(table, index) ==
    [ExpectedCatalog EXCEPT !.tables[table].indexes = {i \in @ : i.name # index}]

Catalogs ==
    {ExpectedCatalog, [ExpectedCatalog EXCEPT !.schema = "public"], [ExpectedCatalog EXCEPT !.cascade = FALSE],
     [ExpectedCatalog EXCEPT !.tables.payments_output.columns = "other"],
     Without("payments_wallet", "chain_network_address_key"), Without("payments_output", "by_height"), Initializer}

\* Keys and counts by kind: p and u are read off the unique indexes.
Counts(t) == [c |-> t.c, f |-> t.f,
              p |-> Cardinality({i \in t.indexes : i.primary}), u |-> Cardinality({i \in t.indexes : i.unique /\ ~i.primary})]

\* validate_schema: the columns and the numbers of constraints are exactly the
\* expected ones, the indexes may be more, the journalled outputs cascade.
Accepts(g) ==
    /\ g.schema = SchemaName
    /\ \A n \in DOMAIN Expected :
         /\ n \in DOMAIN g.tables /\ g.tables[n].columns = Expected[n].columns
         /\ Counts(g.tables[n]) = Counts(Expected[n])
         /\ Expected[n].indexes \subseteq g.tables[n].indexes
    /\ g.cascade

Validate ==
    /\ accepted = "unknown"
    /\ accepted' = IF Accepts(catalog) THEN "yes" ELSE "no"
    /\ UNCHANGED <<catalog, rows, session, refusal>>

-----------------------------------------------------------------------------
\* Rows.

Row(table, key) == [table |-> table, key |-> key, block |-> None, previous |-> None, addresses |-> None, created |-> None]
CheckpointRow(b) == [Row("payments_checkpoint", <<>>) EXCEPT !.block = b]
JournalRow(b, previous) == [Row("payments_journal", <<Height[b]>>) EXCEPT !.block = b, !.previous = previous]
HistoryRow(b, addresses) == [Row("payments_history", <<Height[b]>>) EXCEPT !.block = b, !.addresses = addresses]
OutputRow(o, created) == [Row("payments_output", <<o>>) EXCEPT !.created = created]
SpentRow(h, o, created) == [Row("payments_journal_output", <<h, o>>) EXCEPT !.created = created]
WalletRow(id, address) == [Row("payments_wallet", <<id>>) EXCEPT !.addresses = {address}]

Of(table, rs) == {r \in rs : r.table = table}

Idle == [op |-> "none", block |-> None, expected |-> None, addresses |-> None, at |-> "idle", ins |-> {}, del |-> {}]

Init ==
    /\ catalog \in Catalogs /\ accepted = "unknown"
    /\ rows = {} /\ refusal = None
    /\ session = [s \in Session |-> Idle]

\* What a statement of s sees: committed rows and those of its own transaction.
View(s) == (rows \ session[s].del) \cup session[s].ins

\* Rows that the other transactions have written and not committed.
Locked(s) == UNION {session[t].ins \cup session[t].del : t \in Session \ {s}}
SameKey(r, q) == r.table = q.table /\ r.key = q.key

\* A unique key of the table is there to refuse a second row.
Keyed(table) == \E i \in catalog.tables[table].indexes : i.primary
Duplicate(r, rs) == Keyed(r.table) /\ \E q \in rs : SameKey(r, q)

\* A statement of s deletes and inserts rows.  It waits for another transaction
\* that wrote a row of the same key; it fails on a key that is taken.
Rollback(s, why) == session' = [session EXCEPT ![s] = Idle] /\ refusal' = why

Statement(s, del, ins, next) ==
    /\ \A r \in del \cup ins : ~\E q \in Locked(s) : SameKey(r, q)
    /\ IF \E r \in ins : Duplicate(r, View(s) \ del)
       THEN Rollback(s, "unique")
       ELSE /\ session' = [session EXCEPT ![s].del = (@ \cup del) \cap rows, ![s].ins = (@ \ del) \cup ins, ![s].at = next]
            /\ UNCHANGED refusal
    /\ UNCHANGED <<catalog, accepted, rows>>

-----------------------------------------------------------------------------
\* A transaction begins, takes the locks and reads.

\* Any addition that BlockAddition::new lets through, any tip to remove.
Begin(s, op, b, expected, addresses) ==
    /\ accepted = "yes" /\ session[s].at = "idle"
    /\ session' = [session EXCEPT ![s] = [Idle EXCEPT !.op = op, !.block = b, !.expected = expected, !.addresses = addresses, !.at = "lock"]]
    /\ UNCHANGED <<catalog, accepted, rows, refusal>>

Holds(s) == session[s].at \notin {"idle", "lock"}

\* Variant of LockScope that takes no lock.
LockScopeFree(s) ==
    /\ session[s].at = "lock"
    /\ session' = [session EXCEPT ![s].at = "inspect"]
    /\ UNCHANGED <<catalog, accepted, rows, refusal>>

LockScope(s) ==
    /\ session[s].at = "lock" /\ ~\E t \in Session : Holds(t)
    /\ session' = [session EXCEPT ![s].at = "inspect"]
    /\ UNCHANGED <<catalog, accepted, rows, refusal>>

CheckpointOf(rs) == IF Of("payments_checkpoint", rs) = {} THEN None ELSE (CHOOSE r \in Of("payments_checkpoint", rs) : TRUE).block
JournalAt(h, rs) == {r \in Of("payments_journal", rs) : r.key = <<h>>}

\* The checkpoint, FOR UPDATE, and the journal row of the height.
Inspect(s) ==
    LET current == CheckpointOf(View(s))
        x == session[s]
        journalled == JournalAt(Height[x.block], View(s))
        goes == IF x.op = "add" THEN current # x.block /\ journalled = {} /\ current = x.expected
                ELSE current = x.block /\ \E j \in journalled : j.block = x.block
    IN  /\ x.at = "inspect"
        /\ ~\E q \in Locked(s) : q.table = "payments_checkpoint"
        /\ session' = [session EXCEPT ![s] = IF ~goes THEN Idle ELSE [@ EXCEPT !.at = IF x.op = "add" THEN "journal" ELSE "delete"]]
        /\ UNCHANGED <<catalog, accepted, rows, refusal>>

\* Deleting journal rows takes the outputs journalled with them along.
Cascaded(s, js) ==
    IF catalog.cascade THEN {r \in Of("payments_journal_output", View(s)) : \E j \in js : r.key[1] = j.key[1]} ELSE {}

\* A foreign key without a cascade refuses to delete them.
Refers(s, js) == ~catalog.cascade /\ \E r \in Of("payments_journal_output", View(s)), j \in js : r.key[1] = j.key[1]

-----------------------------------------------------------------------------
\* write_block.

R == INSTANCE Repository WITH
    Backend <- "postgres", SpendsRun <- TRUE,
    checkpoint <- CheckpointOf(rows),
    journal <- {[block |-> j.block, previous |-> j.previous,
                 created |-> UNION {{o \in Creates[h.block] \ Spends[h.block] : Owner[o] \in h.addresses} : h \in {g \in Of("payments_history", rows) : g.key = j.key}},
                 spent |-> {[id |-> r.key[2], created_at |-> r.created] : r \in {q \in Of("payments_journal_output", rows) : q.key[1] = j.key[1]}}]
                : j \in Of("payments_journal", rows)},
    history <- {[block |-> h.block, addresses |-> h.addresses] : h \in Of("payments_history", rows)},
    outputs <- {[id |-> r.key[1], created_at |-> r.created] : r \in Of("payments_output", rows)}

\* WRITE_JOURNAL: the row of the block, and what has aged out goes.
WriteJournal(s) ==
    LET x == session[s]
        aged == {r \in Of("payments_journal", View(s)) : r.key[1] <= Height[x.block] - Retention}
    IN  /\ x.at = "journal"
        /\ IF Refers(s, aged) THEN Rollback(s, "foreign") /\ UNCHANGED <<catalog, accepted, rows>>
           ELSE Statement(s, aged \cup Cascaded(s, aged), {JournalRow(x.block, x.expected)}, "history")

\* write_history with its movements, then write_created.
WriteHistory(s) ==
    /\ session[s].at = "history"
    /\ Statement(s, {}, {HistoryRow(session[s].block, session[s].addresses)}, "created")

WriteCreated(s) ==
    LET x == session[s]
    IN  /\ x.at = "created"
        /\ Statement(s, {}, {OutputRow(o, Height[x.block]) : o \in R!CreatedOutputs(x.block, x.addresses)}, "spent")

\* write_spent: every required spend must be live, the tracked ones may be.
WriteSpent(s) ==
    LET x == session[s]
        live(os) == {r \in Of("payments_output", View(s)) : r.key[1] \in os}
        required == R!RequiredSpends(x.block, x.addresses)
        moved == live(required \cup R!TrackedSpends(x.block, x.addresses))
    IN  /\ x.at = "spent"
        /\ IF Cardinality(live(required)) # Cardinality(required)
           THEN Rollback(s, "invalid block") /\ UNCHANGED <<catalog, accepted, rows>>
           ELSE Statement(s, moved, {SpentRow(Height[x.block], r.key[1], r.created) : r \in moved}, "move")

\* MOVE_CHECKPOINT inserts the row or updates it; DROP_CHECKPOINT deletes it.
MoveCheckpoint(s) ==
    LET x == session[s]
        target == IF x.op = "add" THEN x.block ELSE x.expected
    IN  /\ x.at = "move"
        /\ Statement(s, Of("payments_checkpoint", View(s)), IF target = None THEN {} ELSE {CheckpointRow(target)},
                     IF x.op = "add" THEN "commit" ELSE "drop")

-----------------------------------------------------------------------------
\* remove_tip.

\* The three deletes by height, and the previous checkpoint read before them.
Delete(s) ==
    LET x == session[s]
        h == Height[x.block]
        gone == {r \in View(s) : \/ r.table = "payments_history" /\ r.key = <<h>>
                                 \/ r.table = "payments_output" /\ r.created = h}
    IN  /\ x.at = "delete"
        /\ \A r \in gone : ~\E q \in Locked(s) : SameKey(r, q)
        /\ session' = [session EXCEPT ![s].del = (@ \cup gone) \cap rows, ![s].ins = @ \ gone, ![s].at = "restore",
                                      ![s].expected = (CHOOSE j \in JournalAt(h, View(s)) : TRUE).previous]
        /\ UNCHANGED <<catalog, accepted, rows, refusal>>

RestoreSpent(s) ==
    /\ session[s].at = "restore"
    /\ Statement(s, {}, {OutputRow(r.key[2], r.created) : r \in {q \in Of("payments_journal_output", View(s)) : q.key[1] = Height[session[s].block]}}, "move")

DropJournal(s) ==
    LET js == JournalAt(Height[session[s].block], View(s))
    IN  /\ session[s].at = "drop"
        /\ IF Refers(s, js) THEN Rollback(s, "foreign") /\ UNCHANGED <<catalog, accepted, rows>>
           ELSE Statement(s, js \cup Cascaded(s, js), {}, "commit")

\* The commit; its answer may be lost, which the caller cannot tell from a rollback.
Commit(s) ==
    /\ session[s].at = "commit"
    /\ rows' = View(s)
    /\ session' = [session EXCEPT ![s] = Idle]
    /\ UNCHANGED <<catalog, accepted, refusal>>

\* The connection, the process or the caller's future is gone: the transaction
\* rolls back.
Abort(s) ==
    /\ session[s].at # "idle"
    /\ session' = [session EXCEPT ![s] = Idle]
    /\ UNCHANGED <<catalog, accepted, rows, refusal>>

\* write_registration, one statement: a taken key of any unique index means that
\* nothing is written.
Register(id, address) ==
    LET indexes == catalog.tables["payments_wallet"].indexes
        taken(r) == \/ r.key = <<id>> /\ \E i \in indexes : i.unique /\ i.columns = <<"id">>
                    \/ r.addresses = {address} /\ \E i \in indexes : i.unique /\ i.columns = Scope \o <<"address">>
    IN  /\ accepted = "yes"
        /\ ~\E r \in Of("payments_wallet", rows) : taken(r)
        /\ rows' = rows \cup {WalletRow(id, address)}
        /\ UNCHANGED <<catalog, accepted, session, refusal>>

Refused == accepted = "no" /\ UNCHANGED vars

Next ==
    \/ Validate \/ Refused
    \/ \E id \in Wallet, address \in Address : Register(id, address)
    \/ \E s \in Session :
         \/ \E b \in Block, expected \in Checkpoint, addresses \in SUBSET Address :
              Connects(b, expected) /\ Begin(s, "add", b, expected, addresses)
         \/ \E b \in Block : Begin(s, "remove", b, None, {})
         \/ LockScope(s) \/ Inspect(s) \/ WriteJournal(s) \/ WriteHistory(s) \/ WriteCreated(s) \/ WriteSpent(s)
         \/ MoveCheckpoint(s) \/ Delete(s) \/ RestoreSpent(s) \/ DropJournal(s) \/ Commit(s) \/ Abort(s)

Spec == Init /\ [][Next]_vars

-----------------------------------------------------------------------------

\* The transactions of the writers, however their statements interleave and wherever
\* they stop, are the single steps of Repository: each is applied whole or not at
\* all, to the checkpoint its caller expected.
ImplementsRepository == [R!RepositoryNext]_R!repositoryVars

StartsAsRepository == R!RepositoryInit

\* No two wallets share an id or an address in a schema that was accepted.
OneWalletPerAddress ==
    \A r, q \in Of("payments_wallet", rows) : r.key = q.key \/ r.addresses = q.addresses => r = q

\* An accepted schema has what the statements rely on: none of them runs into a
\* foreign key, and the outputs journalled for a block go with its journal row.
SchemaServes ==
    /\ refusal # "foreign"
    /\ \A r \in Of("payments_journal_output", rows) : \E j \in Of("payments_journal", rows) : j.key[1] = r.key[1]
=============================================================================
