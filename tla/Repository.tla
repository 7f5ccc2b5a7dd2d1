----------------------------- MODULE Repository -----------------------------
(***************************************************************************)
(* The canonical repository of one scope: the checkpoint, the rollback     *)
(* journal, the address history and the live outputs, with the two         *)
(* transitions that change them, Blocks::add and Blocks::remove.  There    *)
(* are two backends: PostgreSQL (sdk/indexing/postgres/src) runs each      *)
(* transition as a transaction under a scope lock, redb                    *)
(* (sdk/indexing/redb/src) as one batch conditional on all it has read, so *)
(* each is one step here.                                                  *)
(*                                                                         *)
(* A block's content is the outputs it creates and spends.  A transaction  *)
(* may be mined in several forks, so two blocks may create one output.     *)
(***************************************************************************)
EXTENDS Chain

CONSTANTS
    Output,      \* output identities (transaction, index)
    Owner,       \* Owner[o]: the address output o pays
    Creates,     \* Creates[b]: the outputs the transactions of b create
    Spends,      \* Spends[b]: the outputs they spend
    Retention,   \* SyncConfig::reorg_retention
    Backend,     \* "postgres" or "redb"
    SpendsRun    \* the PostgreSQL server accepts the statement SPEND_OUTPUTS

ASSUME OwnerType == Owner \in [Output -> Address]
ASSUME CreatesType == Creates \in [Block -> SUBSET Output]
ASSUME SpendsType == Spends \in [Block -> SUBSET Output]
ASSUME RetentionPositive == Retention \in Nat \ {0}
ASSUME BackendType == Backend \in {"postgres", "redb"} /\ SpendsRun \in BOOLEAN

\* On one chain an output is created once, spent once, and not before it exists.
ASSUME LedgerWellFormed ==
    \A b \in Block : \A a \in ChainOf[b] \ {b} :
        /\ Creates[a] \cap Creates[b] = {}
        /\ Spends[a] \cap Spends[b] = {}
        /\ Spends[a] \cap Creates[b] = {}

VARIABLES
    checkpoint,   \* payments_checkpoint
    journal,      \* payments_journal with payments_journal_output
    history,      \* for each applied block, the addresses it was inspected for
    outputs       \* payments_output

repositoryVars == <<checkpoint, journal, history, outputs>>

LiveOutput == [id : Output, created_at : Nat]
JournalEntry == [block : Block, previous : Checkpoint,
                 created : SUBSET Output, spent : SUBSET LiveOutput]
HistoryEntry == [block : Block, addresses : SUBSET Address]

RepositoryInit ==
    /\ checkpoint = None
    /\ journal = {}
    /\ history = {}
    /\ outputs = {}

-----------------------------------------------------------------------------
(* BlockInterpreter::inspect, as far as the repository can tell blocks     *)
(* apart.  An output created and spent in one block is not an output       *)
(* change.  A watched address's spend is required, any other is tracked.   *)

CreatedOutputs(b, addresses) ==
    {o \in Creates[b] \ Spends[b] : Owner[o] \in addresses}

RequiredSpends(b, addresses) ==
    {o \in Spends[b] \ Creates[b] : Owner[o] \in addresses}

TrackedSpends(b, addresses) ==
    {o \in Spends[b] : Owner[o] \notin addresses}

-----------------------------------------------------------------------------

\* BlockSelector::Height: only blocks of the journal are found by height.
JournalAt(h) == {j \in journal : Height[j.block] = h}

Live(ids) == {v \in outputs : v.id \in ids}

\* PostgreSQL: the statement that moves spent outputs to the journal fails to
\* prepare, a retryable Store error, when the block has any spend at all.
SpendFails(b, addresses) ==
    /\ Backend = "postgres"
    /\ ~SpendsRun
    /\ RequiredSpends(b, addresses) \cup TrackedSpends(b, addresses) # {}

\* add refuses a block whose required spend is not live: InvalidBlock, which no
\* retry repairs.
SpendsUnknown(b, addresses) ==
    /\ ~SpendFails(b, addresses)
    /\ \E o \in RequiredSpends(b, addresses) : Live({o}) = {}

\* write_block: the block is not yet the checkpoint (it answers AlreadyApplied
\* then), no retained block has its height, the expected checkpoint is the
\* current one, no created output is live, every required spend is.
CanAdd(b, expected, addresses) ==
    /\ checkpoint # b
    /\ JournalAt(Height[b]) = {}
    /\ checkpoint = expected
    /\ Live(CreatedOutputs(b, addresses)) = {}
    /\ ~SpendFails(b, addresses)
    /\ ~SpendsUnknown(b, addresses)

\* A journal row that has aged out when b is added.  redb deletes one key.
Pruned(j, b) ==
    IF Backend = "postgres"
    THEN Height[j.block] <= Height[b] - Retention
    ELSE Height[j.block] = Height[b] - Retention

\* Variant of Add that does not journal what the block spends.
AddUnjournaled(b, expected, addresses) ==
    LET spent == Live(RequiredSpends(b, addresses) \cup TrackedSpends(b, addresses))
        created == [id : CreatedOutputs(b, addresses), created_at : {Height[b]}]
    IN  /\ CanAdd(b, expected, addresses)
        /\ journal' = {j \in journal : ~Pruned(j, b)}
                      \cup {[block |-> b, previous |-> expected,
                             created |-> CreatedOutputs(b, addresses), spent |-> {}]}
        /\ history' = history \cup {[block |-> b, addresses |-> addresses]}
        /\ outputs' = (outputs \cup created) \ spent
        /\ checkpoint' = b

Add(b, expected, addresses) ==
    LET spent == Live(RequiredSpends(b, addresses) \cup TrackedSpends(b, addresses))
        created == [id : CreatedOutputs(b, addresses), created_at : {Height[b]}]
    IN  /\ CanAdd(b, expected, addresses)
        /\ journal' = {j \in journal : ~Pruned(j, b)}
                      \cup {[block |-> b, previous |-> expected,
                             created |-> CreatedOutputs(b, addresses), spent |-> spent]}
        /\ history' = history \cup {[block |-> b, addresses |-> addresses]}
        /\ outputs' = (outputs \cup created) \ spent
        /\ checkpoint' = b

\* Variant of CanRemove that looks for the row one height below.
CanRemoveBelow(expected) ==
    /\ checkpoint = expected
    /\ \E j \in JournalAt(Height[expected] - 1) :
          /\ j.block = expected
          /\ Live({v.id : v \in j.spent}) = {}
          /\ Backend = "redb" => \A o \in j.created : Live({o}) # {}

\* remove_tip: the tip is the checkpoint and has its journal row, and no output
\* that is to come back is live.
CanRemove(expected) ==
    /\ checkpoint = expected
    /\ \E j \in JournalAt(Height[expected]) :
          /\ j.block = expected
          /\ Live({v.id : v \in j.spent}) = {}
          /\ Backend = "redb" => \A o \in j.created : Live({o}) # {}

\* What stays live without the tip: PostgreSQL deletes its outputs by height, redb
\* those the journal names.
WithoutCreated(j) ==
    IF Backend = "postgres"
    THEN {v \in outputs : v.created_at # Height[j.block]}
    ELSE {v \in outputs : v.id \notin j.created}

\* Variants of Remove: the history stays, the spent outputs do not come back.
RemoveKeepsHistory(expected) ==
    /\ CanRemove(expected)
    /\ \E j \in JournalAt(Height[expected]) :
          /\ outputs' = WithoutCreated(j) \cup j.spent
          /\ checkpoint' = j.previous
    /\ journal' = journal \ JournalAt(Height[expected])
    /\ history' = history
RemoveForgetsSpent(expected) ==
    /\ CanRemove(expected)
    /\ \E j \in JournalAt(Height[expected]) :
          /\ outputs' = WithoutCreated(j)
          /\ checkpoint' = j.previous
    /\ journal' = journal \ JournalAt(Height[expected])
    /\ history' = {e \in history : Height[e.block] # Height[expected]}

\* Rows of the tip's height go, the outputs it spent come back.
Remove(expected) ==
    /\ CanRemove(expected)
    /\ \E j \in JournalAt(Height[expected]) :
          /\ outputs' = WithoutCreated(j) \cup j.spent
          /\ checkpoint' = j.previous
    /\ journal' = journal \ JournalAt(Height[expected])
    /\ history' = {e \in history : Height[e.block] # Height[expected]}

-----------------------------------------------------------------------------
(* Any caller: blocks arrive in any order, for any addresses.              *)

RepositoryNext ==
    \/ \E b \in Block, addresses \in SUBSET Address :
          Connects(b, checkpoint) /\ Add(b, checkpoint, addresses)
    \/ checkpoint # None /\ Remove(checkpoint)

RepositorySpec == RepositoryInit /\ [][RepositoryNext]_repositoryVars

-----------------------------------------------------------------------------
(* Properties.                                                             *)

\* Every variable holds a value of its type.
RepositoryTypeOK ==
    /\ checkpoint \in Checkpoint
    /\ journal \in SUBSET JournalEntry
    /\ history \in SUBSET HistoryEntry
    /\ outputs \in SUBSET LiveOutput

\* The applied blocks are exactly a parent-linked path that ends in the
\* checkpoint, each inspected once: reorg reversals leave no orphaned rows and
\* no hole behind.
HistoryIsPath ==
    /\ checkpoint = None <=> history = {}
    /\ checkpoint # None => \E e \in history : e.block = checkpoint
    /\ \A e, f \in history : Height[e.block] = Height[f.block] => e = f
    /\ \A e \in history :
          /\ e.block = checkpoint \/ \E f \in history : Parent[f.block] = e.block
          /\ \/ \E f \in history : f.block = Parent[e.block]
             \/ \A f \in history : Height[e.block] <= Height[f.block]

\* The rollback journal undoes the newest blocks, one after the other: while it
\* has rows one of them is the checkpoint's, every row is an applied block's and
\* leads to the next lower row, and the lowest is the only one that leads out.
JournalLinked ==
    /\ \A j, k \in journal : Height[j.block] = Height[k.block] => j = k
    /\ journal # {} => \E j \in journal : j.block = checkpoint
    /\ \A j \in journal :
          /\ \E e \in history : e.block = j.block
          /\ \/ \E k \in journal : k.block = j.previous
             \/ \A k \in journal : Height[j.block] <= Height[k.block]

\* Outputs with a height they may have been created at.
Dated == [id : Output, created_at : {Height[b] : b \in Block}]

\* The applied block of e created v for an address it was inspected for.
CreatedBy(e, v) ==
    v.created_at = Height[e.block] /\ v.id \in CreatedOutputs(e.block, e.addresses)

\* The live outputs are what a replay of the applied blocks yields: an output is
\* live exactly when an applied block created it for an inspected address and no
\* applied block spends it.
OutputsAreReplay ==
    outputs = {v \in Dated : /\ \E e \in history : CreatedBy(e, v)
                             /\ \A e \in history : v.id \notin Spends[e.block]}

\* The checkpoint is the highest applied block, and all of them are on its chain.
HistoryOnChain ==
    \A e \in history :
        e.block \in ChainOf[checkpoint] /\ Height[e.block] <= Height[checkpoint]

\* A journal row is in the retention window and tells what its block did: which
\* applied block it was put on, unless it was the first, what it created, and
\* which outputs of lower applied blocks it spent.
JournalUndoes ==
    \A j \in journal :
        /\ Height[j.block] > Height[checkpoint] - Retention
        /\ IF j.previous = None
           THEN \A e \in history : Height[j.block] <= Height[e.block]
           ELSE j.previous = Parent[j.block] /\ \E e \in history : e.block = j.previous
        /\ \E e \in history :
              e.block = j.block /\ j.created = CreatedOutputs(e.block, e.addresses)
        /\ j.spent = {v \in Dated :
              /\ v.id \in Spends[j.block]
              /\ \E e \in history : Height[e.block] < Height[j.block] /\ CreatedBy(e, v)}

\* The inductive invariant: the three facts above with what it takes to carry them
\* through a removal, which restores from the journal what an addition replaced.
RepositoryInv ==
    /\ RepositoryTypeOK
    /\ HistoryIsPath
    /\ JournalLinked
    /\ OutputsAreReplay
    /\ HistoryOnChain
    /\ JournalUndoes

\* A next block that only has tracked spends is not refused because of them,
\* whether or not the outputs are indexed.
TrackedSpendsTolerated ==
    \A b \in Block, addresses \in SUBSET Address :
        /\ checkpoint # None
        /\ Connects(b, checkpoint)
        /\ JournalAt(Height[b]) = {}
        /\ RequiredSpends(b, addresses) = {}
        /\ Live(CreatedOutputs(b, addresses)) = {}
        => CanAdd(b, checkpoint, addresses)
=============================================================================
