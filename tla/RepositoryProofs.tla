-------------------------- MODULE RepositoryProofs --------------------------
(***************************************************************************)
(* Proofs about Repository, for every block tree, every ledger on it, every *)
(* retention window and both backends: whatever blocks are added, removed  *)
(* and added again, RepositoryInv holds.                                   *)
(***************************************************************************)
EXTENDS Repository, TLAPS

-----------------------------------------------------------------------------
(* Chains.                                                                 *)

\* The chain of a block is a set of blocks that contains it.
LEMMA ChainSelf ==
    ASSUME NEW b \in Block
    PROVE  b \in ChainOf[b] /\ ChainOf[b] \subseteq Block
BY DEF ChainOf

\* Below its last block a chain is the chain of that block's parent.
LEMMA ChainParent ==
    ASSUME NEW b \in Block, Parent[b] # None
    PROVE  ChainOf[b] = {b} \cup ChainOf[Parent[b]]
<1>1. Parent[b] \in Block
  BY ParentType DEF Checkpoint
<1> DEFINE S == {b} \cup ChainOf[Parent[b]]
<1>2. S \in SUBSET Block
  BY <1>1, ChainSelf
<1>3. \A x \in S : Parent[x] = None \/ Parent[x] \in S
  <2>1. ASSUME NEW x \in ChainOf[Parent[b]], Parent[x] # None
        PROVE  Parent[x] \in ChainOf[Parent[b]]
    <3>1. x \in Block /\ Parent[x] \in Block
      BY <1>1, <2>1, ChainSelf, ParentType DEF Checkpoint
    <3> QED
      BY <1>1, <2>1, <3>1 DEF ChainOf
  <2>2. Parent[b] \in ChainOf[Parent[b]]
    BY <1>1, ChainSelf
  <2> QED
    BY <2>1, <2>2
<1>4. ChainOf[b] \subseteq S
  <2>1. b \in S
    OBVIOUS
  <2> HIDE DEF S
  <2> QED
    BY <1>2, <1>3, <2>1 DEF ChainOf
<1>5. ChainOf[Parent[b]] \subseteq ChainOf[b]
  BY <1>1 DEF ChainOf
<1> QED
  BY <1>4, <1>5, ChainSelf

\* Heights are natural numbers; a parent is a block one height below its child.
LEMMA Below ==
    ASSUME NEW b \in Block
    PROVE  /\ Height[b] \in Nat
           /\ Parent[b] # None => Parent[b] \in Block /\ Height[b] = Height[Parent[b]] + 1
BY HeightType, ParentType, ParentBelow DEF Checkpoint

-----------------------------------------------------------------------------
(* Adding a block.                                                         *)

\* Nothing is applied or journaled while there is no checkpoint.
LEMMA Empty ==
    ASSUME RepositoryInv
    PROVE  checkpoint = None => history = {} /\ journal = {} /\ outputs = {}
BY DEF RepositoryInv, HistoryIsPath, JournalLinked, OutputsAreReplay

\* A block that connects is above every applied block, on a chain with all of them,
\* and shares no output with them.
LEMMA NextBlock ==
    ASSUME RepositoryInv, NEW b \in Block, Connects(b, checkpoint), NEW e \in history
    PROVE  /\ e.block \in Block
           /\ checkpoint \in Block
           /\ Parent[b] = checkpoint
           /\ Height[b] = Height[checkpoint] + 1
           /\ Height[e.block] < Height[b]
           /\ e.block \in ChainOf[b]
           /\ Creates[e.block] \cap Creates[b] = {}
           /\ Spends[e.block] \cap Spends[b] = {}
           /\ Spends[e.block] \cap Creates[b] = {}
<1>1. checkpoint \in Block /\ checkpoint # None /\ e.block \in Block
  BY NoneIsNoBlock DEF RepositoryInv, RepositoryTypeOK, HistoryIsPath, HistoryEntry, Checkpoint
<1>2. Parent[b] = checkpoint /\ Height[b] = Height[checkpoint] + 1
  BY <1>1 DEF Connects
<1>3. e.block \in ChainOf[checkpoint] /\ Height[e.block] <= Height[checkpoint]
  BY DEF RepositoryInv, HistoryOnChain
<1>4. Height[e.block] < Height[b]
  BY <1>1, <1>2, <1>3, Below
<1>5. e.block \in ChainOf[b] \ {b}
  BY <1>1, <1>2, <1>3, <1>4, Below, ChainParent
<1> QED
  BY <1>1, <1>2, <1>4, <1>5, LedgerWellFormed

\* The journal rows of applied blocks.
LEMMA Rows ==
    ASSUME RepositoryInv, NEW j \in journal
    PROVE  /\ checkpoint \in Block
           /\ j.block \in Block
           /\ Height[j.block] \in Nat
           /\ Height[j.block] <= Height[checkpoint]
           /\ j.previous \in Block => Parent[j.block] = j.previous
                                       /\ Height[j.block] = Height[j.previous] + 1
<1>1. PICK e \in history : e.block = j.block
  BY DEF RepositoryInv, JournalLinked
<1>2. checkpoint \in Block /\ j.block \in Block
  BY <1>1 DEF RepositoryInv, RepositoryTypeOK, HistoryIsPath, JournalEntry, Checkpoint
<1>3. Height[j.block] <= Height[checkpoint]
  BY <1>1 DEF RepositoryInv, HistoryOnChain
<1>4. j.previous \in Block => Parent[j.block] = j.previous
  BY NoneIsNoBlock DEF RepositoryInv, JournalUndoes
<1> QED
  BY <1>2, <1>3, <1>4, Below, NoneIsNoBlock

\* Of the live outputs, those a block spends are exactly those the repository moves
\* to its journal row: none of them was created in the block itself.
LEMMA SpentOutputs ==
    ASSUME RepositoryInv, NEW b \in Block, NEW addresses \in SUBSET Address,
           Connects(b, checkpoint), NEW v \in outputs
    PROVE  /\ v \in LiveOutput
           /\ v.id \in RequiredSpends(b, addresses) \cup TrackedSpends(b, addresses)
                <=> v.id \in Spends[b]
<1>1. PICK e \in history : CreatedBy(e, v)
  BY DEF RepositoryInv, OutputsAreReplay
<1>2. v.id \in Creates[e.block] /\ e.block \in Block
  BY <1>1 DEF CreatedBy, CreatedOutputs, RepositoryInv, RepositoryTypeOK, HistoryEntry
<1>3. v.id \notin Creates[b]
  BY <1>2, NextBlock
<1>4. v \in LiveOutput
  BY DEF RepositoryInv, RepositoryTypeOK
<1> QED
  BY <1>3, <1>4 DEF RequiredSpends, TrackedSpends

\* add preserves the invariant.
LEMMA AddInv ==
    ASSUME RepositoryInv, NEW b \in Block, NEW addresses \in SUBSET Address,
           Connects(b, checkpoint), Add(b, checkpoint, addresses)
    PROVE  RepositoryInv'
<1> DEFINE new == [block |-> b, addresses |-> addresses]
           spent == Live(RequiredSpends(b, addresses) \cup TrackedSpends(b, addresses))
           created == [id : CreatedOutputs(b, addresses), created_at : {Height[b]}]
           row == [block |-> b, previous |-> checkpoint,
                   created |-> CreatedOutputs(b, addresses), spent |-> spent]
<1>1. /\ history' = history \cup {new}
      /\ journal' = {j \in journal : ~Pruned(j, b)} \cup {row}
      /\ outputs' = (outputs \cup created) \ spent
      /\ checkpoint' = b
      /\ \A j \in journal : Height[j.block] # Height[b]
  BY DEF Add, CanAdd, JournalAt
<1>2. spent = {v \in outputs : v.id \in Spends[b]}
  BY SpentOutputs DEF Live
<1>3. CreatedOutputs(b, addresses) \subseteq Output
  BY CreatesType DEF CreatedOutputs
<1>4. Height[b] \in Nat
  BY Below
<1>fields. /\ new \in history' /\ new.block = b /\ new.addresses = addresses
           /\ row \in journal' /\ row.block = b /\ row.previous = checkpoint
           /\ row.created = CreatedOutputs(b, addresses) /\ row.spent = spent
  BY <1>1
<1> HIDE DEF spent
<1>5. RepositoryTypeOK'
  <2>1. new \in HistoryEntry
    BY DEF HistoryEntry
  <2>2. created \subseteq LiveOutput
    BY <1>3, <1>4 DEF LiveOutput
  <2>3. spent \subseteq LiveOutput
    BY <1>2 DEF RepositoryInv, RepositoryTypeOK
  <2>4. row \in JournalEntry
    BY <1>3, <2>3 DEF JournalEntry, RepositoryInv, RepositoryTypeOK
  <2> QED
    BY <1>1, <2>1, <2>2, <2>4 DEF RepositoryInv, RepositoryTypeOK, Checkpoint
<1> HIDE DEF new, row, created
<1>6. HistoryIsPath'
  <2>1. CASE checkpoint = None
    <3>1. history' = {new}
      BY <1>1, <1>fields, <2>1, Empty
    <3> QED
      BY <1>1, <1>fields, <3>1, <1>4, NoneIsNoBlock DEF HistoryIsPath
  <2>2. CASE checkpoint # None
    <3>1. PICK top \in history : top.block = checkpoint
      BY <2>2 DEF RepositoryInv, HistoryIsPath
    <3>2. Parent[b] = checkpoint
      BY <2>2 DEF Connects
    <3>3. b # None
      BY NoneIsNoBlock
    <3>4. \A e \in history : Height[e.block] < Height[b] /\ e.block \in Block
      BY NextBlock
    <3>5. \A e, f \in history' : Height[e.block] = Height[f.block] => e = f
      BY <1>1, <1>fields, <3>4, Below DEF RepositoryInv, HistoryIsPath
    <3>6. ASSUME NEW e \in history'
          PROVE  \/ e.block = checkpoint'
                 \/ \E f \in history' : Parent[f.block] = e.block
      BY <1>1, <1>fields, <3>2 DEF RepositoryInv, HistoryIsPath
    <3>7. ASSUME NEW e \in history'
          PROVE  \/ \E f \in history' : f.block = Parent[e.block]
                 \/ \A f \in history' : Height[e.block] <= Height[f.block]
      <4>1. CASE e = new
        BY <1>1, <1>fields, <3>1, <3>2, <4>1
      <4>2. CASE e \in history
        BY <1>1, <1>fields, <3>4, <4>2, Below DEF RepositoryInv, HistoryIsPath
      <4> QED
        BY <1>1, <1>fields, <4>1, <4>2
    <3> QED
      BY <1>1, <1>fields, <3>3, <3>5, <3>6, <3>7 DEF HistoryIsPath
  <2> QED
    BY <2>1, <2>2
<1>7. HistoryOnChain'
  <2>1. ASSUME NEW e \in history
        PROVE  e.block \in ChainOf[b] /\ Height[e.block] <= Height[b]
    BY NextBlock, Below
  <2> QED
    BY <1>1, <1>fields, <1>4, <2>1, ChainSelf DEF HistoryOnChain
<1>8. ASSUME NEW j \in journal, ~Pruned(j, b)
      PROVE  Height[j.block] > Height[b] - Retention /\ Height[j.block] < Height[b]
  <2>1. Height[b] = Height[checkpoint] + 1
    BY <1>8, Rows, NoneIsNoBlock DEF Connects
  <2>2. Height[j.block] > Height[checkpoint] - Retention
    BY DEF RepositoryInv, JournalUndoes
  <2>3. Retention \in Nat
    BY RetentionPositive
  <2> QED
    BY <1>4, <1>8, <2>1, <2>2, <2>3, Rows, Below DEF Pruned
<1>9. JournalLinked'
  <2>1. \A j, k \in journal' : Height[j.block] = Height[k.block] => j = k
    BY <1>1, <1>fields DEF RepositoryInv, JournalLinked
  <2>2. \E j \in journal' : j.block = checkpoint'
    BY <1>1, <1>fields
  <2>3. ASSUME NEW j \in journal'
        PROVE  \E e \in history' : e.block = j.block
    BY <1>1, <1>fields DEF RepositoryInv, JournalLinked
  <2>4. ASSUME NEW j \in journal'
        PROVE  \/ \E k \in journal' : k.block = j.previous
               \/ \A k \in journal' : Height[j.block] <= Height[k.block]
    <3>1. CASE j = row
      <4>1. CASE journal = {}
        BY <1>1, <1>fields, <1>4, <3>1, <4>1
      <4>2. CASE journal # {}
        <5>1. PICK k \in journal : k.block = checkpoint
          BY <4>2 DEF RepositoryInv, JournalLinked
        <5>2. CASE ~Pruned(k, b)
          BY <1>1, <1>fields, <3>1, <5>1, <5>2
        <5>3. CASE Pruned(k, b)
          <6>1. Height[b] = Height[checkpoint] + 1 /\ Height[checkpoint] \in Nat
            BY <5>1, Rows, NoneIsNoBlock DEF Connects
          <6>2. Retention = 1
            BY <1>4, <5>1, <5>3, <6>1, RetentionPositive DEF Pruned
          <6>3. {i \in journal : ~Pruned(i, b)} = {}
            BY <1>4, <1>8, <6>2, Rows
          <6> QED
            BY <1>1, <1>fields, <1>4, <3>1, <6>3
        <5> QED
          BY <5>2, <5>3
      <4> QED
        BY <4>1, <4>2
    <3>2. CASE j \in journal /\ ~Pruned(j, b)
      <4>1. CASE \E k \in journal : k.block = j.previous
        <5>1. PICK k \in journal : k.block = j.previous
          BY <4>1
        <5>2. CASE ~Pruned(k, b)
          BY <1>1, <1>fields, <5>1, <5>2
        <5>3. CASE Pruned(k, b)
          <6>1. Height[j.block] = Height[k.block] + 1 /\ Height[k.block] \in Nat
            BY <3>2, <5>1, Rows
          <6>2. Height[k.block] <= Height[b] - Retention
            BY <1>4, <5>3, <6>1, RetentionPositive DEF Pruned
          <6>3. \A i \in journal' : i.block \in Block /\ Height[i.block] > Height[b] - Retention
            BY <1>1, <1>fields, <1>4, <1>8, RetentionPositive, Rows
          <6> QED
            BY <1>4, <6>1, <6>2, <6>3, RetentionPositive, Below
        <5> QED
          BY <5>2, <5>3
      <4>2. CASE \A k \in journal : Height[j.block] <= Height[k.block]
        BY <1>1, <1>fields, <1>4, <1>8, <3>2, <4>2, Rows
      <4> QED
        BY <3>2, <4>1, <4>2 DEF RepositoryInv, JournalLinked
    <3> QED
      BY <1>1, <1>fields, <3>1, <3>2
  <2> QED
    BY <2>1, <2>2, <2>3, <2>4 DEF JournalLinked
<1>10. OutputsAreReplay'
  <2>1. ASSUME NEW v \in outputs'
        PROVE  /\ v \in Dated
               /\ \E e \in history' : CreatedBy(e, v)
               /\ \A e \in history' : v.id \notin Spends[e.block]
    <3>1. CASE v \in outputs /\ v \notin spent
      <4>1. v \in Dated /\ \E e \in history : CreatedBy(e, v)
        BY <3>1 DEF RepositoryInv, OutputsAreReplay
      <4>2. \A e \in history : v.id \notin Spends[e.block]
        BY <3>1 DEF RepositoryInv, OutputsAreReplay
      <4> QED
        BY <1>1, <1>2, <1>fields, <3>1, <4>1, <4>2
    <3>2. CASE v \in created
      <4>1. v.id \in CreatedOutputs(b, addresses) /\ v.created_at = Height[b]
        BY <3>2 DEF created
      <4>2. v \in Dated
        BY <1>3, <3>2 DEF created, Dated
      <4>3. CreatedBy(new, v)
        BY <1>fields, <4>1 DEF CreatedBy
      <4>4. v.id \in Creates[b] /\ v.id \notin Spends[b]
        BY <4>1 DEF CreatedOutputs
      <4>5. \A e \in history : v.id \notin Spends[e.block]
        BY <4>4, NextBlock
      <4> QED
        BY <1>1, <1>fields, <4>2, <4>3, <4>4, <4>5
    <3> QED
      BY <1>1, <3>1, <3>2
  <2>2. ASSUME NEW v \in Dated, NEW e \in history', CreatedBy(e, v),
               \A f \in history' : v.id \notin Spends[f.block]
        PROVE  v \in outputs'
    <3>1. v \notin spent
      BY <1>2, <1>fields, <2>2
    <3>2. CASE e = new
      <4>1. v.id \in CreatedOutputs(b, addresses) /\ v.created_at = Height[b]
        BY <1>fields, <2>2, <3>2 DEF CreatedBy
      <4>2. v \in created
        BY <4>1 DEF created, Dated
      <4> QED
        BY <1>1, <3>1, <4>2
    <3>3. CASE e \in history
      <4>1. v \in outputs
        BY <1>1, <2>2, <3>3 DEF RepositoryInv, OutputsAreReplay
      <4> QED
        BY <1>1, <3>1, <4>1
    <3> QED
      BY <1>1, <3>2, <3>3
  <2> QED
    BY <2>1, <2>2 DEF OutputsAreReplay
<1>11. JournalUndoes'
  <2> DEFINE below(h, H) == {v \in Dated : /\ v.id \in Spends[h]
                                          /\ \E e \in H : Height[e.block] < Height[h] /\ CreatedBy(e, v)}
  <2>1. ASSUME NEW j \in journal, ~Pruned(j, b)
        PROVE  /\ Height[j.block] > Height[b] - Retention
               /\ IF j.previous = None
                  THEN \A e \in history' : Height[j.block] <= Height[e.block]
                  ELSE j.previous = Parent[j.block] /\ \E e \in history' : e.block = j.previous
               /\ \E e \in history' :
                     e.block = j.block /\ j.created = CreatedOutputs(e.block, e.addresses)
               /\ j.spent = below(j.block, history')
    <3>1. Height[j.block] > Height[b] - Retention /\ Height[j.block] < Height[b]
      BY <1>8, <2>1
    <3>2. Height[j.block] \in Nat
      BY Rows
    <3>3. j.spent = below(j.block, history)
      BY DEF RepositoryInv, JournalUndoes
    <3>4. below(j.block, history') = below(j.block, history)
      BY <1>1, <1>4, <1>fields, <3>1, <3>2
    <3>5. IF j.previous = None
          THEN \A e \in history : Height[j.block] <= Height[e.block]
          ELSE j.previous = Parent[j.block] /\ \E e \in history : e.block = j.previous
      BY DEF RepositoryInv, JournalUndoes
    <3>6. \E e \in history : e.block = j.block /\ j.created = CreatedOutputs(e.block, e.addresses)
      BY DEF RepositoryInv, JournalUndoes
    <3> QED
      BY <1>1, <1>4, <1>fields, <3>1, <3>2, <3>3, <3>4, <3>5, <3>6
  <2>2. /\ Height[b] > Height[b] - Retention
        /\ IF checkpoint = None
           THEN \A e \in history' : Height[b] <= Height[e.block]
           ELSE checkpoint = Parent[b] /\ \E e \in history' : e.block = checkpoint
    <3>1. CASE checkpoint = None
      BY <1>1, <1>4, <1>fields, <3>1, Empty, RetentionPositive
    <3>2. CASE checkpoint # None
      BY <1>1, <1>4, <3>2, RetentionPositive DEF Connects, RepositoryInv, HistoryIsPath
    <3> QED
      BY <3>1, <3>2
  <2>3. spent = below(b, history')
    <3>1. ASSUME NEW v \in outputs, v.id \in Spends[b]
          PROVE  v \in below(b, history')
      <4>1. v \in Dated /\ \E e \in history : CreatedBy(e, v)
        BY DEF RepositoryInv, OutputsAreReplay
      <4> QED
        BY <1>1, <3>1, <4>1, NextBlock
    <3>2. ASSUME NEW v \in below(b, history')
          PROVE  v \in outputs
      <4>1. PICK e \in history : CreatedBy(e, v)
        BY <1>1, <1>4, <1>fields
      <4>2. \A f \in history : v.id \notin Spends[f.block]
        BY NextBlock
      <4> QED
        BY <4>1, <4>2 DEF RepositoryInv, OutputsAreReplay
    <3> QED
      BY <1>2, <3>1, <3>2
  <2>4. \A j \in journal' : j = row \/ (j \in journal /\ ~Pruned(j, b))
    BY <1>1
  <2> QED
    BY <1>1, <1>fields, <2>1, <2>2, <2>3, <2>4 DEF JournalUndoes
<1> QED
  BY <1>5, <1>6, <1>7, <1>9, <1>10, <1>11 DEF RepositoryInv

-----------------------------------------------------------------------------
(* Removing the tip.                                                       *)

\* remove preserves the invariant.
LEMMA RemoveInv ==
    ASSUME RepositoryInv, checkpoint # None, Remove(checkpoint)
    PROVE  RepositoryInv'
<1> DEFINE H == Height[checkpoint]
<1>0. checkpoint \in Block /\ H \in Nat
  BY Below DEF RepositoryInv, RepositoryTypeOK, Checkpoint
<1>1. PICK j \in journal : j.block = checkpoint
  BY DEF Remove, CanRemove, JournalAt
<1>2. JournalAt(H) = {j}
  BY <1>1 DEF RepositoryInv, JournalLinked, JournalAt
<1>3. /\ outputs' = WithoutCreated(j) \cup j.spent
      /\ checkpoint' = j.previous
      /\ journal' = journal \ {j}
      /\ history' = {e \in history : Height[e.block] # H}
  BY <1>2 DEF Remove
<1>4. PICK top \in history :
         top.block = checkpoint /\ j.created = CreatedOutputs(checkpoint, top.addresses)
  BY <1>1 DEF RepositoryInv, JournalUndoes
<1>5. \A e \in history : e = top \/ e \in history'
  BY <1>3, <1>4 DEF RepositoryInv, HistoryIsPath
<1>6. ASSUME NEW e \in history'
      PROVE  /\ e \in history
             /\ e.block \in Block
             /\ Height[e.block] \in Nat
             /\ Height[e.block] < H
             /\ e.block \in ChainOf[checkpoint] \ {checkpoint}
             /\ Creates[e.block] \cap Creates[checkpoint] = {}
             /\ Spends[e.block] \cap Spends[checkpoint] = {}
             /\ Spends[e.block] \cap Creates[checkpoint] = {}
  <2>1. e \in history /\ e.block \in Block /\ Height[e.block] # H
    BY <1>3 DEF RepositoryInv, RepositoryTypeOK, HistoryEntry
  <2>2. e.block \in ChainOf[checkpoint] /\ Height[e.block] <= H
    BY <2>1 DEF RepositoryInv, HistoryOnChain
  <2> QED
    BY <1>0, <2>1, <2>2, Below, LedgerWellFormed
<1>7. ASSUME NEW k \in journal'
      PROVE  k \in journal /\ k.block \in Block /\ Height[k.block] \in Nat /\ Height[k.block] < H
  <2>1. k \in journal /\ Height[k.block] # H
    BY <1>1, <1>3 DEF RepositoryInv, JournalLinked
  <2> QED
    BY <1>0, <2>1, Rows
<1> HIDE DEF H
\* What the row leads to: the parent, which is applied, or nothing at all.
<1>8. CASE j.previous = None
  <2>1. history' = {}
    <3>1. \A e \in history : H <= Height[e.block]
      BY <1>1, <1>8 DEF RepositoryInv, JournalUndoes, H
    <3> QED
      BY <1>0, <1>3, <1>6, <3>1
  <2>2. journal' = {}
    BY <1>3, <1>7, <2>1 DEF RepositoryInv, JournalLinked, H
  <2>3. outputs' = {}
    <3>1. j.spent = {}
      <4>1. j.spent = {v \in Dated : /\ v.id \in Spends[checkpoint]
                                     /\ \E e \in history : Height[e.block] < H /\ CreatedBy(e, v)}
        BY <1>1 DEF RepositoryInv, JournalUndoes, H
      <4> QED
        BY <1>0, <1>5, <1>4, <2>1, <4>1 DEF H
    <3>2. ASSUME NEW v \in outputs
          PROVE  v.created_at = H /\ v.id \in j.created
      BY <1>4, <1>5, <2>1 DEF RepositoryInv, OutputsAreReplay, CreatedBy, H
    <3> QED
      BY <1>1, <1>3, <3>1, <3>2 DEF WithoutCreated, H
  <2> QED
    BY <1>3, <1>8, <2>1, <2>2, <2>3 DEF RepositoryInv, RepositoryTypeOK, HistoryIsPath,
       JournalLinked, OutputsAreReplay, HistoryOnChain, JournalUndoes, Checkpoint
<1>9. CASE j.previous # None
  <2> DEFINE c == j.previous
  <2>1. /\ c = Parent[checkpoint]
        /\ c \in Block
        /\ H = Height[c] + 1
        /\ Height[c] \in Nat
        /\ ChainOf[checkpoint] = {checkpoint} \cup ChainOf[c]
    <3>1. c = Parent[checkpoint]
      BY <1>1, <1>9 DEF RepositoryInv, JournalUndoes
    <3> QED
      BY <1>0, <1>9, <3>1, Below, ChainParent DEF H
  <2>2. PICK next \in history' : next.block = c
    <3>1. PICK e \in history : e.block = c
      BY <1>1, <1>9 DEF RepositoryInv, JournalUndoes
    <3> QED
      BY <1>3, <2>1, <3>1
  <2>3. RepositoryTypeOK'
    <3>1. outputs' \subseteq LiveOutput
      BY <1>3 DEF RepositoryInv, RepositoryTypeOK, JournalEntry, WithoutCreated
    <3> QED
      BY <1>3, <2>1, <3>1 DEF RepositoryInv, RepositoryTypeOK, Checkpoint
  <2>4. HistoryIsPath'
    <3>1. ASSUME NEW e \in history'
          PROVE  e.block = checkpoint' \/ \E f \in history' : Parent[f.block] = e.block
      <4>1. e.block # checkpoint
        BY <1>6
      <4>2. PICK f \in history : Parent[f.block] = e.block
        BY <1>6, <4>1 DEF RepositoryInv, HistoryIsPath
      <4> QED
        BY <1>3, <1>4, <1>5, <2>1, <4>2
    <3>2. ASSUME NEW e \in history'
          PROVE  \/ \E f \in history' : f.block = Parent[e.block]
                 \/ \A f \in history' : Height[e.block] <= Height[f.block]
      <4>1. CASE \E f \in history : f.block = Parent[e.block]
        <5>1. PICK f \in history : f.block = Parent[e.block]
          BY <4>1
        <5>2. f.block \in Block /\ Parent[e.block] # None
          BY <5>1, NoneIsNoBlock DEF RepositoryInv, RepositoryTypeOK, HistoryEntry
        <5>3. Height[f.block] # H
          BY <1>0, <1>6, <5>1, <5>2, Below
        <5> QED
          BY <1>3, <5>1, <5>3
      <4>2. CASE \A f \in history : Height[e.block] <= Height[f.block]
        BY <1>6, <4>2
      <4> QED
        BY <1>6, <4>1, <4>2 DEF RepositoryInv, HistoryIsPath
    <3>3. \A e, f \in history' : Height[e.block] = Height[f.block] => e = f
      BY <1>6 DEF RepositoryInv, HistoryIsPath
    <3> QED
      BY <1>3, <1>9, <2>2, <3>1, <3>2, <3>3 DEF HistoryIsPath
  <2>5. HistoryOnChain'
    BY <1>0, <1>3, <1>6, <2>1 DEF HistoryOnChain
  <2>6. JournalLinked'
    <3>1. \A k, l \in journal' : Height[k.block] = Height[l.block] => k = l
      BY <1>7 DEF RepositoryInv, JournalLinked
    <3>2. journal' # {} => \E k \in journal' : k.block = checkpoint'
      <4>1. CASE \E k \in journal : k.block = j.previous
        BY <1>0, <1>1, <1>3, <2>1, <4>1 DEF H
      <4>2. CASE \A k \in journal : Height[j.block] <= Height[k.block]
        BY <1>0, <1>1, <1>7, <4>2 DEF H
      <4> QED
        BY <1>1, <4>1, <4>2 DEF RepositoryInv, JournalLinked
    <3>3. ASSUME NEW k \in journal'
          PROVE  \E e \in history' : e.block = k.block
      <4>1. PICK e \in history : e.block = k.block
        BY <1>7 DEF RepositoryInv, JournalLinked
      <4> QED
        BY <1>0, <1>3, <1>7, <4>1
    <3>4. ASSUME NEW k \in journal'
          PROVE  \/ \E l \in journal' : l.block = k.previous
                 \/ \A l \in journal' : Height[k.block] <= Height[l.block]
      <4>1. CASE \E l \in journal : l.block = k.previous
        <5>1. PICK l \in journal : l.block = k.previous
          BY <4>1
        <5>2. Height[k.block] = Height[l.block] + 1 /\ Height[l.block] \in Nat
          BY <1>7, <5>1, Rows
        <5>3. l # j
          BY <1>0, <1>1, <1>7, <5>2 DEF H
        <5> QED
          BY <1>3, <5>1, <5>3
      <4>2. CASE \A l \in journal : Height[k.block] <= Height[l.block]
        BY <1>7, <4>2
      <4> QED
        BY <1>7, <4>1, <4>2 DEF RepositoryInv, JournalLinked
    <3> QED
      BY <3>1, <3>2, <3>3, <3>4 DEF JournalLinked
  <2>7. OutputsAreReplay'
    <3>1. j.spent = {v \in Dated : /\ v.id \in Spends[checkpoint]
                                   /\ \E e \in history : Height[e.block] < H /\ CreatedBy(e, v)}
      BY <1>1 DEF RepositoryInv, JournalUndoes, H
    <3>2. ASSUME NEW v \in outputs'
          PROVE  /\ v \in Dated
                 /\ \E e \in history' : CreatedBy(e, v)
                 /\ \A e \in history' : v.id \notin Spends[e.block]
      <4>1. CASE v \in WithoutCreated(j)
        <5>1. v \in outputs
          BY <4>1 DEF WithoutCreated
        <5>2. PICK e \in history : CreatedBy(e, v)
          BY <5>1 DEF RepositoryInv, OutputsAreReplay
        <5>3. e # top
          BY <1>1, <1>4, <4>1, <5>2, BackendType DEF WithoutCreated, CreatedBy
        <5>4. v \in Dated /\ \A f \in history : v.id \notin Spends[f.block]
          BY <5>1 DEF RepositoryInv, OutputsAreReplay
        <5> QED
          BY <1>5, <1>6, <5>2, <5>3, <5>4
      <4>2. CASE v \in j.spent
        <5>1. v \in Dated /\ v.id \in Spends[checkpoint]
          BY <3>1, <4>2
        <5>2. PICK e \in history : Height[e.block] < H /\ CreatedBy(e, v)
          BY <3>1, <4>2
        <5>3. e \in history'
          BY <1>0, <1>4, <1>5, <5>2 DEF H
        <5> QED
          BY <1>6, <5>1, <5>2, <5>3
      <4> QED
        BY <1>3, <4>1, <4>2
    <3>3. ASSUME NEW v \in Dated, NEW e \in history', CreatedBy(e, v),
                 \A f \in history' : v.id \notin Spends[f.block]
          PROVE  v \in outputs'
      <4>1. CASE v.id \in Spends[checkpoint]
        BY <1>3, <1>6, <3>1, <3>3, <4>1
      <4>2. CASE v.id \notin Spends[checkpoint]
        <5>1. v \in outputs
          BY <1>4, <1>5, <1>6, <3>3, <4>2 DEF RepositoryInv, OutputsAreReplay
        <5>2. v.created_at # H
          BY <1>0, <1>6, <3>3 DEF CreatedBy
        <5>3. v.id \notin j.created
          BY <1>4, <1>6, <3>3 DEF CreatedBy, CreatedOutputs
        <5> QED
          BY <1>1, <1>3, <5>1, <5>2, <5>3 DEF WithoutCreated, H
      <4> QED
        BY <4>1, <4>2
    <3> QED
      BY <3>2, <3>3 DEF OutputsAreReplay
  <2>8. JournalUndoes'
    <3>1. ASSUME NEW k \in journal'
          PROVE  /\ Height[k.block] > Height[checkpoint'] - Retention
                 /\ IF k.previous = None
                    THEN \A e \in history' : Height[k.block] <= Height[e.block]
                    ELSE k.previous = Parent[k.block] /\ \E e \in history' : e.block = k.previous
                 /\ \E e \in history' :
                       e.block = k.block /\ k.created = CreatedOutputs(e.block, e.addresses)
      <4>1. Height[k.block] > H - Retention
        BY <1>7 DEF RepositoryInv, JournalUndoes, H
      <4>2. Height[k.block] > Height[c] - Retention
        BY <1>0, <1>7, <2>1, <4>1, RetentionPositive
      <4>3. CASE k.previous = None
        BY <1>0, <1>3, <1>6, <1>7, <4>2, <4>3 DEF RepositoryInv, JournalUndoes
      <4>4. CASE k.previous # None
        <5>1. k.previous = Parent[k.block] /\ \E e \in history : e.block = k.previous
          BY <1>7, <4>4 DEF RepositoryInv, JournalUndoes
        <5>2. Height[k.previous] # H
          BY <1>0, <1>7, <4>4, <5>1, Below
        <5>3. \E e \in history' : e.block = k.previous
          BY <1>3, <5>1, <5>2
        <5>4. \E e \in history' :
                 e.block = k.block /\ k.created = CreatedOutputs(e.block, e.addresses)
          BY <1>0, <1>3, <1>7 DEF RepositoryInv, JournalUndoes
        <5> QED
          BY <1>3, <4>2, <4>4, <5>1, <5>3, <5>4
      <4> QED
        BY <4>3, <4>4
    <3>2. ASSUME NEW k \in journal'
          PROVE  k.spent = {v \in Dated : /\ v.id \in Spends[k.block]
                                          /\ \E e \in history' : Height[e.block] < Height[k.block] /\ CreatedBy(e, v)}
      <4>1. k.spent = {v \in Dated : /\ v.id \in Spends[k.block]
                                     /\ \E e \in history : Height[e.block] < Height[k.block] /\ CreatedBy(e, v)}
        BY <1>7 DEF RepositoryInv, JournalUndoes
      <4>2. \A e \in history : Height[e.block] < Height[k.block] => e \in history'
        BY <1>0, <1>4, <1>5, <1>7 DEF H
      <4> QED
        BY <1>6, <4>1, <4>2
    <3> QED
      BY <3>1, <3>2 DEF JournalUndoes
  <2> QED
    BY <2>3, <2>4, <2>5, <2>6, <2>7, <2>8 DEF RepositoryInv
<1> QED
  BY <1>8, <1>9

\* Whatever is added or removed preserves the invariant.
LEMMA RepositoryStepInv ==
    ASSUME RepositoryInv, [RepositoryNext]_repositoryVars
    PROVE  RepositoryInv'
<1>1. ASSUME NEW b \in Block, NEW addresses \in SUBSET Address,
             Connects(b, checkpoint), Add(b, checkpoint, addresses)
      PROVE  RepositoryInv'
  BY <1>1, AddInv
<1>2. CASE checkpoint # None /\ Remove(checkpoint)
  BY <1>2, RemoveInv
<1>3. CASE UNCHANGED repositoryVars
  BY <1>3 DEF repositoryVars, RepositoryInv, RepositoryTypeOK, HistoryIsPath, JournalLinked,
     OutputsAreReplay, HistoryOnChain, JournalUndoes
<1> QED
  BY <1>1, <1>2, <1>3 DEF RepositoryNext

\* An empty repository has nothing to undo.
LEMMA RepositoryStart ==
    ASSUME RepositoryInit
    PROVE  RepositoryInv
BY DEF RepositoryInit, RepositoryInv, RepositoryTypeOK, HistoryIsPath, JournalLinked,
   OutputsAreReplay, HistoryOnChain, JournalUndoes, Checkpoint

-----------------------------------------------------------------------------
(* What the repository accepts.                                            *)

\* add accepts every block that connects, unless a required spend is unknown or the
\* server rejects the statement for spends.
LEMMA AddAccepted ==
    ASSUME RepositoryInv, NEW b \in Block, NEW addresses \in SUBSET Address,
           Connects(b, checkpoint), ~SpendFails(b, addresses)
    PROVE  CanAdd(b, checkpoint, addresses) \/ SpendsUnknown(b, addresses)
<1>1. checkpoint # b /\ JournalAt(Height[b]) = {}
  <2>1. CASE checkpoint = None
    BY <2>1, Empty, NoneIsNoBlock DEF JournalAt
  <2>2. CASE checkpoint # None
    <3>1. Height[b] = Height[checkpoint] + 1 /\ checkpoint \in Block
      BY <2>2 DEF Connects, RepositoryInv, RepositoryTypeOK, Checkpoint
    <3>2. Height[checkpoint] \in Nat /\ Height[b] # Height[checkpoint]
      BY <3>1, Below
    <3>3. ASSUME NEW j \in journal
          PROVE  Height[j.block] # Height[b]
      BY <3>1, <3>2, Rows
    <3> QED
      BY <3>2, <3>3, Zenon DEF JournalAt
  <2> QED
    BY <2>1, <2>2, Zenon
<1>2. Live(CreatedOutputs(b, addresses)) = {}
  <2>1. ASSUME NEW v \in outputs
        PROVE  v.id \notin Creates[b]
    <3>1. PICK e \in history : CreatedBy(e, v)
      BY Zenon DEF RepositoryInv, OutputsAreReplay
    <3> QED
      BY <3>1, NextBlock DEF CreatedBy, CreatedOutputs
  <2> QED
    BY <2>1, Zenon DEF Live, CreatedOutputs
<1> QED
  BY <1>1, <1>2, Zenon DEF CanAdd

\* remove accepts the checkpoint whenever it has its journal row: what the row brings
\* back is gone, and what it takes away is there.
LEMMA RemoveAccepted ==
    ASSUME RepositoryInv, checkpoint # None, NEW j \in journal, j.block = checkpoint
    PROVE  CanRemove(checkpoint)
<1>1. PICK e \in history : e.block = checkpoint /\ j.created = CreatedOutputs(e.block, e.addresses)
  BY Zenon DEF RepositoryInv, JournalUndoes
<1>2. checkpoint \in Block
  BY Zenon DEF RepositoryInv, RepositoryTypeOK, Checkpoint
<1>3. \A v \in j.spent : v.id \in Spends[checkpoint]
  BY Zenon DEF RepositoryInv, JournalUndoes
<1>4. \A v \in outputs : v.id \notin Spends[checkpoint]
  BY <1>1, Zenon DEF RepositoryInv, OutputsAreReplay
<1>5. Live({v.id : v \in j.spent}) = {}
  BY <1>3, <1>4, Zenon DEF Live
<1>6. ASSUME NEW o \in j.created
      PROVE  Live({o}) # {}
  <2> DEFINE v == [id |-> o, created_at |-> Height[checkpoint]]
  <2>1. o \in Creates[checkpoint] /\ o \notin Spends[checkpoint] /\ o \in Output
    BY <1>1, <1>2, CreatesType, Zenon DEF CreatedOutputs
  <2>2. v \in Dated /\ v.id = o /\ v.created_at = Height[checkpoint]
    BY <1>2, <2>1, Zenon DEF Dated
  <2> HIDE DEF v
  <2>3. CreatedBy(e, v)
    BY <1>1, <2>2, Zenon DEF CreatedBy
  <2>4. ASSUME NEW f \in history
        PROVE  o \notin Spends[f.block]
    <3>1. f.block \in ChainOf[checkpoint]
      BY Zenon DEF RepositoryInv, HistoryOnChain
    <3> QED
      BY <1>2, <2>1, <3>1, LedgerWellFormed, Zenon
  <2>5. v \in outputs
    BY <2>2, <2>3, <2>4, Zenon DEF RepositoryInv, OutputsAreReplay
  <2> QED
    BY <2>2, <2>5, Zenon DEF Live
<1> QED
  BY <1>5, <1>6, Zenon DEF CanRemove, JournalAt

-----------------------------------------------------------------------------
(* The theorems.                                                           *)

\* Whatever blocks are added and removed, in any order and for any addresses, the
\* applied blocks are a path, the journal undoes the newest of them, and the live
\* outputs are what a replay yields (Blocks::add and Blocks::remove, both backends).
THEOREM RepositorySound == RepositorySpec => []RepositoryInv
<1>1. RepositoryInit => RepositoryInv
  BY RepositoryStart
<1>2. RepositoryInv /\ [RepositoryNext]_repositoryVars => RepositoryInv'
  BY RepositoryStepInv
<1> QED
  BY <1>1, <1>2, PTL DEF RepositorySpec

\* The applied blocks are exactly a parent-linked path that ends in the checkpoint.
THEOREM HistoriesArePaths == RepositorySpec => []HistoryIsPath
BY RepositorySound, PTL DEF RepositoryInv

\* The rollback journal undoes the newest applied blocks, one after the other.
THEOREM JournalsLinked == RepositorySpec => []JournalLinked
BY RepositorySound, PTL DEF RepositoryInv

\* An output is live exactly when a replay of the applied blocks leaves it so.
THEOREM OutputsReplayed == RepositorySpec => []OutputsAreReplay
BY RepositorySound, PTL DEF RepositoryInv
=============================================================================
