------------------------------- MODULE Chain -------------------------------
(***************************************************************************)
(* Blocks as the indexer sees them: a BlockRef carries a position (a slot  *)
(* or a height), a produced height and the parent's position and hash.  A  *)
(* model block stands for its hash, so the block tree, with all the forks  *)
(* a source may ever report, is given by constant functions.               *)
(***************************************************************************)
EXTENDS Integers, FiniteSets

CONSTANTS
    Block,    \* block hashes
    None,     \* Option::None
    Pos,      \* Pos[b]: the source position of b
    Height,   \* Height[b]: the produced height of b
    Parent,   \* Parent[b]: the parent of b, None for the genesis block
    Address   \* canonical addresses of the scope

Checkpoint == Block \cup {None}

ASSUME NoneIsNoBlock == None \notin Block
ASSUME PosType == Pos \in [Block -> Nat]
ASSUME HeightType == Height \in [Block -> Nat]
ASSUME ParentType == Parent \in [Block -> Checkpoint]
\* A child is one produced height above its parent and at a later position;
\* only the block at position 0 has no parent.
ASSUME ParentBelow ==
    \A b \in Block :
        IF Parent[b] = None
        THEN Pos[b] = 0 /\ Height[b] = 0
        ELSE Pos[Parent[b]] < Pos[b] /\ Height[b] = Height[Parent[b]] + 1

\* A block connects to a checkpoint (Synchronizer::apply, BlockAddition::new);
\* the first block of an index connects to no checkpoint.
Connects(b, c) ==
    c # None =>
        /\ Pos[b] > Pos[c]
        /\ Height[b] = Height[c] + 1
        /\ Parent[b] = c

\* The chain that ends in b: what every set with b and the parents of its members has.
ChainOf ==
    [b \in Block |->
        {a \in Block : \A S \in SUBSET Block :
            b \in S /\ (\A x \in S : Parent[x] = None \/ Parent[x] \in S) => a \in S}]
=============================================================================
