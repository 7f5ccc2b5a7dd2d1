----------------------------- MODULE MCIndexing -----------------------------
(***************************************************************************)
(* Indexing on small block trees.  A block is a number: its last digit is  *)
(* its height, and 12 starts the branch that leaves the main chain at      *)
(* block 1.  Positions are sparse.                                         *)
(*                                                                         *)
(* In the reorg run wallet w1 is imported with its birthday between two    *)
(* produced blocks and w2 with its birthday at one; block 1 pays w1 before *)
(* that birthday, and block 13 spends the payment.  In the publication     *)
(* runs a wallet is published at run time.                                 *)
(***************************************************************************)
EXTENDS Indexing

CONSTANTS w1, w2, a1, a2, o1, o2

ReorgBlock == {0, 1, 2, 3, 4, 12, 13}
SmallBlock == {0, 1, 2, 12}
LineBlock == {0, 1, 2}

MCHeight == [b \in Block |-> b % 10]
MCPos == [b \in Block |-> 2 * MCHeight[b]]
MCParent == [b \in Block |-> CASE b = 0 -> None [] b = 12 -> 1 [] OTHER -> b - 1]

MCAddress == {a1, a2}
MCAddressOf == [w \in Wallet |-> IF w = w1 THEN a1 ELSE a2]
ImportedW1 == {[id |-> w1, start |-> 3]}
ImportedBoth == {[id |-> w1, start |-> 3], [id |-> w2, start |-> 4]}
NothingImported == {}

MCOutput == {o1, o2}
MCOwner == [o \in MCOutput |-> IF o = o1 THEN a1 ELSE a2]
MCCreates == [b \in Block |-> CASE b = 1 -> {o1} [] b = 2 -> {o2} [] OTHER -> {}]
MCSpends == [b \in Block |-> CASE b = 13 -> {o1} [] b = 3 -> {o2} [] OTHER -> {}]
=============================================================================
