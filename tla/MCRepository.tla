---------------------------- MODULE MCRepository ----------------------------
(***************************************************************************)
(* Repository on a tree of two forks.  Block 0 creates o1 for a1; both     *)
(* children 2 and 12 carry the transaction that spends it and creates o2   *)
(* for a2; 3 spends o2, 13 creates and spends o3 in one block.  The window *)
(* of two journal rows is shorter than the longest chain.                  *)
(***************************************************************************)
EXTENDS Repository

CONSTANTS a1, a2, o1, o2, o3

MCBlock == {0, 1, 2, 3, 4, 12, 13}
MCHeight == [b \in MCBlock |-> IF b > 10 THEN b - 10 ELSE b]
MCPos == [b \in MCBlock |-> 2 * MCHeight[b]]
MCParent == [b \in MCBlock |-> IF b = 0 THEN None ELSE IF b = 12 THEN 1 ELSE b - 1]
MCOutput == {o1, o2, o3}
MCAddress == {a1, a2}
MCOwner == [o \in MCOutput |-> IF o = o2 THEN a2 ELSE a1]
MCCreates == [b \in MCBlock |->
    CASE b = 0 -> {o1} [] b \in {2, 12} -> {o2} [] b = 13 -> {o3} [] OTHER -> {}]
MCSpends == [b \in MCBlock |->
    CASE b \in {2, 12} -> {o1} [] b = 3 -> {o2} [] b = 13 -> {o3} [] OTHER -> {}]
=============================================================================
