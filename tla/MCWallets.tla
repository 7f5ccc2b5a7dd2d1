----------------------------- MODULE MCWallets -----------------------------
(***************************************************************************)
(* Wallets on a small instance: one sync pass, two publishers, an imported *)
(* wallet and two runtime wallets that share an address.                   *)
(***************************************************************************)
EXTENDS Wallets, TLC

CONSTANTS w1, w2, w3, a1, a2

MCBlock == {0}
MCPos == [b \in MCBlock |-> b]
MCHeight == MCPos
MCParent == [b \in MCBlock |-> None]
MCWallet == {w1, w2, w3}
MCAddress == {a1, a2}
MCAddressOf == (w1 :> a1) @@ (w2 :> a2) @@ (w3 :> a2)
MCImported == {[id |-> w1, start |-> 1]}

Symmetry == Permutations(Publisher) \cup Permutations(Task)
=============================================================================
