---------------------------- MODULE NonceLedger ----------------------------
(***************************************************************************)
(* What the Ethereum transaction coordinator promises to the chain: the    *)
(* envelopes that may have reached a node, sender by sender.  A sender has *)
(* at most one envelope whose fate is open, and a new one takes a nonce    *)
(* above every nonce that was settled before.  EthereumCoordinator is      *)
(* shown to implement this ledger.                                         *)
(***************************************************************************)
EXTENDS Integers

CONSTANT Envelope   \* records with a sender `from` and a `nonce`

VARIABLES
    wire,      \* envelopes that may have reached a node
    settled    \* those whose acceptance is known

ledgerVars == <<wire, settled>>

SameSender(e) == {f \in wire : f.from = e.from}

LedgerInit == wire = {} /\ settled = {}

\* The sender of e owes nothing, and the nonce of e is new.
Open(e) == \A f \in SameSender(e) : f \in settled /\ f.nonce < e.nonce

\* The exact bytes of e go out, for the first time or once more.
Send(e) ==
    /\ Open(e) \/ e \in wire
    /\ wire' = wire \cup {e}
    /\ UNCHANGED settled

\* A node is known to have e.
Settle(e) ==
    /\ e \in wire \ settled
    /\ settled' = settled \cup {e}
    /\ UNCHANGED wire

LedgerNext == \E e \in Envelope : Send(e) \/ Settle(e)

LedgerSpec == LedgerInit /\ [][LedgerNext]_ledgerVars

-----------------------------------------------------------------------------

\* No two transactions of a sender compete for a nonce.
NonceSpentOnce ==
    \A e, f \in wire : e.from = f.from /\ e.nonce = f.nonce => e = f

\* At most one envelope of a sender has an open fate, and it is the last one.
OneOpen ==
    \A e \in wire \ settled : \A f \in wire :
        f.from = e.from => f = e \/ (f \in settled /\ f.nonce < e.nonce)
=============================================================================
