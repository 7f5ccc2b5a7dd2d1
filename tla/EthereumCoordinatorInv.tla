----------------------- MODULE EthereumCoordinatorInv -----------------------
(***************************************************************************)
(* The inductive invariant of the Ethereum coordinator, for any number of  *)
(* senders and tasks, any jobs and any range of nonces, and the steps that *)
(* call, wait, ask the node, claim, accept and give up.                    *)
(*                                                                         *)
(* The safety properties are not inductive: why a claimed envelope carries *)
(* the lowest nonce of its sender's records depends on who holds the       *)
(* sender, on where the batch of the holder stands and on what admission   *)
(* saw when it chose an envelope to recover.  IInv says all of that.       *)
(***************************************************************************)
EXTENDS EthereumCoordinator, FiniteSetTheorems, WellFoundedInduction, TLAPS

Submitting(t) == pc[t] \in {"submit", "lookup", "wire", "answer"}
Claiming(t) == pc[t] \in {"lookup", "wire", "answer"}
Recorded(e) == records[e].status # "none"

\* Where a call stands and what it submits.
Phases ==
    \A t \in Task :
        /\ via[t] # "none" <=> Submitting(t)
        /\ Submitting(t) => claimed[t] \in Envelope
        /\ pc[t] = "lookup" => recovery[t]
        /\ t \in asleep => pc[t] \in {"admit", "submit"}
        /\ via[t] = "single" => claimed[t].payment = t
        /\ signed[t] # None => signed[t].payment = t
        /\ pc[t] \in {"admit", "nonces", "build"} \/ via[t] = "admit" => cursor[t] = 0

\* A claim is exclusive, and a first claim is on bytes that never left.
Claims ==
    /\ \A t \in Task : Claiming(t) => records[claimed[t]].status = "reconciling"
    /\ \A t, u \in Task : Claiming(t) /\ Claiming(u) /\ claimed[t] = claimed[u] => t = u
    /\ \A t \in Task : pc[t] = "wire" /\ ~ recovery[t] => claimed[t] \notin sent

\* What admission chose to recover was tried before: whoever claims it now
\* recovers it too, and only its acceptance ends its record.
Recoveries ==
    \A t \in Task : via[t] = "admit" =>
        /\ claimed[t] \in accepted \/ InFlight(claimed[t])
        /\ \A u \in Task : Claiming(u) /\ claimed[u] = claimed[t] => recovery[u]

\* The floor separates the accepted envelopes from the recorded ones.
Floors ==
    /\ \A e \in accepted : e.nonce < floor[e.from]
    /\ \A e \in Envelope : Recorded(e) => floor[e.from] <= e.nonce

\* An envelope in flight has the lowest nonce of its sender's records.
OldestFirst ==
    \A e, f \in Envelope :
        InFlight(e) /\ Recorded(f) /\ f.from = e.from => f = e \/ e.nonce < f.nonce

\* A sender is held by the operation whose call names it, and by no other.
Holders ==
    \A t \in Task, s \in Sender :
        active[s] = t <=> Holding(t) /\ s \in Senders(job[t].items)

\* While an operation reads nonces its senders have no records; what it read
\* is above the floor and leaves room for its items.
Fresh ==
    \A t \in Task : pc[t] \in {"nonces", "build"} =>
        /\ pc[t] = "build" => unread[t] = {}
        /\ \A s \in Senders(job[t].items) :
               /\ \A e \in Envelope : Recorded(e) => e.from # s
               /\ s \notin unread[t] =>
                      /\ floor[s] <= start[t][s]
                      /\ start[t][s] + Occurrences(job[t].items, s) <= MaxNonce

\* The records of the senders of a batch are its entries from the cursor on,
\* in the order of their nonces.
Batches ==
    \A t \in Task : via[t] = "batch" =>
        /\ cursor[t] < Len(entries[t]) /\ claimed[t] = entries[t][cursor[t] + 1]
        /\ \A i \in 1 .. Len(entries[t]) :
               /\ entries[t][i].payment = t
               /\ entries[t][i].from \in Senders(job[t].items)
               /\ \A k \in 1 .. Len(entries[t]) :
                      i < k /\ entries[t][i].from = entries[t][k].from =>
                          entries[t][i].nonce < entries[t][k].nonce
        /\ \A f \in Envelope : Recorded(f) /\ active[f.from] = t =>
               /\ records[f].op = t
               /\ \E i \in 1 .. Len(entries[t]) : cursor[t] < i /\ f = entries[t][i]

\* OneRetained, in terms of envelopes.
Retained ==
    \A e, f \in Envelope :
        Recorded(e) /\ Recorded(f) /\ e.from = f.from /\ active[e.from] = None => e = f

IInv ==
    /\ TypeOK
    /\ Phases
    /\ Claims
    /\ Recoveries
    /\ Floors
    /\ OldestFirst
    /\ Holders
    /\ Fresh
    /\ Batches
    /\ Retained
    /\ OpenFateRetained

-----------------------------------------------------------------------------

\* Indices of sequences.
LEMMA Indices ==
    /\ 1 .. 0 = {} /\ 1 - 1 = 0
    /\ \A n \in Nat : \A i \in 1 .. n : 0 < i
    /\ \A n \in Nat \ {0} : 1 \in 1 .. n
    /\ \A k \in Nat : (k + 1) - 1 = k /\ \A n \in Nat : k < n => k + 1 \in 1 .. n
<1>1. QED
  OBVIOUS

\* Nonces and floors are numbers.
LEMMA NoncesFacts ==
    ASSUME TypeOK
    PROVE  /\ \A e \in Envelope : e.nonce \in Int /\ e.from \in Sender
           /\ \A e \in Envelope : floor[e.from] \in Int
<1>1. \A e \in Envelope : e.nonce \in Int /\ e.from \in Sender
  BY DEF Envelope
<1>2. \A s \in Sender : floor[s] \in Int
  BY MaxNonceAssumption DEF TypeOK
<1>3. QED
  BY <1>1, <1>2, Zenon

\* A call names between one sender and a batch of them.
LEMMA JobFacts ==
    ASSUME NEW j \in Job
    PROVE  /\ j.kind \in {"batch", "send", "prepare"}
           /\ j.items \in Seq(Sender)
           /\ Len(j.items) \in 1 .. MaxTransfers
           /\ Senders(j.items) \subseteq Sender
           /\ DOMAIN j.items = 1 .. Len(j.items)
<1>1. /\ j.kind \in {"batch", "send", "prepare"}
      /\ j.items \in Seq(Sender)
      /\ Len(j.items) \in 1 .. (IF j.kind = "batch" THEN MaxTransfers ELSE 1)
  BY JobAssumption, Zenon
<1>2. Len(j.items) \in 1 .. MaxTransfers /\ DOMAIN j.items = 1 .. Len(j.items)
  BY <1>1, MaxTransfersAssumption
<1>3. QED
  BY <1>1, <1>2 DEF Senders

\* At first nothing is held, recorded or sent.
LEMMA InitIInv ==
    ASSUME Init
    PROVE  IInv
<1>1. (CHOOSE j \in Job : TRUE) \in Job
  BY JobAssumption, Zenon
<1>2. TypeOK
  BY <1>1 DEF Init, TypeOK, NoRecord, NoResult, Record
<1>3. Phases /\ Claims /\ Recoveries /\ Floors /\ OpenFateRetained
  BY Zenon DEF Init, Phases, Claims, Recoveries, Floors, OpenFateRetained, Submitting,
         Claiming, Recorded, NoRecord
<1>4. OldestFirst /\ Retained /\ Fresh /\ Batches
  BY Zenon DEF Init, OldestFirst, Retained, Fresh, Batches, Recorded, InFlight, NoRecord
<1>5. Holders
  BY TaskSenderAssumption, Zenon DEF Init, Holders, Holding
<1>6. QED
  BY <1>2, <1>3, <1>4, <1>5, Zenon DEF IInv

-----------------------------------------------------------------------------
(* Steps that leave the state behind the mutex alone.                      *)

\* A new call changes only what its task is about to do.
LEMMA CallStep ==
    ASSUME IInv, NEW t \in Task, NEW j \in Job, Call(t, j)
    PROVE  IInv'
<1> USE DEF Call, Called, GoTo, stateVars, submitVars, nodeVars
<1>1. TypeOK'
  BY DEF IInv, TypeOK, NoResult
<1>2. Phases' /\ Claims' /\ Recoveries'
  BY DEF IInv, TypeOK, Phases, Claims, Recoveries, Submitting, Claiming, InFlight
<1>3. Floors' /\ OldestFirst' /\ Retained' /\ OpenFateRetained'
  BY Zenon DEF IInv, Floors, OldestFirst, Retained, OpenFateRetained, Recorded, InFlight
<1>4. Holders'
  <2>1. \A u \in Task : Holding(u)' <=> Holding(u)
    BY Zenon DEF IInv, TypeOK, Phases, Holding, Submitting
  <2>2. \A u \in Task : Holding(u) => job'[u] = job[u]
    BY Zenon DEF IInv, TypeOK, Phases, Holding, Submitting
  <2>3. QED
    BY <2>1, <2>2, Zenon DEF IInv, Holders
<1>5. Fresh'
  BY Zenon DEF IInv, TypeOK, Fresh, Recorded
<1>6. Batches'
  <2>1. \A u \in Task : via[u] = "batch" =>
            /\ job'[u] = job[u] /\ entries'[u] = entries[u] /\ cursor'[u] = cursor[u]
    BY ZenonT(30) DEF IInv, TypeOK, Phases, Submitting
  <2>2. QED
    BY <2>1 DEF IInv, Batches, Recorded
<1>7. QED
  BY <1>1, <1>2, <1>3, <1>4, <1>5, <1>6, Zenon DEF IInv

\* Broadcast picks up the envelope its caller kept.
LEMMA BroadcastStep ==
    ASSUME IInv, NEW t \in Task, Broadcast(t)
    PROVE  IInv'
<1> USE DEF Broadcast, Called, GoTo, stateVars, prepareVars, nodeVars
<1>1. TypeOK'
  BY DEF IInv, TypeOK, NoResult
<1>2. Phases' /\ Claims'
  BY DEF IInv, TypeOK, Phases, Claims, Submitting, Claiming
<1>3. Recoveries'
  BY DEF IInv, TypeOK, Recoveries, Claiming, InFlight
<1>4. Floors' /\ OldestFirst' /\ Retained' /\ OpenFateRetained'
  BY Zenon DEF IInv, Floors, OldestFirst, Retained, OpenFateRetained, Recorded, InFlight
<1>5. Holders'
  <2>1. \A u \in Task : Holding(u)' <=> Holding(u)
    BY Zenon DEF IInv, TypeOK, Phases, Holding, Submitting
  <2>2. QED
    BY <2>1, Zenon DEF IInv, Holders
<1>6. Fresh'
  BY Zenon DEF IInv, TypeOK, Fresh, Recorded
<1>7. Batches'
  <2>1. \A u \in Task : via'[u] = "batch" => via[u] = "batch" /\ claimed'[u] = claimed[u]
    BY Zenon DEF IInv, TypeOK
  <2>2. QED
    BY <2>1 DEF IInv, Batches, Recorded
<1>8. QED
  BY <1>1, <1>2, <1>3, <1>4, <1>5, <1>6, <1>7, Zenon DEF IInv

\* Admission chooses an envelope whose outcome is unknown.
LEMMA RecoverStep ==
    ASSUME IInv, NEW t \in Task, NEW e \in Envelope, Recover(t, e)
    PROVE  IInv'
<1> USE DEF Recover, At, GoTo, stateVars, prepareVars, callVars, nodeVars
<1>1. TypeOK'
  BY Zenon DEF IInv, TypeOK
<1>2. Phases' /\ Claims'
  BY DEF IInv, TypeOK, Phases, Claims, Submitting, Claiming
<1>3. Recoveries'
  <2>1. InFlight(e)
    BY Zenon DEF CanRecover, InFlight
  <2>2. \A u \in Task : Claiming(u) => claimed[u] # e
    BY Zenon DEF IInv, Claims, CanRecover
  <2>3. QED
    BY <2>1, <2>2 DEF IInv, TypeOK, Recoveries, Claiming, InFlight
<1>4. Floors' /\ OldestFirst' /\ Retained' /\ OpenFateRetained'
  BY Zenon DEF IInv, Floors, OldestFirst, Retained, OpenFateRetained, Recorded, InFlight
<1>5. Holders'
  <2>1. \A u \in Task : Holding(u)' <=> Holding(u)
    BY ZenonT(30) DEF IInv, TypeOK, Phases, Holding, Submitting
  <2>2. QED
    BY <2>1, Zenon DEF IInv, Holders
<1>6. Fresh'
  BY Zenon DEF IInv, TypeOK, Fresh, Recorded
<1>7. Batches'
  <2>1. \A u \in Task : via'[u] = "batch" => via[u] = "batch" /\ claimed'[u] = claimed[u]
    BY Zenon DEF IInv, TypeOK
  <2>2. QED
    BY <2>1 DEF IInv, Batches, Recorded
<1>8. QED
  BY <1>1, <1>2, <1>3, <1>4, <1>5, <1>6, <1>7, Zenon DEF IInv

\* A task that must wait falls asleep where it stands.
LEMMA WaitStep ==
    ASSUME IInv, NEW t \in Task, AdmitWait(t) \/ ClaimWait(t)
    PROVE  IInv'
<1>1. /\ pc[t] \in {"admit", "submit"} /\ asleep' = asleep \cup {t}
      /\ UNCHANGED <<stateVars, pc, prepareVars, cursor, callVars, submitVars, result,
                     nodeVars, accepted>>
  BY Zenon DEF AdmitWait, ClaimWait, At
<1> USE <1>1 DEF stateVars, prepareVars, callVars, submitVars, nodeVars
<1>2. TypeOK' /\ Phases' /\ Claims' /\ Recoveries'
  BY DEF IInv, TypeOK, Phases, Claims, Recoveries, Submitting, Claiming, InFlight
<1>3. Floors' /\ OldestFirst' /\ Retained' /\ OpenFateRetained'
  BY Zenon DEF IInv, Floors, OldestFirst, Retained, OpenFateRetained, Recorded, InFlight
<1>4. Holders' /\ Fresh'
  BY Zenon DEF IInv, Holders, Holding, Fresh, Recorded
<1>5. Batches'
  BY SMTT(30) DEF IInv, Batches, Recorded
<1>6. QED
  BY <1>2, <1>3, <1>4, <1>5, Zenon DEF IInv

\* A recovery whose hash the node does not know goes on to the wire.
LEMMA LookupAbsentStep ==
    ASSUME IInv, NEW t \in Task, LookupAbsent(t)
    PROVE  IInv'
<1> USE DEF LookupAbsent, At, GoTo, stateVars, prepareVars, callVars, submitVars, nodeVars
<1>1. TypeOK' /\ Phases' /\ Claims' /\ Recoveries'
  BY DEF IInv, TypeOK, Phases, Claims, Recoveries, Submitting, Claiming, InFlight
<1>2. Floors' /\ OldestFirst' /\ Retained' /\ OpenFateRetained'
  BY Zenon DEF IInv, Floors, OldestFirst, Retained, OpenFateRetained, Recorded, InFlight
<1>3. Holders'
  <2>1. \A u \in Task : Holding(u)' <=> Holding(u)
    BY Zenon DEF IInv, TypeOK, Holding
  <2>2. QED
    BY <2>1, Zenon DEF IInv, Holders
<1>4. Fresh'
  BY Zenon DEF IInv, TypeOK, Fresh, Recorded
<1>5. Batches'
  BY DEF IInv, Batches, Recorded
<1>6. QED
  BY <1>1, <1>2, <1>3, <1>4, <1>5, Zenon DEF IInv

\* The bytes go out while the claim is exclusive.
LEMMA DispatchStep ==
    ASSUME IInv, NEW t \in Task, Dispatch(t)
    PROVE  IInv'
<1> USE DEF Dispatch, At, GoTo, stateVars, prepareVars, callVars, submitVars
<1>1. claimed[t] \in Envelope /\ InFlight(claimed[t])
  BY Zenon DEF IInv, Phases, Claims, Submitting, Claiming, InFlight
<1>2. TypeOK' /\ Phases' /\ Claims' /\ Recoveries'
  BY <1>1 DEF IInv, TypeOK, Phases, Claims, Recoveries, Submitting, Claiming, InFlight
<1>3. Floors' /\ OldestFirst' /\ Retained' /\ OpenFateRetained'
  BY <1>1, Zenon DEF IInv, Floors, OldestFirst, Retained, OpenFateRetained, Recorded, InFlight
<1>4. Holders'
  <2>1. \A u \in Task : Holding(u)' <=> Holding(u)
    BY Zenon DEF IInv, TypeOK, Holding
  <2>2. QED
    BY <2>1, Zenon DEF IInv, Holders
<1>5. Fresh'
  BY Zenon DEF IInv, TypeOK, Fresh, Recorded
<1>6. Batches'
  BY DEF IInv, Batches, Recorded
<1>7. QED
  BY <1>2, <1>3, <1>4, <1>5, <1>6, Zenon DEF IInv

\* The node's receipt of bytes, and the steps that change nothing.
LEMMA OtherStep ==
    ASSUME IInv, (\E e \in Envelope : Deliver(e)) \/ UNCHANGED vars
    PROVE  IInv'
<1>1. /\ pool \subseteq pool' /\ pool' \subseteq sent
      /\ UNCHANGED <<stateVars, pc, prepareVars, cursor, callVars, submitVars, result,
                     asleep, sent, accepted>>
  BY Zenon DEF IInv, TypeOK, Deliver, vars, nodeVars
<1> USE <1>1 DEF stateVars, prepareVars, callVars, submitVars
<1>2. TypeOK' /\ Phases' /\ Claims' /\ Recoveries'
  BY DEF IInv, TypeOK, Phases, Claims, Recoveries, Submitting, Claiming, InFlight
<1>3. Floors' /\ OldestFirst' /\ Retained' /\ OpenFateRetained'
  BY Zenon DEF IInv, Floors, OldestFirst, Retained, OpenFateRetained, Recorded, InFlight
<1>4. Holders' /\ Fresh'
  BY Zenon DEF IInv, Holders, Holding, Fresh, Recorded
<1>5. Batches'
  BY DEF IInv, Batches, Recorded
<1>6. QED
  BY <1>2, <1>3, <1>4, <1>5, Zenon DEF IInv

\* A caller dropped while it waits for admission holds nothing.
LEMMA CancelAdmitStep ==
    ASSUME IInv, NEW t \in Task, CancelWait(t), pc[t] = "admit"
    PROVE  IInv'
<1>1. /\ Return(t, "failed", None) /\ asleep' = asleep \ {t}
      /\ UNCHANGED <<active, records, floor, prepareVars, cursor, callVars, nodeVars, accepted>>
  BY Zenon DEF CancelWait
<1> USE <1>1 DEF Return, GoTo, prepareVars, callVars, nodeVars
<1>2. \A u \in Task \ {t} : /\ pc'[u] = pc[u] /\ via'[u] = via[u]
                            /\ claimed'[u] = claimed[u] /\ recovery'[u] = recovery[u]
  BY Zenon DEF IInv, TypeOK
<1>3. pc'[t] = "idle" /\ via'[t] = "none" /\ via[t] = "none"
  BY Zenon DEF IInv, TypeOK, Phases, Submitting
<1>4. TypeOK'
  BY Zenon DEF IInv, TypeOK
<1>5. Phases'
  BY <1>2, <1>3 DEF IInv, Phases, Submitting
<1>6. Claims' /\ Recoveries'
  BY <1>2, <1>3 DEF IInv, Claims, Recoveries, Claiming, InFlight
<1>7. Floors' /\ OldestFirst' /\ Retained' /\ OpenFateRetained'
  BY Zenon DEF IInv, Floors, OldestFirst, Retained, OpenFateRetained, Recorded, InFlight
<1>8. Holders'
  <2>1. \A u \in Task : Holding(u)' <=> Holding(u)
    BY <1>2, <1>3, Zenon DEF Holding
  <2>2. QED
    BY <2>1, Zenon DEF IInv, Holders
<1>9. Fresh'
  <2>1. \A u \in Task : pc'[u] \in {"nonces", "build"} => pc'[u] = pc[u]
    BY <1>2, <1>3, Zenon
  <2>2. QED
    BY <2>1, Zenon DEF IInv, Fresh, Recorded
<1>10. Batches'
  <2>1. \A u \in Task : via'[u] = "batch" => via[u] = "batch" /\ claimed'[u] = claimed[u]
    BY <1>2, <1>3, Zenon
  <2>2. QED
    BY <2>1 DEF IInv, Batches, Recorded
<1>11. QED
  BY <1>4, <1>5, <1>6, <1>7, <1>8, <1>9, <1>10, Zenon DEF IInv

-----------------------------------------------------------------------------
(* Preparation.                                                            *)

\* Admission takes senders that nobody holds and that have no records.
LEMMA AcquireStep ==
    ASSUME IInv, NEW t \in Task, Acquire(t)
    PROVE  IInv'
<1> USE DEF Acquire, At, GoTo, callVars, submitVars, nodeVars
<1>1. job[t] \in Job
  BY Zenon DEF IInv, TypeOK
<1>2. Senders(job[t].items) \subseteq Sender
  BY <1>1, JobFacts, Zenon
<1>3. \A s \in Senders(job[t].items) :
          active[s] = None /\ \A e \in Envelope : Recorded(e) => e.from # s
  BY Zenon DEF Free, RecordsOf, Recorded
<1>4. TypeOK'
  BY <1>2, Zenon DEF IInv, TypeOK
<1>5. Phases' /\ Claims' /\ Recoveries'
  BY DEF IInv, TypeOK, Phases, Claims, Recoveries, Submitting, Claiming, InFlight
<1>6. Floors' /\ OldestFirst' /\ OpenFateRetained'
  BY Zenon DEF IInv, Floors, OldestFirst, OpenFateRetained, Recorded, InFlight
<1>7. Retained'
  BY TaskSenderAssumption, Zenon DEF IInv, TypeOK, Retained, Recorded, Envelope
<1>8. Holders'
  <2>1. ~ Holding(t) /\ Holding(t)'
    BY Zenon DEF IInv, TypeOK, Phases, Holding, Submitting
  <2>2. \A u \in Task \ {t} : Holding(u)' <=> Holding(u)
    BY Zenon DEF IInv, TypeOK, Holding
  <2>3. QED
    BY <1>3, <2>1, <2>2, TaskSenderAssumption DEF IInv, Holders
<1>9. Fresh'
  BY <1>3, Zenon DEF IInv, TypeOK, Fresh, Recorded
<1>10. Batches'
  <2>1. \A f \in Envelope : Recorded(f) => active'[f.from] = active[f.from]
    BY <1>3, Zenon DEF Envelope, Recorded
  <2>2. QED
    BY <2>1 DEF IInv, Batches, Recorded
<1>11. QED
  BY <1>4, <1>5, <1>6, <1>7, <1>8, <1>9, <1>10, Zenon DEF IInv

\* The nonce read is raised to the floor and leaves room for the items.
LEMMA ReadNonceStep ==
    ASSUME IInv, NEW t \in Task, NEW s \in Sender, NEW n \in 0 .. MaxNonce,
           ReadNonce(t, s, n)
    PROVE  IInv'
<1> USE DEF ReadNonce, At, GoTo, stateVars, callVars, submitVars, nodeVars
<1>1. FirstNonce(s, n) \in Nat /\ floor[s] <= FirstNonce(s, n)
  BY MaxNonceAssumption DEF IInv, TypeOK, FirstNonce
<1>2. FirstNonce(s, n) + Occurrences(job[t].items, s) <= MaxNonce
  BY Zenon DEF Fits
<1>3. TypeOK'
  BY <1>1, Zenon DEF IInv, TypeOK
<1>4. Phases' /\ Claims' /\ Recoveries'
  BY DEF IInv, TypeOK, Phases, Claims, Recoveries, Submitting, Claiming, InFlight
<1>5. Floors' /\ OldestFirst' /\ Retained' /\ OpenFateRetained'
  BY Zenon DEF IInv, Floors, OldestFirst, Retained, OpenFateRetained, Recorded, InFlight
<1>6. Holders'
  <2>1. \A u \in Task : Holding(u)' <=> Holding(u)
    BY Zenon DEF IInv, TypeOK, Holding
  <2>2. QED
    BY <2>1, Zenon DEF IInv, Holders
<1>7. Fresh'
  <2>1. start'[t][s] = FirstNonce(s, n) /\ unread'[t] = unread[t] \ {s}
    BY Zenon DEF IInv, TypeOK
  <2>2. \A r \in Sender \ {s} : start'[t][r] = start[t][r]
    BY Zenon DEF IInv, TypeOK
  <2>3. \A u \in Task \ {t} :
            pc'[u] = pc[u] /\ start'[u] = start[u] /\ unread'[u] = unread[u]
    BY Zenon DEF IInv, TypeOK
  <2>4. pc'[t] = "build" => unread'[t] = {}
    BY <2>1, Zenon DEF IInv, TypeOK
  <2>5. job[t] \in Job
    BY Zenon DEF IInv, TypeOK
  <2>6. Senders(job[t].items) \subseteq Sender
    BY <2>5, JobFacts, Zenon
  <2>7. \A u \in Task \ {t} : pc'[u] \in {"nonces", "build"} =>
            /\ pc'[u] = "build" => unread'[u] = {}
            /\ \A r \in Senders(job[u].items) :
                   /\ \A e \in Envelope : Recorded(e)' => e.from # r
                   /\ r \notin unread'[u] =>
                          /\ floor[r] <= start'[u][r]
                          /\ start'[u][r] + Occurrences(job[u].items, r) <= MaxNonce
    BY <2>3, Zenon DEF IInv, Fresh, Recorded
  <2>8. \A r \in Senders(job[t].items) :
            /\ \A e \in Envelope : Recorded(e)' => e.from # r
            /\ r \notin unread'[t] =>
                   /\ floor[r] <= start'[t][r]
                   /\ start'[t][r] + Occurrences(job[t].items, r) <= MaxNonce
    BY <1>1, <1>2, <2>1, <2>2, <2>6, Zenon DEF IInv, Fresh, Recorded
  <2>9. QED
    BY <2>4, <2>7, <2>8, Zenon DEF Fresh
<1>8. Batches'
  BY DEF IInv, Batches, Recorded
<1>9. QED
  BY <1>3, <1>4, <1>5, <1>6, <1>7, <1>8, Zenon DEF IInv

\* A preparation that fails gives its senders back; it had no records.
LEMMA AbortStep ==
    ASSUME IInv, NEW t \in Task, pc[t] \in {"nonces", "build"}, Abort(t)
    PROVE  IInv'
<1> USE DEF Abort, Return, GoTo, prepareVars, callVars, nodeVars
<1>1. \A e \in Envelope : records'[e] = records[e] \/ (~ Recorded(e)' /\ ~ InFlight(e))
  BY Zenon DEF Finished, Recorded, InFlight, NoRecord
<1>2. \A s \in Sender : active'[s] = IF active[s] = t THEN None ELSE active[s]
  BY Zenon DEF Released
<1>3. \A e \in Envelope : active[e.from] = t => ~ Recorded(e)
  BY SMTT(30) DEF IInv, Holders, Fresh, Envelope
<1>4. TypeOK'
  BY Zenon DEF IInv, TypeOK, Finished, Released, Record, NoRecord
<1>5. Phases'
  BY DEF IInv, TypeOK, Phases, Submitting
<1>6. Claims'
  <2>1. \A u \in Task : Claiming(u)' => u # t /\ Claiming(u) /\ claimed'[u] = claimed[u]
                                        /\ recovery'[u] = recovery[u] /\ pc'[u] = pc[u]
    BY Zenon DEF IInv, TypeOK, Claiming
  <2>2. \A u \in Task : Claiming(u) => claimed[u] \in Envelope /\ InFlight(claimed[u])
    BY Zenon DEF IInv, Claims, Claiming, Phases, Submitting, InFlight
  <2>3. QED
    BY <1>1, <2>1, <2>2 DEF IInv, Claims, Claiming
<1>7. Recoveries'
  <2>1. \A u \in Task : via'[u] = "admit" =>
            via[u] = "admit" /\ claimed'[u] = claimed[u] /\ claimed[u] \in Envelope
    BY DEF IInv, TypeOK, Phases
  <2>2. \A u \in Task : Claiming(u)' =>
            Claiming(u) /\ claimed'[u] = claimed[u] /\ recovery'[u] = recovery[u]
    BY Zenon DEF IInv, TypeOK, Claiming
  <2>3. \A e \in Envelope : InFlight(e) => InFlight(e)'
    BY <1>1, Zenon DEF InFlight
  <2>4. ASSUME NEW u \in Task, via'[u] = "admit"
        PROVE  claimed'[u] \in accepted' \/ InFlight(claimed[u])'
    BY <2>1, <2>3, <2>4 DEF IInv, Recoveries, InFlight
  <2>5. ASSUME NEW u \in Task, via'[u] = "admit", NEW w \in Task, Claiming(w)',
               claimed'[w] = claimed'[u]
        PROVE  recovery'[w]
    BY <2>1, <2>2, <2>5, ZenonT(30) DEF IInv, Recoveries
  <2>6. QED
    BY <2>4, <2>5, Zenon DEF Recoveries
<1>8. Floors' /\ OldestFirst' /\ OpenFateRetained'
  BY <1>1, Zenon DEF IInv, TypeOK, Floors, OldestFirst, OpenFateRetained, Recorded, InFlight
<1>9. Retained'
  BY <1>1, <1>2, <1>3 DEF IInv, Retained, Recorded, Envelope
<1>10. Holders'
  <2>1. ~ Holding(t)'
    BY Zenon DEF IInv, TypeOK, Holding
  <2>2. \A u \in Task \ {t} : Holding(u)' <=> Holding(u)
    BY Zenon DEF IInv, TypeOK, Holding
  <2>3. QED
    BY <1>2, <2>1, <2>2, TaskSenderAssumption DEF IInv, Holders
<1>11. Fresh'
  <2>1. \A u \in Task : pc'[u] \in {"nonces", "build"} => pc'[u] = pc[u]
    BY Zenon DEF IInv, TypeOK
  <2>2. \A e \in Envelope : Recorded(e)' => Recorded(e)
    BY <1>1, Zenon DEF Recorded
  <2>3. job' = job /\ unread' = unread /\ start' = start /\ floor' = floor
    OBVIOUS
  <2>4. QED
    BY <2>1, <2>2, <2>3, Zenon DEF IInv, Fresh
<1>12. Batches'
  <2>1. \A u \in Task : via'[u] = "batch" =>
            u # t /\ via[u] = "batch" /\ claimed'[u] = claimed[u]
    BY Zenon DEF IInv, TypeOK
  <2>2. \A u \in Task \ {t}, f \in Envelope : active'[f.from] = u => active[f.from] = u
    BY <1>2, TaskSenderAssumption, Zenon DEF Envelope
  <2>3. QED
    BY <1>1, <2>1, <2>2 DEF IInv, Batches, Recorded
<1>13. QED
  BY <1>4, <1>5, <1>6, <1>7, <1>8, <1>9, <1>10, <1>11, <1>12, Zenon DEF IInv

-----------------------------------------------------------------------------
(* Submission.                                                             *)

\* What the end of a submission without acceptance does, whatever ended it:
\* records only go, one in flight only when it was never sent and no admission
\* chose it, and a batch leaves none of its prepared ones.
Leaves(t) ==
    /\ \E kind \in {"rejected", "ambiguous", "failed"}, id \in Envelope \cup {None} :
           Return(t, kind, id)
    /\ records' \in [Envelope -> Record]
    /\ \A e \in Envelope : Recorded(e)' =>
           Recorded(e) /\ records'[e].op = records[e].op /\ (InFlight(e)' => InFlight(e))
    /\ \A e \in Envelope :
           InFlight(e) /\ (e # claimed[t] \/ ~ Claiming(t)) => records'[e] = records[e]
    /\ InFlight(claimed[t]) =>
           \/ records'[claimed[t]].status \in {"unknown", "reconciling"}
           \/ claimed[t] \notin sent /\ \A u \in Task : via[u] = "admit" => claimed[u] # claimed[t]
    /\ via[t] = "batch" =>
           \A e \in Envelope : Recorded(e)' /\ active[e.from] = t => InFlight(e)
    /\ active' = IF via[t] = "batch" THEN Released(t) ELSE active
    /\ asleep' \subseteq asleep \ {t}
    /\ UNCHANGED <<floor, prepareVars, cursor, callVars, nodeVars, accepted>>

LEMMA LeavesStep ==
    ASSUME IInv, NEW t \in Task, Submitting(t), Leaves(t)
    PROVE  IInv'
<1> USE DEF Leaves, Return, GoTo, prepareVars, callVars, nodeVars
<1>1. \A s \in Sender : active'[s] = IF active[s] = t THEN None ELSE active[s]
  BY Zenon DEF IInv, TypeOK, Released, Holders, Holding, Submitting
<1>2. \A e \in Envelope : Recorded(e)' => Recorded(e)
  BY Zenon DEF Recorded
<1>3. \A u \in Task \ {t} : /\ pc'[u] = pc[u] /\ via'[u] = via[u]
                            /\ claimed'[u] = claimed[u] /\ recovery'[u] = recovery[u]
  BY ZenonT(30) DEF IInv, TypeOK
<1>4. pc'[t] = "idle" /\ via'[t] = "none"
  BY Zenon DEF IInv, TypeOK
<1>5. TypeOK'
  BY DEF IInv, TypeOK, Released
<1>6. Phases'
  BY SMTT(30) DEF IInv, TypeOK, Phases, Submitting
<1>7. Claims'
  <2>1. \A u \in Task \ {t} : Claiming(u) =>
            /\ claimed[u] \in Envelope /\ InFlight(claimed[u])
            /\ claimed[u] # claimed[t] \/ ~ Claiming(t)
    BY DEF IInv, Claims, Claiming, Phases, Submitting, InFlight
  <2>2. \A u \in Task \ {t} : Claiming(u) => records'[claimed[u]] = records[claimed[u]]
    BY <2>1, Zenon
  <2>3. \A u \in Task : Claiming(u)' => u # t /\ Claiming(u)
    BY <1>3, <1>4, Zenon DEF Claiming
  <2>4. QED
    BY <1>3, <1>4, <2>2, <2>3, SMTT(30) DEF IInv, Claims, Claiming
<1>8. Recoveries'
  <2>1. \A u \in Task : via'[u] = "admit" =>
            u # t /\ via[u] = "admit" /\ claimed'[u] = claimed[u] /\ claimed[u] \in Envelope
    BY <1>3, <1>4, Zenon DEF IInv, Phases
  <2>2. \A u \in Task : Claiming(u)' =>
            Claiming(u) /\ claimed'[u] = claimed[u] /\ recovery'[u] = recovery[u]
    BY <1>3, <1>4, Zenon DEF Claiming
  <2>3. ASSUME NEW u \in Task, via'[u] = "admit"
        PROVE  claimed'[u] \in accepted' \/ InFlight(claimed[u])'
    <3>1. CASE claimed[u] \in accepted
      BY <2>1, <2>3, <3>1, Zenon
    <3>2. CASE InFlight(claimed[u]) /\ claimed[u] = claimed[t]
      BY <2>1, <2>3, <3>2, ZenonT(30) DEF InFlight
    <3>3. CASE InFlight(claimed[u]) /\ claimed[u] # claimed[t]
      BY <2>1, <2>3, <3>3 DEF InFlight
    <3>4. QED
      BY <2>1, <2>3, <3>1, <3>2, <3>3, Zenon DEF IInv, Recoveries
  <2>4. ASSUME NEW u \in Task, via'[u] = "admit", NEW w \in Task, Claiming(w)',
               claimed'[w] = claimed'[u]
        PROVE  recovery'[w]
    BY <2>1, <2>2, <2>4, ZenonT(30) DEF IInv, Recoveries
  <2>5. QED
    BY <2>3, <2>4, Zenon DEF Recoveries
<1>9. Floors'
  BY <1>2, Zenon DEF IInv, Floors
<1>10. OldestFirst'
  <2>1. \A e \in Envelope : InFlight(e)' => InFlight(e)
    BY Zenon DEF Recorded, InFlight
  <2>2. QED
    BY <1>2, <2>1, Zenon DEF IInv, OldestFirst
<1>11. Retained'
  <2>1. ASSUME NEW e \in Envelope, NEW f \in Envelope, Recorded(e)', Recorded(f)',
               e.from = f.from, active'[e.from] = None
        PROVE  e = f
    <3>1. e.from \in Sender /\ e.nonce \in Int /\ f.nonce \in Int
      BY DEF Envelope
    <3>2. CASE active[e.from] = None
      BY <1>2, <2>1, <3>2, Zenon DEF IInv, Retained
    <3>3. CASE active[e.from] = t
      <4>1. via[t] = "batch"
        BY <3>1, <3>3, Zenon DEF IInv, Holders, Holding, Submitting
      <4>2. InFlight(e) /\ InFlight(f) /\ Recorded(e) /\ Recorded(f)
        BY <1>2, <2>1, <3>3, <4>1, Zenon
      <4>3. QED
        BY <2>1, <3>1, <4>2 DEF IInv, OldestFirst
    <3>4. QED
      BY <1>1, <2>1, <3>1, <3>2, <3>3, Zenon
  <2>2. QED
    BY <2>1, Zenon DEF Retained
<1>12. OpenFateRetained'
  <2>1. ASSUME NEW e \in Envelope, e \in sent, InFlight(e)
        PROVE  InFlight(e)'
    BY <2>1, ZenonT(30) DEF InFlight
  <2>2. QED
    BY <2>1, Zenon DEF IInv, TypeOK, OpenFateRetained
<1>13. Holders'
  <2>1. ~ Holding(t)' /\ \A u \in Task \ {t} : Holding(u)' <=> Holding(u)
    BY <1>3, <1>4, Zenon DEF Holding
  <2>2. QED
    BY <1>1, <2>1, TaskSenderAssumption DEF IInv, Holders
<1>14. Fresh'
  <2>1. \A u \in Task : pc'[u] \in {"nonces", "build"} => pc'[u] = pc[u]
    BY <1>3, <1>4, Zenon
  <2>2. QED
    BY <1>2, <2>1, ZenonT(30) DEF IInv, Fresh
<1>15. Batches'
  <2>1. \A u \in Task : via'[u] = "batch" =>
            u # t /\ via[u] = "batch" /\ claimed'[u] = claimed[u]
    BY <1>3, <1>4, Zenon
  <2>2. \A u \in Task \ {t}, f \in Envelope : active'[f.from] = u => active[f.from] = u
    BY <1>1, TaskSenderAssumption DEF Envelope
  <2>3. \A f \in Envelope : Recorded(f)' => Recorded(f) /\ records'[f].op = records[f].op
    BY Zenon DEF Recorded
  <2>4. QED
    BY <2>1, <2>2, <2>3, SMTT(30) DEF IInv, Batches
<1>16. QED
  BY <1>5, <1>6, <1>7, <1>8, <1>9, <1>10, <1>11, <1>12, <1>13, <1>14, <1>15, Zenon DEF IInv

\* The records that a stopped batch leaves were claimed once.
LEMMA FinishedFacts ==
    ASSUME NEW t \in Task, NEW recs \in [Envelope -> Record], NEW e \in Envelope
    PROVE  /\ Finished(t, recs) \in [Envelope -> Record]
           /\ recs[e].status \in {"unknown", "reconciling"} => Finished(t, recs)[e] = recs[e]
           /\ Finished(t, recs)[e].status # "none" =>
                  /\ Finished(t, recs)[e] = recs[e]
                  /\ recs[e].op = t => recs[e].status \in {"unknown", "reconciling"}
BY Zenon DEF Finished, Record, NoRecord

\* A claim that finds no reservation, an outcome that stays unknown, a refusal
\* and the drop of a waiting caller all leave in that way.
LEMMA ClaimMissingLeaves ==
    ASSUME IInv, NEW t \in Task,
           ClaimMissing(t) \/ (CancelWait(t) /\ pc[t] = "submit")
    PROVE  Submitting(t) /\ Leaves(t)
<1>1. pc[t] = "submit" /\ claimed[t] \in Envelope /\ records \in [Envelope -> Record]
  BY Zenon DEF ClaimMissing, At, IInv, TypeOK, Phases, Submitting
<1>2. PICK kind \in {"rejected", "failed"} : EndSubmit(t, records, kind, FALSE)
  BY <1>1, Zenon DEF ClaimMissing, CancelWait
<1>3. UNCHANGED <<floor, prepareVars, cursor, callVars, nodeVars, accepted>>
  BY Zenon DEF ClaimMissing, CancelWait
<1>4. /\ records' = IF via[t] = "batch" THEN Finished(t, records) ELSE records
      /\ active' = IF via[t] = "batch" THEN Released(t) ELSE active
      /\ asleep' \subseteq asleep \ {t}
      /\ Return(t, IF via[t] = "admit" THEN "failed" ELSE kind, claimed[t])
  BY <1>2, Zenon DEF EndSubmit
<1>5. \A e \in Envelope : Recorded(e)' => records'[e] = records[e]
  BY <1>1, <1>4, FinishedFacts, ZenonT(30) DEF Recorded
<1>6. \A e \in Envelope : InFlight(e) => records'[e] = records[e]
  BY <1>1, <1>4, FinishedFacts, Zenon DEF InFlight
<1>7. via[t] = "batch" =>
          \A e \in Envelope : Recorded(e)' /\ active[e.from] = t => InFlight(e)
  <2>1. ASSUME via[t] = "batch", NEW e \in Envelope, Recorded(e)', active[e.from] = t
        PROVE  InFlight(e)
    <3>1. Recorded(e) /\ Finished(t, records)[e].status # "none"
      BY <1>4, <1>5, <2>1, Zenon DEF Recorded
    <3>2. records[e].op = t
      BY <2>1, <3>1, Zenon DEF IInv, Batches
    <3>3. QED
      BY <1>1, <3>1, <3>2, FinishedFacts, Zenon DEF InFlight
  <2>2. QED
    BY <2>1, Zenon
<1>8. records' \in [Envelope -> Record]
  BY <1>1, <1>4, FinishedFacts, Zenon DEF Finished, Record, NoRecord
<1>9. \A e \in Envelope : Recorded(e)' =>
          Recorded(e) /\ records'[e].op = records[e].op /\ (InFlight(e)' => InFlight(e))
  BY <1>5, Zenon DEF Recorded, InFlight
<1>10. Submitting(t)
  BY <1>1, Zenon DEF Submitting
<1>11. \E k \in {"rejected", "ambiguous", "failed"}, id \in Envelope \cup {None} :
           Return(t, k, id)
  BY <1>1, <1>4, Zenon
<1>12. QED
  BY <1>1, <1>3, <1>4, <1>6, <1>7, <1>8, <1>9, <1>10, <1>11, Zenon DEF Leaves, InFlight

LEMMA UndecidedLeaves ==
    ASSUME IInv, NEW t \in Task, Claiming(t),
           EndSubmit(t, Ambiguous(claimed[t]), "ambiguous", TRUE),
           UNCHANGED <<floor, prepareVars, cursor, callVars, nodeVars, accepted>>
    PROVE  Leaves(t)
<1> DEFINE recs == Ambiguous(claimed[t])
<1>1. /\ claimed[t] \in Envelope /\ records \in [Envelope -> Record]
      /\ records[claimed[t]].status = "reconciling"
  BY Zenon DEF IInv, TypeOK, Phases, Submitting, Claiming, Claims
<1>2. recs \in [Envelope -> Record]
  BY <1>1, Zenon DEF Ambiguous, Record
<1>3. /\ \A e \in Envelope \ {claimed[t]} : recs[e] = records[e]
      /\ recs[claimed[t]] = [records[claimed[t]] EXCEPT !.status = "unknown"]
  BY <1>1, Zenon DEF Ambiguous, Record
<1>4. \A e \in Envelope :
          /\ recs[e].op = records[e].op
          /\ recs[e].status # "none" <=> Recorded(e)
          /\ recs[e].status \in {"unknown", "reconciling"} <=> InFlight(e)
  BY <1>1, <1>3 DEF Record, Recorded, InFlight
<1> HIDE DEF recs
<1>5. /\ records' = IF via[t] = "batch" THEN Finished(t, recs) ELSE recs
      /\ active' = IF via[t] = "batch" THEN Released(t) ELSE active
      /\ asleep' = {}
      /\ Return(t, IF via[t] = "admit" THEN "failed" ELSE "ambiguous", claimed[t])
  BY Zenon DEF EndSubmit, recs
<1>6. \A e \in Envelope : Recorded(e)' => records'[e] = recs[e]
  BY <1>2, <1>5, FinishedFacts, Zenon DEF Recorded
<1>7. \A e \in Envelope : InFlight(e) => records'[e] = recs[e]
  BY <1>2, <1>4, <1>5, FinishedFacts, Zenon
<1>8. via[t] = "batch" =>
          \A e \in Envelope : Recorded(e)' /\ active[e.from] = t => InFlight(e)
  <2>1. ASSUME via[t] = "batch", NEW e \in Envelope, Recorded(e)', active[e.from] = t
        PROVE  InFlight(e)
    <3>1. Recorded(e) /\ Finished(t, recs)[e].status # "none"
      BY <1>4, <1>5, <1>6, <2>1, Zenon DEF Recorded
    <3>2. recs[e].op = t
      BY <1>4, <2>1, <3>1, Zenon DEF IInv, Batches
    <3>3. QED
      BY <1>2, <1>4, <3>1, <3>2, FinishedFacts, Zenon
  <2>2. QED
    BY <2>1, Zenon
<1>9. records' \in [Envelope -> Record]
  BY <1>2, <1>5, FinishedFacts, Zenon DEF Finished, Record, NoRecord
<1>10. \A e \in Envelope : Recorded(e)' =>
           Recorded(e) /\ records'[e].op = records[e].op /\ (InFlight(e)' => InFlight(e))
  BY <1>4, <1>6, Zenon DEF Recorded, InFlight
<1>11. \A e \in Envelope : InFlight(e) /\ e # claimed[t] => records'[e] = records[e]
  BY <1>3, <1>7, Zenon
<1>12. records'[claimed[t]].status \in {"unknown", "reconciling"}
  BY <1>1, <1>4, <1>7, Zenon DEF InFlight
<1>13. \E k \in {"rejected", "ambiguous", "failed"}, id \in Envelope \cup {None} :
           Return(t, k, id)
  BY <1>1, <1>5, Zenon
<1>14. QED
  BY <1>5, <1>8, <1>9, <1>10, <1>11, <1>12, <1>13, Zenon DEF Leaves

LEMMA RefusedLeaves ==
    ASSUME IInv, NEW t \in Task, pc[t] = "wire", ~ recovery[t],
           EndSubmit(t, [records EXCEPT ![claimed[t]] = NoRecord], "rejected", TRUE),
           UNCHANGED <<floor, prepareVars, cursor, callVars, nodeVars, accepted>>
    PROVE  Leaves(t)
<1> DEFINE recs == [records EXCEPT ![claimed[t]] = NoRecord]
<1>1. claimed[t] \in Envelope /\ records \in [Envelope -> Record] /\ Claiming(t)
  BY Zenon DEF IInv, TypeOK, Phases, Submitting, Claiming
<1>2. recs \in [Envelope -> Record] /\ recs[claimed[t]].status = "none"
  BY <1>1, Zenon DEF Record, NoRecord
<1>3. \A e \in Envelope \ {claimed[t]} : recs[e] = records[e]
  BY <1>1, Zenon
<1> HIDE DEF recs
<1>4. /\ records' = IF via[t] = "batch" THEN Finished(t, recs) ELSE recs
      /\ active' = IF via[t] = "batch" THEN Released(t) ELSE active
      /\ asleep' = {}
      /\ Return(t, IF via[t] = "admit" THEN "failed" ELSE "rejected", claimed[t])
  BY Zenon DEF EndSubmit, recs
<1>5. \A e \in Envelope : Recorded(e)' => e # claimed[t] /\ records'[e] = records[e]
  BY <1>2, <1>3, <1>4, FinishedFacts DEF Recorded
<1>6. \A e \in Envelope : InFlight(e) /\ e # claimed[t] => records'[e] = records[e]
  BY <1>2, <1>3, <1>4, FinishedFacts DEF InFlight
<1>7. via[t] = "batch" =>
          \A e \in Envelope : Recorded(e)' /\ active[e.from] = t => InFlight(e)
  <2>1. ASSUME via[t] = "batch", NEW e \in Envelope, Recorded(e)', active[e.from] = t
        PROVE  InFlight(e)
    <3>1. Recorded(e) /\ recs[e] = records[e] /\ Finished(t, recs)[e].status # "none"
      BY <1>3, <1>4, <1>5, <2>1, Zenon DEF Recorded
    <3>2. records[e].op = t
      BY <2>1, <3>1, Zenon DEF IInv, Batches
    <3>3. QED
      BY <1>2, <3>1, <3>2, FinishedFacts, Zenon DEF InFlight
  <2>2. QED
    BY <2>1, Zenon
<1>8. records' \in [Envelope -> Record]
  BY <1>2, <1>4, FinishedFacts, Zenon DEF Finished, Record, NoRecord
<1>9. \A e \in Envelope : Recorded(e)' =>
          Recorded(e) /\ records'[e].op = records[e].op /\ (InFlight(e)' => InFlight(e))
  BY <1>5, Zenon DEF Recorded, InFlight
<1>10. claimed[t] \notin sent /\ \A u \in Task : via[u] = "admit" => claimed[u] # claimed[t]
  BY <1>1, Zenon DEF IInv, Claims, Recoveries
<1>11. \E k \in {"rejected", "ambiguous", "failed"}, id \in Envelope \cup {None} :
           Return(t, k, id)
  BY <1>1, <1>4, Zenon
<1>12. QED
  BY <1>1, <1>4, <1>6, <1>7, <1>8, <1>9, <1>10, <1>11, Zenon DEF Leaves

\* Claiming makes the envelope the one in flight of its sender: it is the first
\* entry left of the batch that holds the sender, or the only record.
LEMMA ClaimStep ==
    ASSUME IInv, NEW t \in Task, Claim(t)
    PROVE  IInv'
<1> DEFINE e == claimed[t]
<1> USE DEF Claim, At, GoTo, prepareVars, callVars, nodeVars
<1>1. /\ e \in Envelope /\ records \in [Envelope -> Record] /\ e.from \in Sender
      /\ pc[t] = "submit" /\ via[t] \in {"admit", "batch", "single"}
      /\ records[e].status \in {"prepared", "unknown"}
  BY ZenonT(30) DEF IInv, TypeOK, Phases, Submitting, Envelope
<1>2. /\ \A f \in Envelope \ {e} : records'[f] = records[f]
      /\ records'[e].status = "reconciling" /\ records'[e].op = records[e].op
  BY <1>1, Zenon DEF Record
<1>3. \A f \in Envelope : /\ Recorded(f)' <=> Recorded(f)
                          /\ records'[f].op = records[f].op
                          /\ f # e => (InFlight(f)' <=> InFlight(f))
  BY <1>1, <1>2, Zenon DEF Recorded, InFlight
<1>4. \A u \in Task \ {t} : pc'[u] = pc[u] /\ recovery'[u] = recovery[u]
  BY Zenon DEF IInv, TypeOK
<1>5. /\ pc'[t] = IF records[e].status = "unknown" THEN "lookup" ELSE "wire"
      /\ recovery'[t] <=> records[e].status = "unknown"
  BY Zenon DEF IInv, TypeOK
<1>6. TypeOK'
  <2>1. records' \in [Envelope -> Record]
    BY <1>1, Zenon DEF Record
  <2>2. recovery' \in [Task -> BOOLEAN]
    <3>1. recovery \in [Task -> BOOLEAN] /\ (records[e].status = "unknown") \in BOOLEAN
      BY Zenon DEF IInv, TypeOK
    <3>2. QED
      BY <3>1, Zenon
  <2>3. pc' \in [Task -> {"idle", "admit", "nonces", "build", "submit", "lookup", "wire",
                          "answer"}]
    BY Zenon DEF IInv, TypeOK
  <2>4. QED
    BY <2>1, <2>2, <2>3, Zenon DEF IInv, TypeOK
<1>7. Phases'
  <2>1. \A u \in Task : Submitting(u)' <=> Submitting(u)
    BY <1>1, <1>4, <1>5, Zenon DEF Submitting
  <2>2. \A u \in Task : pc'[u] = "lookup" => recovery'[u]
    BY <1>4, <1>5 DEF IInv, Phases
  <2>3. \A u \in Task : u \in asleep => pc'[u] \in {"admit", "submit"}
    BY <1>4, Zenon DEF IInv, Phases
  <2>4. QED
    BY <2>1, <2>2, <2>3 DEF IInv, Phases
<1>8. records[e].status = "prepared" => e \notin sent /\ ~ InFlight(e) /\ e \notin accepted
  <2>1. records[e].status = "prepared" => ~ InFlight(e) /\ Recorded(e)
    BY Zenon DEF InFlight, Recorded
  <2>2. Recorded(e) => e \notin accepted
    <3>1. e.nonce \in Int /\ floor[e.from] \in Int
      BY <1>1 DEF IInv, TypeOK, Envelope
    <3>2. QED
      BY <1>1, <3>1 DEF IInv, Floors
  <2>3. QED
    BY <2>1, <2>2, Zenon DEF IInv, OpenFateRetained
<1>9. Claims'
  <2>1. \A u \in Task \ {t} : Claiming(u) => claimed[u] # e
    BY <1>1, Zenon DEF IInv, Claims
  <2>2. \A u \in Task \ {t} : Claiming(u) =>
            records'[claimed[u]].status = "reconciling"
    BY <1>2, <2>1 DEF IInv, Claims, Phases, Submitting, Claiming
  <2>3. \A u \in Task \ {t} : Claiming(u)' => Claiming(u)
    BY <1>4, Zenon DEF Claiming
  <2>4. QED
    BY <1>2, <1>4, <1>5, <1>8, <2>1, <2>2, <2>3 DEF IInv, Claims
<1>10. Recoveries'
  <2>1. \A u \in Task : via[u] = "admit" =>
            claimed[u] \in Envelope /\ (claimed[u] \in accepted \/ InFlight(claimed[u]))
    BY Zenon DEF IInv, Recoveries, Phases
  <2>2. \A u \in Task : via[u] = "admit" =>
            claimed[u] \in accepted \/ InFlight(claimed[u])'
    BY <1>2, <2>1, ZenonT(30) DEF InFlight
  <2>3. (\E u \in Task : via[u] = "admit" /\ claimed[u] = e) => recovery'[t]
    BY <1>1, <1>5, <1>8, <2>1, Zenon
  <2>4. \A w \in Task \ {t} : Claiming(w)' => Claiming(w) /\ recovery'[w] = recovery[w]
    BY <1>4, Zenon DEF Claiming
  <2>5. QED
    BY <2>2, <2>3, <2>4, Zenon DEF IInv, Recoveries
<1>11. Floors' /\ Retained'
  BY <1>3, Zenon DEF IInv, Floors, Retained
<1>12. ASSUME NEW f \in Envelope, Recorded(f), f.from = e.from
       PROVE  f = e \/ e.nonce < f.nonce
  <2>1. CASE records[e].status = "unknown"
    BY <1>1, <1>12, <2>1, Zenon DEF IInv, OldestFirst, InFlight
  <2>2. CASE records[e].status = "prepared" /\ via[t] = "batch"
    <3>1. e = entries[t][cursor[t] + 1] /\ cursor[t] < Len(entries[t])
      BY <2>2, Zenon DEF IInv, Batches
    <3>2. cursor[t] \in Nat /\ Len(entries[t]) \in Nat
      BY DEF IInv, TypeOK
    <3>3. active[e.from] = t
      <4>1. cursor[t] + 1 \in 1 .. Len(entries[t])
        BY <3>1, <3>2
      <4>2. e.from \in Senders(job[t].items)
        BY <2>2, <3>1, <4>1, Zenon DEF IInv, Batches
      <4>3. QED
        BY <1>1, <2>2, <4>2, ZenonT(30) DEF IInv, Holders, Holding
    <3>4. PICK i \in 1 .. Len(entries[t]) : cursor[t] < i /\ f = entries[t][i]
      BY <1>12, <2>2, <3>3 DEF IInv, Batches
    <3>5. CASE i = cursor[t] + 1
      BY <3>1, <3>4, <3>5, ZenonT(30)
    <3>6. CASE cursor[t] + 1 < i
      BY <1>12, <2>2, <3>1, <3>2, <3>4, <3>6, SMTT(30) DEF IInv, Batches
    <3>7. QED
      BY <3>2, <3>4, <3>5, <3>6
  <2>3. CASE records[e].status = "prepared" /\ via[t] = "single"
    <3>1. e.payment = t
      BY <2>3, Zenon DEF IInv, Phases
    <3>2. active[e.from] # t
      BY <1>1, <2>3, Zenon DEF IInv, Holders, Holding
    <3>3. ASSUME NEW u \in Task, active[e.from] = u PROVE FALSE
      <4>1. Holding(u) /\ e.from \in Senders(job[u].items)
        BY <1>1, <3>3, Zenon DEF IInv, Holders
      <4>2. via[u] = "batch"
        BY <1>1, <4>1, Zenon DEF IInv, Fresh, Holding, Recorded
      <4>3. e.payment = u
        BY <1>1, <3>3, <4>2 DEF IInv, Batches, Recorded
      <4>4. QED
        BY <3>1, <3>2, <3>3, <4>3, Zenon
    <3>4. active[e.from] = None
      BY <1>1, <3>3, Zenon DEF IInv, TypeOK
    <3>5. QED
      BY <1>1, <1>12, <3>4, Zenon DEF IInv, Retained, Recorded
  <2>4. CASE records[e].status = "prepared" /\ via[t] = "admit"
    BY <1>8, <2>4, Zenon DEF IInv, Recoveries
  <2>5. QED
    BY <1>1, <2>1, <2>2, <2>3, <2>4, Zenon
<1>13. OldestFirst'
  <2>1. \A f \in Envelope : Recorded(f) /\ f.from = e.from => f = e \/ e.nonce < f.nonce
    BY <1>12, Zenon
  <2>2. QED
    BY <1>3, <2>1, Zenon DEF IInv, OldestFirst
<1>14. Holders'
  <2>1. \A u \in Task : Holding(u)' <=> Holding(u)
    BY <1>1, <1>4, <1>5 DEF Holding
  <2>2. QED
    BY <2>1, Zenon DEF IInv, Holders
<1>15. Fresh'
  <2>1. \A u \in Task : pc'[u] \in {"nonces", "build"} => pc'[u] = pc[u]
    BY <1>4, <1>5
  <2>2. QED
    BY <1>3, <2>1, ZenonT(30) DEF IInv, Fresh
<1>16. Batches'
  BY <1>3 DEF IInv, Batches
<1>17. OpenFateRetained'
  BY <1>1, <1>2, <1>3, Zenon DEF IInv, TypeOK, OpenFateRetained, InFlight
<1>18. QED
  BY <1>6, <1>7, <1>9, <1>10, <1>11, <1>13, <1>14, <1>15, <1>16, <1>17, Zenon DEF IInv

\* Acceptance raises the floor over the lowest record of the sender, and the
\* batch goes on with its next entry or gives its senders back.
LEMMA AcceptStep ==
    ASSUME IInv, NEW t \in Task, Claiming(t), claimed[t] \in pool, Accept(t)
    PROVE  IInv'
<1> DEFINE e == claimed[t]
           more == via[t] = "batch" /\ cursor[t] + 1 < Len(entries[t])
<1>1. /\ e \in Envelope /\ records \in [Envelope -> Record] /\ InFlight(e) /\ Recorded(e)
      /\ e.from \in Sender /\ e.nonce \in Nat /\ floor \in [Sender -> Nat]
      /\ via[t] \in {"admit", "batch", "single"}
  BY DEF IInv, TypeOK, Phases, Submitting, Claiming, Claims, InFlight, Recorded, Envelope
<1>2. /\ records' = [records EXCEPT ![e] = NoRecord]
      /\ floor' = [floor EXCEPT ![e.from] = Raised(e.from, e.nonce)]
      /\ accepted' = accepted \cup {e}
      /\ asleep' = {}
      /\ cursor' = [cursor EXCEPT ![t] = IF via[t] = "batch" THEN @ + 1 ELSE @]
      /\ active' = IF via[t] = "batch" /\ ~ more THEN Released(t) ELSE active
      /\ signed' = [signed EXCEPT ![t] = IF @ = e THEN None ELSE @]
      /\ UNCHANGED <<prepareVars, job, calls, nodeVars>>
  BY Zenon DEF Accept
<1>3. /\ pc' = [pc EXCEPT ![t] = IF more THEN "submit"
                                 ELSE IF via[t] = "admit" THEN "admit" ELSE "idle"]
      /\ via' = [via EXCEPT ![t] = IF more THEN "batch" ELSE "none"]
      /\ claimed' = [claimed EXCEPT ![t] = IF more THEN entries[t][cursor[t] + 2] ELSE None]
      /\ recovery' = [recovery EXCEPT ![t] = FALSE]
      /\ result' = IF via[t] = "admit" \/ more THEN result
                   ELSE [result EXCEPT ![t] = [kind |-> "ok", id |-> e]]
  BY Zenon DEF Accept, Return, GoTo, IInv, TypeOK
<1>4. \A u \in Task \ {t} : /\ pc'[u] = pc[u] /\ via'[u] = via[u]
                            /\ claimed'[u] = claimed[u] /\ recovery'[u] = recovery[u]
                            /\ cursor'[u] = cursor[u] /\ signed'[u] = signed[u]
  BY <1>2, <1>3, Zenon DEF IInv, TypeOK
<1>5. /\ pc'[t] = IF more THEN "submit" ELSE IF via[t] = "admit" THEN "admit" ELSE "idle"
      /\ via'[t] = IF more THEN "batch" ELSE "none"
      /\ claimed'[t] = IF more THEN entries[t][cursor[t] + 2] ELSE None
      /\ cursor'[t] = IF via[t] = "batch" THEN cursor[t] + 1 ELSE cursor[t]
      /\ signed'[t] \in {signed[t], None}
  BY <1>2, <1>3, Zenon DEF IInv, TypeOK
<1>6. /\ \A f \in Envelope \ {e} : records'[f] = records[f]
      /\ records'[e].status = "none"
  BY <1>1, <1>2, Zenon DEF NoRecord
<1>7. \A f \in Envelope : /\ Recorded(f)' => f # e /\ Recorded(f) /\ records'[f] = records[f]
                          /\ InFlight(f)' => InFlight(f)
                          /\ f # e /\ InFlight(f) => InFlight(f)'
  BY <1>6, ZenonT(30) DEF Recorded, InFlight
<1>8. /\ floor' \in [Sender -> Nat]
      /\ floor[e.from] <= floor'[e.from] /\ e.nonce < floor'[e.from]
      /\ floor'[e.from] = floor[e.from] \/ floor'[e.from] = e.nonce + 1
      /\ \A s \in Sender \ {e.from} : floor'[s] = floor[s]
  BY <1>1, <1>2 DEF Raised
<1>9. /\ entries[t] \in Seq(Envelope) /\ cursor[t] \in Nat
      /\ more => entries[t][cursor[t] + 2] \in Envelope
  BY DEF IInv, TypeOK
<1>10. \A s \in Sender :
           active'[s] = IF active[s] = t /\ ~ more THEN None ELSE active[s]
  <2>1. \A s \in Sender : active[s] = t => via[t] = "batch"
    BY Zenon DEF IInv, Holders, Holding, Claiming
  <2>2. QED
    BY <1>2, <2>1, Zenon DEF Released, IInv, TypeOK
<1> HIDE DEF more
<1>11. TypeOK'
  <2>1. records' \in [Envelope -> Record]
    BY <1>1, <1>2, Zenon DEF Record, NoRecord
  <2>2. active' \in [Sender -> Task \cup {None}]
    BY <1>2, Zenon DEF Released, IInv, TypeOK
  <2>3. result' \in [Task -> [kind : {"none", "prepared", "ok", "rejected", "ambiguous", "failed"},
                              id : Envelope \cup {None}]]
    BY <1>1, <1>3, Zenon DEF IInv, TypeOK
  <2>4. accepted' \subseteq sent /\ pool' \subseteq sent' /\ sent' = sent
    BY <1>2, Zenon DEF IInv, TypeOK, nodeVars
  <2>5. cursor' \in [Task -> Nat] /\ signed' \in [Task -> Envelope \cup {None}]
    BY <1>2 DEF IInv, TypeOK
  <2>6. /\ claimed' \in [Task -> Envelope \cup {None}]
        /\ recovery' \in [Task -> BOOLEAN]
        /\ via' \in [Task -> {"none", "admit", "batch", "single"}]
    BY <1>3, <1>9, Zenon DEF IInv, TypeOK
  <2>7. pc' \in [Task -> {"idle", "admit", "nonces", "build", "submit", "lookup", "wire",
                          "answer"}]
    BY <1>3, ZenonT(30) DEF IInv, TypeOK
  <2>8. QED
    BY <1>2, <1>8, <2>1, <2>2, <2>3, <2>4, <2>5, <2>6, <2>7, Zenon
    DEF IInv, TypeOK, prepareVars, nodeVars
<1>12. Phases'
  <2>1. /\ via'[t] # "none" <=> Submitting(t)'
        /\ Submitting(t)' => claimed'[t] \in Envelope
        /\ pc'[t] # "lookup" /\ via'[t] \notin {"single", "admit"}
        /\ pc'[t] \in {"admit", "nonces", "build"} => cursor'[t] = 0
    BY <1>5, <1>9, Zenon DEF IInv, Phases, Submitting, more
  <2>2. signed'[t] # None => signed'[t].payment = t
    BY <1>5, Zenon DEF IInv, Phases
  <2>3. \A u \in Task : u \notin asleep'
    BY <1>2, Zenon
  <2>4. \A u \in Task \ {t} : Submitting(u)' <=> Submitting(u)
    BY <1>4, Zenon DEF Submitting
  <2>5. QED
    BY <1>4, <2>1, <2>2, <2>3, <2>4 DEF IInv, Phases
<1>13. Claims'
  <2>1. \A u \in Task : Claiming(u)' => u # t /\ Claiming(u)
    BY <1>4, <1>5, Zenon DEF Claiming
  <2>2. \A u \in Task \ {t} : Claiming(u) =>
            claimed[u] \in Envelope /\ claimed[u] # e
            /\ records'[claimed[u]].status = "reconciling"
    BY <1>6 DEF IInv, Claims, Phases, Submitting, Claiming
  <2>3. \A u \in Task : Claiming(u)' => claimed'[u] = claimed[u]
    BY <1>4, <2>1, Zenon
  <2>4. \A u \in Task : pc'[u] = "wire" /\ ~ recovery'[u] => claimed'[u] \notin sent'
    <3>1. sent' = sent
      BY <1>2, Zenon DEF nodeVars
    <3>2. QED
      BY <1>4, <1>5, <3>1, Zenon DEF IInv, Claims
  <2>5. QED
    BY <2>1, <2>2, <2>3, <2>4, Zenon DEF IInv, Claims
<1>14. Recoveries'
  <2>1. \A u \in Task : via'[u] = "admit" =>
            u # t /\ via[u] = "admit" /\ claimed'[u] = claimed[u] /\ claimed[u] \in Envelope
    BY <1>4, <1>5, Zenon DEF IInv, Phases
  <2>2. \A w \in Task : Claiming(w)' =>
            Claiming(w) /\ claimed'[w] = claimed[w] /\ recovery'[w] = recovery[w]
    BY <1>4, <1>5, Zenon DEF Claiming
  <2>3. ASSUME NEW u \in Task, via'[u] = "admit"
        PROVE  claimed'[u] \in accepted' \/ InFlight(claimed[u])'
    <3>1. CASE claimed[u] = e
      BY <1>2, <2>1, <2>3, <3>1, ZenonT(30)
    <3>2. CASE claimed[u] # e
      BY <1>2, <1>6, <2>1, <2>3, <3>2 DEF IInv, Recoveries, InFlight
    <3>3. QED
      BY <3>1, <3>2, Zenon
  <2>4. ASSUME NEW u \in Task, via'[u] = "admit", NEW w \in Task, Claiming(w)',
               claimed'[w] = claimed'[u]
        PROVE  recovery'[w]
    BY <2>1, <2>2, <2>4, Zenon DEF IInv, Recoveries
  <2>5. QED
    BY <2>3, <2>4, Zenon DEF Recoveries
<1>15. Floors'
  <2>1. \A f \in Envelope : f.from \in Sender /\ f.nonce \in Nat
    BY DEF Envelope
  <2>2. accepted \subseteq Envelope
    BY Zenon DEF IInv, TypeOK
  <2>3. \A f \in accepted' : f.nonce < floor'[f.from]
    <3>1. ASSUME NEW f \in accepted PROVE f.nonce < floor'[f.from]
      <4>1. f.nonce < floor[f.from] /\ f.from \in Sender /\ f.nonce \in Nat
        BY <2>1, <2>2, Zenon DEF IInv, Floors
      <4>2. floor[f.from] <= floor'[f.from]
        BY <1>1, <1>8, <4>1, SMTT(30)
      <4>3. QED
        BY <1>1, <1>8, <4>1, <4>2
    <3>2. QED
      BY <1>2, <1>8, <3>1, Zenon
  <2>4. ASSUME NEW f \in Envelope, Recorded(f)' PROVE floor'[f.from] <= f.nonce
    BY <1>1, <1>7, <1>8, <2>1, <2>4 DEF IInv, Floors, OldestFirst
  <2>5. QED
    BY <2>3, <2>4, Zenon DEF Floors
<1>16. OldestFirst'
  BY <1>7, Zenon DEF IInv, OldestFirst
<1>17. OpenFateRetained'
  BY <1>2, <1>7, Zenon DEF IInv, TypeOK, OpenFateRetained, nodeVars
<1>18. Retained'
  <2>1. ASSUME NEW f \in Envelope, Recorded(f)', active[f.from] = t, ~ more PROVE FALSE
    <3>1. via[t] = "batch"
      BY <2>1, Zenon DEF IInv, Holders, Holding, Claiming, Envelope
    <3>2. PICK i \in 1 .. Len(entries[t]) : cursor[t] < i /\ f = entries[t][i]
      BY <1>7, <2>1, <3>1, ZenonT(30) DEF IInv, Batches
    <3>3. i = cursor[t] + 1
      BY <1>9, <2>1, <3>1, <3>2, SMTT(30) DEF more
    <3>4. QED
      BY <1>7, <2>1, <3>1, <3>2, <3>3, Zenon DEF IInv, Batches
  <2>2. QED
    BY <1>7, <1>10, <2>1, Zenon DEF IInv, Retained, Envelope
<1>19. Holders'
  <2>1. /\ Holding(t)' <=> Holding(t) /\ more
        /\ \A u \in Task \ {t} : Holding(u)' <=> Holding(u)
    BY <1>4, <1>5, Zenon DEF Holding, Claiming, more
  <2>2. QED
    BY <1>2, <1>10, <2>1, TaskSenderAssumption DEF IInv, Holders
<1>20. Fresh'
  <2>1. \A u \in Task : pc'[u] \in {"nonces", "build"} => pc'[u] = pc[u]
    BY <1>4, <1>5, Zenon
  <2>2. \A u \in Task : \A s \in Senders(job[u].items) :
            pc[u] \in {"nonces", "build"} => s # e.from
    BY <1>1, Zenon DEF IInv, Fresh
  <2>3. \A u \in Task : Senders(job[u].items) \subseteq Sender
    BY JobFacts, Zenon DEF IInv, TypeOK
  <2>4. job' = job /\ unread' = unread /\ start' = start
    BY <1>2, Zenon DEF prepareVars
  <2>5. \A u \in Task : \A s \in Senders(job[u].items) :
            pc[u] \in {"nonces", "build"} => floor'[s] = floor[s]
    BY <1>8, <2>2, <2>3, ZenonT(30)
  <2>6. QED
    BY <1>7, <2>1, <2>4, <2>5, ZenonT(30) DEF IInv, Fresh
<1>21. Batches'
  <2>1. ASSUME NEW u \in Task, NEW f \in Envelope, via'[u] = "batch", Recorded(f)',
               active'[f.from] = u
        PROVE  /\ via[u] = "batch" /\ records'[f].op = u
               /\ \E i \in 1 .. Len(entries[u]) : cursor'[u] < i /\ f = entries[u][i]
    <3>1. via[u] = "batch" /\ active[f.from] = u /\ Recorded(f) /\ f # e
          /\ records'[f] = records[f]
      BY <1>4, <1>5, <1>7, <1>10, <2>1, TaskSenderAssumption, Zenon DEF Envelope, more
    <3>2. PICK i \in 1 .. Len(entries[u]) : cursor[u] < i /\ f = entries[u][i]
      BY <3>1, Zenon DEF IInv, Batches
    <3>3. u = t => i # cursor[t] + 1
      <4>1. u = t => e = entries[t][cursor[t] + 1]
        BY <3>1, ZenonT(30) DEF IInv, Batches
      <4>2. QED
        BY <3>1, <3>2, <4>1, Zenon
    <3>4. cursor'[u] < i
      BY <1>4, <1>5, <1>9, <3>1, <3>2, <3>3
    <3>5. records[f].op = u
      BY <3>1, Zenon DEF IInv, Batches
    <3>6. QED
      BY <3>1, <3>2, <3>4, <3>5, Zenon
  <2>2. ASSUME NEW u \in Task, via'[u] = "batch"
        PROVE  /\ via[u] = "batch" /\ cursor'[u] < Len(entries[u])
               /\ claimed'[u] = entries[u][cursor'[u] + 1]
    <3>1. CASE u = t
      <4>1. cursor[t] + 1 + 1 = cursor[t] + 2
        BY <1>9
      <4>2. QED
        BY <1>5, <1>9, <2>2, <3>1, <4>1, Zenon DEF more
    <3>2. CASE u # t
      BY <1>4, <2>2, <3>2, Zenon DEF IInv, Batches
    <3>3. QED
      BY <3>1, <3>2, Zenon
  <2>3. job' = job /\ entries' = entries
    BY <1>2, Zenon DEF prepareVars
  <2>4. QED
    BY <2>1, <2>2, <2>3, SMTT(30) DEF IInv, Batches
<1>22. QED
  BY <1>11, <1>12, <1>13, <1>14, <1>15, <1>16, <1>17, <1>18, <1>19, <1>20, <1>21, ZenonT(30) DEF IInv
=============================================================================
