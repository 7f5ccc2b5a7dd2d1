--------------------- MODULE EthereumCoordinatorProofs ----------------------
(***************************************************************************)
(* Proofs about the Ethereum coordinator: that IInv is invariant and with  *)
(* it the safety properties, that the coordinator implements the ledger of *)
(* NonceLedger, that no wakeup is lost, that batches go out in order and   *)
(* that what is reported rejected never left.  OInv adds to IInv what the  *)
(* order of a batch and a rejection need.                                  *)
(***************************************************************************)
EXTENDS EthereumCoordinatorInv

-----------------------------------------------------------------------------
(* The envelopes of a call.                                                *)

\* How many items of the sender of item i come before it.
Earlier(items, i) == {k \in 1 .. i - 1 : items[k] = items[i]}

LEMMA EarlierFacts ==
    ASSUME NEW j \in Job, NEW i \in 1 .. Len(j.items)
    PROVE  /\ IsFiniteSet(Earlier(j.items, i)) /\ Cardinality(Earlier(j.items, i)) \in Nat
           /\ Cardinality(Earlier(j.items, i) \cup {i}) = Cardinality(Earlier(j.items, i)) + 1
<1>1. IsFiniteSet(1 .. i - 1)
  BY FS_Interval, JobFacts
<1>2. IsFiniteSet(Earlier(j.items, i))
  BY <1>1, FS_Subset, Zenon DEF Earlier
<1>3. i \notin Earlier(j.items, i)
  BY JobFacts DEF Earlier
<1>4. QED
  BY <1>2, <1>3, FS_AddElement, FS_CardinalityType, Zenon

LEMMA OccurrencesFacts ==
    ASSUME NEW j \in Job, NEW s
    PROVE  /\ IsFiniteSet({k \in DOMAIN j.items : j.items[k] = s})
           /\ Occurrences(j.items, s) \in Nat
<1> DEFINE all == {k \in DOMAIN j.items : j.items[k] = s}
<1>1. DOMAIN j.items = 1 .. Len(j.items) /\ Len(j.items) \in Int
  BY JobFacts, MaxTransfersAssumption
<1>2. IsFiniteSet(1 .. Len(j.items))
  BY <1>1, FS_Interval
<1>3. all \in SUBSET (1 .. Len(j.items))
  BY <1>1, Zenon
<1> HIDE DEF all
<1>4. IsFiniteSet(all)
  BY <1>2, <1>3, FS_Subset, Zenon
<1>5. QED
  BY <1>4, FS_CardinalityType, Zenon DEF Occurrences, all

\* A sender's items take as many nonces as there are of them.
LEMMA EarlierBound ==
    ASSUME NEW j \in Job, NEW i \in 1 .. Len(j.items)
    PROVE  Cardinality(Earlier(j.items, i)) + 1 <= Occurrences(j.items, j.items[i])
<1> DEFINE all == {k \in DOMAIN j.items : j.items[k] = j.items[i]}
<1>1. DOMAIN j.items = 1 .. Len(j.items) /\ Len(j.items) \in Nat
  BY JobFacts
<1>2. IsFiniteSet(all)
  BY OccurrencesFacts, Zenon
<1>3. Earlier(j.items, i) \cup {i} \subseteq all
  BY <1>1 DEF Earlier
<1>4. Cardinality(Earlier(j.items, i) \cup {i}) <= Cardinality(all)
  BY <1>2, <1>3, FS_Subset, Zenon
<1>5. QED
  BY <1>4, EarlierFacts, Zenon DEF Occurrences

\* Consecutive items of a sender take increasing nonces.
LEMMA EarlierIncreases ==
    ASSUME NEW j \in Job, NEW i \in 1 .. Len(j.items), NEW k \in 1 .. Len(j.items),
           i < k, j.items[i] = j.items[k]
    PROVE  Cardinality(Earlier(j.items, i)) < Cardinality(Earlier(j.items, k))
<1>1. Earlier(j.items, i) \cup {i} \subseteq Earlier(j.items, k)
  BY JobFacts DEF Earlier
<1>2. Cardinality(Earlier(j.items, i) \cup {i}) <= Cardinality(Earlier(j.items, k))
  BY <1>1, EarlierFacts, FS_Subset, Zenon
<1>3. /\ Cardinality(Earlier(j.items, i)) \in Nat /\ Cardinality(Earlier(j.items, k)) \in Nat
      /\ Cardinality(Earlier(j.items, i) \cup {i}) = Cardinality(Earlier(j.items, i)) + 1
  BY EarlierFacts, Zenon
<1>4. QED
  BY <1>2, <1>3

\* What a call registers: envelopes of its own, above the floor, in the order
\* of their nonces, for senders that it holds and that have no records.
LEMMA EntriesFacts ==
    ASSUME IInv, NEW t \in Task, pc[t] = "build"
    PROVE  /\ Entries(t) \in Seq(Envelope) /\ Len(Entries(t)) = Len(job[t].items)
           /\ Len(Entries(t)) \in Nat \ {0}
           /\ \A i \in 1 .. Len(Entries(t)) :
                  /\ Entries(t)[i] \in Envelope
                  /\ Entries(t)[i].payment = t
                  /\ Entries(t)[i].from \in Senders(job[t].items)
                  /\ floor[Entries(t)[i].from] <= Entries(t)[i].nonce
                  /\ \A k \in 1 .. Len(Entries(t)) :
                         i < k /\ Entries(t)[i].from = Entries(t)[k].from =>
                             Entries(t)[i].nonce < Entries(t)[k].nonce
           /\ EntrySet(t) = {Entries(t)[i] : i \in 1 .. Len(Entries(t))}
           /\ \A f \in EntrySet(t) :
                  /\ f \in Envelope /\ ~ Recorded(f) /\ f.from \in Senders(job[t].items)
                  /\ active[f.from] = t /\ floor[f.from] <= f.nonce
<1> DEFINE items == job[t].items
           n == Len(items)
<1>1. job[t] \in Job
  BY Zenon DEF IInv, TypeOK
<1>2. /\ items \in Seq(Sender) /\ n \in 1 .. MaxTransfers /\ DOMAIN items = 1 .. n
      /\ Senders(items) \subseteq Sender
  BY <1>1, JobFacts, Zenon
<1>3. \A i \in 1 .. n : items[i] \in Senders(items)
  BY <1>2, ZenonT(30) DEF Senders
<1>4. ASSUME NEW i \in 1 .. n
      PROVE  /\ Assigned(t, i) = start[t][items[i]] + Cardinality(Earlier(items, i))
             /\ Assigned(t, i) \in 0 .. MaxNonce /\ floor[items[i]] <= Assigned(t, i)
  <2>1. Assigned(t, i) = start[t][items[i]] + Cardinality(Earlier(items, i))
    BY Zenon DEF Assigned, Earlier
  <2>2. /\ floor[items[i]] <= start[t][items[i]]
        /\ start[t][items[i]] + Occurrences(items, items[i]) <= MaxNonce
    BY <1>3, Zenon DEF IInv, Fresh
  <2>3. start[t][items[i]] \in Nat /\ floor[items[i]] \in Nat
    BY <1>2, <1>3, SMTT(30) DEF IInv, TypeOK
  <2>4. /\ Cardinality(Earlier(items, i)) \in Nat
        /\ Cardinality(Earlier(items, i)) + 1 <= Occurrences(items, items[i])
    BY <1>1, EarlierFacts, EarlierBound, Zenon
  <2>5. Occurrences(items, items[i]) \in Nat
    BY <1>1, OccurrencesFacts, Zenon
  <2>6. QED
    BY <2>1, <2>2, <2>3, <2>4, <2>5, MaxNonceAssumption, SMTT(30)
<1>5. ASSUME NEW i \in 1 .. n, NEW k \in 1 .. n, i < k, items[i] = items[k]
      PROVE  Assigned(t, i) < Assigned(t, k)
  <2>1. Cardinality(Earlier(items, i)) < Cardinality(Earlier(items, k))
    BY <1>1, <1>5, EarlierIncreases, Zenon
  <2>2. /\ Cardinality(Earlier(items, i)) \in Nat /\ Cardinality(Earlier(items, k)) \in Nat
        /\ start[t][items[i]] \in Nat
    BY <1>1, <1>2, <1>3, EarlierFacts, ZenonT(30) DEF IInv, TypeOK
  <2>3. /\ Assigned(t, i) = start[t][items[i]] + Cardinality(Earlier(items, i))
        /\ Assigned(t, k) = start[t][items[i]] + Cardinality(Earlier(items, k))
    BY <1>5, Zenon DEF Assigned, Earlier
  <2>4. QED
    BY <2>1, <2>2, <2>3
<1>6. ASSUME NEW i \in 1 .. n
      PROVE  /\ Entries(t)[i] = [from |-> items[i], nonce |-> Assigned(t, i), payment |-> t,
                                 item |-> i]
             /\ Entries(t)[i] \in Envelope
  BY <1>2, <1>3, <1>4, MaxTransfersAssumption DEF Entries, Envelope
<1>7. Entries(t) \in Seq(Envelope) /\ Len(Entries(t)) = n /\ DOMAIN Entries(t) = 1 .. n
  <2>1. Entries(t) = [i \in 1 .. n |-> Entries(t)[i]]
    BY <1>2, Zenon DEF Entries
  <2>2. Entries(t) \in [1 .. n -> Envelope]
    BY <1>6, <2>1, Zenon
  <2>3. n \in Nat
    BY <1>2, MaxTransfersAssumption
  <2>4. QED
    BY <2>2, <2>3
<1>8. EntrySet(t) = {Entries(t)[i] : i \in 1 .. n}
  BY <1>2, Zenon DEF EntrySet
<1>9. \A i \in 1 .. n :
          /\ Entries(t)[i].payment = t
          /\ Entries(t)[i].from = items[i] /\ Entries(t)[i].nonce = Assigned(t, i)
  <2>1. ASSUME NEW i \in 1 .. n
        PROVE  /\ Entries(t)[i].payment = t
               /\ Entries(t)[i].from = items[i] /\ Entries(t)[i].nonce = Assigned(t, i)
    BY <1>2, Zenon DEF Entries
  <2>2. QED
    BY <2>1, Zenon
<1>10. \A s \in Senders(items) :
           active[s] = t /\ \A f \in Envelope : Recorded(f) => f.from # s
  BY <1>2, Zenon DEF IInv, Holders, Fresh, Holding
<1> HIDE DEF items, n
<1>11. \A f \in EntrySet(t) :
           /\ f \in Envelope /\ ~ Recorded(f) /\ f.from \in Senders(items)
           /\ active[f.from] = t /\ floor[f.from] <= f.nonce
  <2>1. ASSUME NEW i \in 1 .. n
        PROVE  LET f == Entries(t)[i]
               IN  /\ f \in Envelope /\ ~ Recorded(f) /\ f.from \in Senders(items)
                   /\ active[f.from] = t /\ floor[f.from] <= f.nonce
    <3>1. Entries(t)[i] \in Envelope /\ Entries(t)[i].from = items[i]
          /\ Entries(t)[i].nonce = Assigned(t, i)
      BY <1>6, <1>9, Zenon
    <3>2. items[i] \in Senders(items) /\ floor[items[i]] <= Assigned(t, i)
      BY <1>3, <1>4, Zenon
    <3>3. QED
      BY <1>10, <3>1, <3>2, Zenon
  <2>2. QED
    BY <1>8, <2>1, Zenon
<1>12. \A i \in 1 .. n :
           /\ Entries(t)[i].from \in Senders(items)
           /\ floor[Entries(t)[i].from] <= Entries(t)[i].nonce
           /\ \A k \in 1 .. n :
                  i < k /\ Entries(t)[i].from = Entries(t)[k].from =>
                      Entries(t)[i].nonce < Entries(t)[k].nonce
  BY <1>3, <1>4, <1>5, <1>9, Zenon
<1>13. n \in Nat \ {0}
  BY <1>2, MaxTransfersAssumption, SMTT(30)
<1>14. QED
  BY <1>6, <1>7, <1>8, <1>9, <1>11, <1>12, <1>13, Zenon DEF items, n

\* What registration keeps, for a batch and for a single envelope.
LEMMA RegisteredFacts ==
    ASSUME IInv, NEW t \in Task, pc[t] = "build", NEW op \in Task \cup {None},
           records' = Registered(t, op)
    PROVE  /\ records' \in [Envelope -> Record]
           /\ \A f \in Envelope :
                  /\ f \in EntrySet(t) => records'[f] = [status |-> "prepared", op |-> op]
                  /\ f \notin EntrySet(t) => records'[f] = records[f]
                  /\ InFlight(f) => records'[f] = records[f]
                  /\ InFlight(f)' => InFlight(f) /\ f \notin EntrySet(t)
                  /\ Recorded(f)' => Recorded(f) \/ f \in EntrySet(t)
<1>1. \A f \in Envelope :
          records'[f] = IF f \in EntrySet(t) THEN [status |-> "prepared", op |-> op]
                        ELSE records[f]
  BY Zenon DEF Registered
<1>2. \A f \in EntrySet(t) : ~ InFlight(f)
  BY EntriesFacts, Zenon DEF Recorded, InFlight
<1>3. records' \in [Envelope -> Record]
  BY ZenonT(30) DEF Registered, Record, IInv, TypeOK
<1>4. QED
  BY <1>1, <1>2, <1>3 DEF Recorded, InFlight

\* The envelopes of a batch are registered together, for senders it holds.
LEMMA RegisterStep ==
    ASSUME IInv, NEW t \in Task, Register(t)
    PROVE  IInv'
<1> USE DEF Register, At, GoTo, callVars, nodeVars
<1>1. pc[t] = "build" /\ records' = Registered(t, t)
  BY Zenon
<1>2. /\ records' \in [Envelope -> Record]
      /\ \A f \in Envelope :
             /\ f \in EntrySet(t) => records'[f] = [status |-> "prepared", op |-> t]
             /\ f \notin EntrySet(t) => records'[f] = records[f]
             /\ InFlight(f) => records'[f] = records[f]
             /\ InFlight(f)' => InFlight(f) /\ f \notin EntrySet(t)
             /\ Recorded(f)' => Recorded(f) \/ f \in EntrySet(t)
  BY <1>1, RegisteredFacts, Zenon
<1>3. \A u \in Task \ {t} : /\ pc'[u] = pc[u] /\ via'[u] = via[u]
                            /\ claimed'[u] = claimed[u] /\ entries'[u] = entries[u]
  BY Zenon DEF IInv, TypeOK
<1>4. /\ pc'[t] = "submit" /\ via'[t] = "batch" /\ via[t] = "none"
      /\ entries'[t] = Entries(t) /\ claimed'[t] = Entries(t)[1] /\ cursor[t] = 0
  BY ZenonT(30) DEF IInv, TypeOK, Phases, Submitting
<1>5. Entries(t)[1] \in Envelope /\ Entries(t) \in Seq(Envelope)
  BY <1>1, EntriesFacts
<1>6. TypeOK'
  BY <1>2, <1>5, ZenonT(30) DEF IInv, TypeOK
<1>7. Phases'
  BY <1>3, <1>4, <1>5 DEF IInv, Phases, Submitting
<1>8. \A u \in Task : Claiming(u)' => u # t /\ Claiming(u) /\ claimed'[u] = claimed[u]
  BY <1>3, <1>4, ZenonT(30) DEF Claiming
<1>9. Claims'
  <2>1. \A u \in Task : Claiming(u) => claimed[u] \in Envelope /\ InFlight(claimed[u])
    BY Zenon DEF IInv, Claims, Claiming, Phases, Submitting, InFlight
  <2>2. QED
    BY <1>2, <1>3, <1>4, <1>8, <2>1 DEF IInv, Claims
<1>10. Recoveries'
  <2>1. \A u \in Task : via'[u] = "admit" =>
            via[u] = "admit" /\ claimed'[u] = claimed[u] /\ claimed[u] \in Envelope
    BY <1>3, <1>4, ZenonT(30) DEF IInv, Phases
  <2>2. ASSUME NEW u \in Task, via'[u] = "admit"
        PROVE  claimed'[u] \in accepted' \/ InFlight(claimed[u])'
    BY <1>2, <2>1, <2>2 DEF IInv, Recoveries, InFlight
  <2>3. ASSUME NEW u \in Task, via'[u] = "admit", NEW w \in Task, Claiming(w)',
               claimed'[w] = claimed'[u]
        PROVE  recovery'[w]
    BY <1>8, <2>1, <2>3, ZenonT(30) DEF IInv, Recoveries
  <2>4. QED
    BY <2>2, <2>3, Zenon DEF Recoveries
<1>11. \A f \in EntrySet(t) :
           /\ f \in Envelope /\ ~ Recorded(f) /\ f.from \in Senders(job[t].items)
           /\ active[f.from] = t /\ floor[f.from] <= f.nonce
  BY <1>1, EntriesFacts, Zenon
<1>12. \A f \in Envelope : Recorded(f) => f.from \notin Senders(job[t].items)
  BY <1>1, Zenon DEF IInv, Fresh
<1>13. Floors'
  BY <1>2, <1>11, Zenon DEF IInv, Floors
<1>14. OldestFirst'
  <2>1. \A f \in Envelope : InFlight(f) => Recorded(f)
    BY Zenon DEF InFlight, Recorded
  <2>2. QED
    BY <1>2, <1>11, <1>12, <2>1, Zenon DEF IInv, OldestFirst
<1>15. Retained'
  BY <1>2, <1>11, TaskSenderAssumption DEF IInv, Retained
<1>16. OpenFateRetained'
  BY <1>2, Zenon DEF IInv, TypeOK, OpenFateRetained, InFlight
<1>17. Holders'
  <2>1. \A u \in Task : Holding(u)' <=> Holding(u)
    BY <1>1, <1>3, <1>4, Zenon DEF Holding
  <2>2. QED
    BY <2>1, Zenon DEF IInv, Holders
<1>18. Fresh'
  <2>1. \A u \in Task : pc'[u] \in {"nonces", "build"} => u # t /\ pc'[u] = pc[u]
    BY <1>3, <1>4, Zenon
  <2>2. \A u \in Task : pc[u] \in {"nonces", "build"} =>
            \A s \in Senders(job[u].items) : active[s] = u
    BY JobFacts DEF IInv, TypeOK, Holders, Holding
  <2>3. ASSUME NEW u \in Task \ {t}, pc[u] \in {"nonces", "build"},
               NEW s \in Senders(job[u].items), NEW f \in Envelope, Recorded(f)'
        PROVE  f.from # s
    <3>1. CASE Recorded(f)
      BY <2>3, <3>1, Zenon DEF IInv, Fresh
    <3>2. CASE f \in EntrySet(t)
      <4>1. active[f.from] = t
        BY <1>11, <3>2, Zenon
      <4>2. active[s] = u /\ u # t
        BY <2>2, <2>3, Zenon
      <4>3. QED
        BY <4>1, <4>2, Zenon
    <3>3. QED
      BY <1>2, <2>3, <3>1, <3>2, Zenon
  <2>4. QED
    BY <2>1, <2>3, Zenon DEF IInv, Fresh
<1>19. Batches'
  <2>1. ASSUME NEW u \in Task \ {t}, via'[u] = "batch", NEW f \in Envelope, Recorded(f)',
               active'[f.from] = u
        PROVE  Recorded(f) /\ records'[f] = records[f] /\ via[u] = "batch"
               /\ active[f.from] = u
    BY <1>2, <1>3, <1>11, <2>1, ZenonT(30)
  <2>2. ASSUME NEW f \in Envelope, Recorded(f)', active'[f.from] = t
        PROVE  /\ records'[f].op = t
               /\ \E i \in 1 .. Len(entries'[t]) : cursor'[t] < i /\ f = entries'[t][i]
    <3>1. f.from \in Senders(job[t].items)
      BY <2>2, Zenon DEF IInv, Holders, Envelope
    <3>2. f \in EntrySet(t)
      BY <1>2, <1>12, <2>2, <3>1, Zenon
    <3>3. PICK i \in 1 .. Len(Entries(t)) : f = Entries(t)[i]
      <4>1. EntrySet(t) = {Entries(t)[i] : i \in 1 .. Len(Entries(t))}
        BY <1>1, EntriesFacts, Zenon
      <4>2. QED
        BY <3>2, <4>1, Zenon
    <3>4. records'[f].op = t
      <4>1. records'[f] = [status |-> "prepared", op |-> t]
        BY <1>2, <2>2, <3>2, Zenon
      <4>2. [status |-> "prepared", op |-> t].op = t
        BY Zenon
      <4>3. QED
        BY <4>1, <4>2, Zenon
    <3>5. cursor'[t] = 0 /\ entries'[t] = Entries(t)
      BY <1>4, Zenon
    <3>6. Len(Entries(t)) \in Nat
      BY <1>5, SMTT(30)
    <3>7. 0 < i
      BY <3>3, <3>6, Indices, Zenon
    <3>8. QED
      BY <3>3, <3>4, <3>5, <3>7, Zenon
  <2>3. /\ cursor'[t] < Len(entries'[t]) /\ claimed'[t] = entries'[t][cursor'[t] + 1]
        /\ \A i \in 1 .. Len(entries'[t]) :
               /\ entries'[t][i].payment = t
               /\ entries'[t][i].from \in Senders(job'[t].items)
               /\ \A k \in 1 .. Len(entries'[t]) :
                      i < k /\ entries'[t][i].from = entries'[t][k].from =>
                          entries'[t][i].nonce < entries'[t][k].nonce
    <3>1. cursor' = cursor /\ job' = job
      BY Zenon
    <3>2. 0 + 1 = 1 /\ Len(Entries(t)) \in Nat \ {0}
      BY <1>1, EntriesFacts
    <3>3. QED
      BY <1>1, <1>4, <3>1, <3>2, EntriesFacts
  <2>4. ASSUME NEW u \in Task \ {t}, via'[u] = "batch"
        PROVE  /\ cursor'[u] < Len(entries'[u]) /\ claimed'[u] = entries'[u][cursor'[u] + 1]
               /\ \A i \in 1 .. Len(entries'[u]) :
                      /\ entries'[u][i].payment = u
                      /\ entries'[u][i].from \in Senders(job'[u].items)
                      /\ \A k \in 1 .. Len(entries'[u]) :
                             i < k /\ entries'[u][i].from = entries'[u][k].from =>
                                 entries'[u][i].nonce < entries'[u][k].nonce
    BY <1>3, <2>4 DEF IInv, Batches
  <2>5. ASSUME NEW u \in Task \ {t}, via'[u] = "batch", NEW f \in Envelope, Recorded(f)',
               active'[f.from] = u
        PROVE  /\ records'[f].op = u
               /\ \E i \in 1 .. Len(entries'[u]) : cursor'[u] < i /\ f = entries'[u][i]
    BY <1>3, <2>1, <2>5 DEF IInv, Batches
  <2>6. QED
    BY <2>2, <2>3, <2>4, <2>5 DEF Batches
<1>20. QED
  BY <1>6, <1>7, <1>9, <1>10, <1>13, <1>14, <1>15, <1>16, <1>17, <1>18, <1>19, ZenonT(30) DEF IInv

\* A single envelope leaves its operation: it is the only record of its sender.
LEMMA DetachStep ==
    ASSUME IInv, NEW t \in Task, DetachOne(t)
    PROVE  IInv'
<1> DEFINE e == Entries(t)[1]
<1>1. /\ pc[t] = "build" /\ job[t].kind # "batch" /\ records' = Registered(t, None)
      /\ active' = Released(t) /\ asleep' = {}
      /\ UNCHANGED <<floor, prepareVars, cursor, job, calls, nodeVars, accepted>>
  BY Zenon DEF DetachOne, At
<1>2. /\ records' \in [Envelope -> Record]
      /\ \A f \in Envelope :
             /\ f \in EntrySet(t) => records'[f] = [status |-> "prepared", op |-> None]
             /\ f \notin EntrySet(t) => records'[f] = records[f]
             /\ InFlight(f) => records'[f] = records[f]
             /\ InFlight(f)' => InFlight(f) /\ f \notin EntrySet(t)
             /\ Recorded(f)' => Recorded(f) \/ f \in EntrySet(t)
  BY <1>1, RegisteredFacts, Zenon
<1>3. /\ EntrySet(t) = {e} /\ e \in Envelope /\ e.payment = t /\ ~ Recorded(e)
      /\ active[e.from] = t /\ floor[e.from] <= e.nonce
      /\ e.from \in Senders(job[t].items)
  <2>1. job[t] \in Job
    BY Zenon DEF IInv, TypeOK
  <2>2. Len(job[t].items) = 1
    <3>1. Len(job[t].items) \in 1 .. 1
      BY <1>1, <2>1, JobAssumption, Zenon
    <3>2. QED
      BY <3>1
  <2>3. Len(Entries(t)) = 1 /\ e \in Envelope /\ e.payment = t /\ e.from \in Senders(job[t].items)
    BY <1>1, <2>2, EntriesFacts
  <2>4. EntrySet(t) = {Entries(t)[i] : i \in 1 .. 1}
    BY <1>1, <2>3, EntriesFacts, Zenon
  <2>5. EntrySet(t) = {e}
    BY <2>4
  <2>6. QED
    BY <1>1, <2>3, <2>5, EntriesFacts, Zenon
<1>4. /\ pc'[t] \in {"idle", "submit"} /\ (via'[t] = "none" <=> pc'[t] = "idle")
      /\ via'[t] \in {"none", "single"} /\ via[t] = "none" /\ cursor[t] = 0
      /\ via'[t] = "single" => claimed'[t] = e
      /\ signed'[t] \in {e, signed[t]}
  <2>1. via[t] = "none" /\ cursor[t] = 0
    BY <1>1, Zenon DEF IInv, TypeOK, Phases, Submitting
  <2>2. CASE job[t].kind = "prepare"
    <3>1. /\ pc' = [pc EXCEPT ![t] = "idle"] /\ via' = [via EXCEPT ![t] = "none"]
          /\ signed' = [signed EXCEPT ![t] = e]
      BY <2>2, Zenon DEF DetachOne, Return, GoTo
    <3>2. QED
      BY <2>1, <3>1, Zenon DEF IInv, TypeOK
  <2>3. CASE job[t].kind # "prepare"
    <3>1. /\ pc' = [pc EXCEPT ![t] = "submit"] /\ via' = [via EXCEPT ![t] = "single"]
          /\ claimed' = [claimed EXCEPT ![t] = e] /\ signed' = signed
      BY <2>3, Zenon DEF DetachOne, GoTo
    <3>2. QED
      BY <2>1, <3>1, Zenon DEF IInv, TypeOK
  <2>4. QED
    BY <2>2, <2>3, Zenon
<1>5. \A u \in Task \ {t} : /\ pc'[u] = pc[u] /\ via'[u] = via[u]
                            /\ claimed'[u] = claimed[u] /\ recovery'[u] = recovery[u]
                            /\ signed'[u] = signed[u]
  BY DEF DetachOne, Return, GoTo, IInv, TypeOK
<1>6. \A s \in Sender : active'[s] = IF active[s] = t THEN None ELSE active[s]
  BY <1>1, Zenon DEF Released
<1>7. TypeOK'
  <2>1. active' \in [Sender -> Task \cup {None}]
    BY <1>1, Zenon DEF Released, IInv, TypeOK
  <2>2. /\ pc' \in [Task -> {"idle", "admit", "nonces", "build", "submit", "lookup", "wire",
                             "answer"}]
        /\ via' \in [Task -> {"none", "admit", "batch", "single"}]
        /\ recovery' \in [Task -> BOOLEAN]
    BY Zenon DEF DetachOne, Return, GoTo, IInv, TypeOK
  <2>3. /\ claimed' \in [Task -> Envelope \cup {None}]
        /\ signed' \in [Task -> Envelope \cup {None}]
        /\ result' \in [Task -> [kind : {"none", "prepared", "ok", "rejected", "ambiguous", "failed"},
                                 id : Envelope \cup {None}]]
    <3>1. CASE job[t].kind = "prepare"
      <4>1. /\ claimed' = [claimed EXCEPT ![t] = None] /\ signed' = [signed EXCEPT ![t] = e]
            /\ result' = [result EXCEPT ![t] = [kind |-> "prepared", id |-> e]]
        BY <3>1, Zenon DEF DetachOne, Return
      <4>2. QED
        BY <1>3, <4>1, Zenon DEF IInv, TypeOK
    <3>2. CASE job[t].kind # "prepare"
      <4>1. claimed' = [claimed EXCEPT ![t] = e] /\ signed' = signed /\ result' = result
        BY <3>2, Zenon DEF DetachOne
      <4>2. QED
        BY <1>3, <4>1, Zenon DEF IInv, TypeOK
    <3>3. QED
      BY <3>1, <3>2, Zenon
  <2>4. QED
    BY <1>1, <1>2, <2>1, <2>2, <2>3, Zenon DEF IInv, TypeOK, prepareVars, nodeVars
<1>8. Phases'
  BY <1>1, <1>3, <1>4, <1>5, SMTT(60) DEF IInv, Phases, Submitting
<1>9. \A u \in Task : Claiming(u)' =>
          u # t /\ Claiming(u) /\ claimed'[u] = claimed[u] /\ recovery'[u] = recovery[u]
  BY <1>4, <1>5, ZenonT(30) DEF Claiming
<1>10. Claims'
  <2>1. \A u \in Task : Claiming(u) => claimed[u] \in Envelope /\ InFlight(claimed[u])
    BY Zenon DEF IInv, Claims, Claiming, Phases, Submitting, InFlight
  <2>2. ASSUME NEW u \in Task, Claiming(u)'
        PROVE  records'[claimed'[u]].status = "reconciling"
    <3>1. Claiming(u) /\ claimed'[u] = claimed[u]
      BY <1>9, <2>2, Zenon
    <3>2. records'[claimed[u]] = records[claimed[u]]
      BY <1>2, <2>1, <3>1, Zenon
    <3>3. records[claimed[u]].status = "reconciling"
      BY <3>1, Zenon DEF IInv, Claims
    <3>4. QED
      BY <3>1, <3>2, <3>3, Zenon
  <2>3. \A u, w \in Task :
            Claiming(u)' /\ Claiming(w)' /\ claimed'[u] = claimed'[w] => u = w
    BY <1>9, Zenon DEF IInv, Claims
  <2>4. ASSUME NEW u \in Task, pc'[u] = "wire", ~ recovery'[u]
        PROVE  claimed'[u] \notin sent'
    <3>1. Claiming(u)'
      BY <2>4, Zenon DEF Claiming
    <3>2. /\ u # t /\ claimed'[u] = claimed[u] /\ recovery'[u] = recovery[u]
          /\ pc'[u] = pc[u]
      BY <1>5, <1>9, <3>1, Zenon
    <3>3. sent' = sent
      BY <1>1, Zenon DEF nodeVars
    <3>4. QED
      BY <2>4, <3>2, <3>3, Zenon DEF IInv, Claims
  <2>5. QED
    BY <2>2, <2>3, <2>4, Zenon DEF Claims
<1>11. Recoveries'
  <2>1. \A u \in Task : via'[u] = "admit" =>
            via[u] = "admit" /\ claimed'[u] = claimed[u] /\ claimed[u] \in Envelope
    BY <1>4, <1>5, ZenonT(30) DEF IInv, Phases
  <2>2. ASSUME NEW u \in Task, via'[u] = "admit"
        PROVE  claimed'[u] \in accepted' \/ InFlight(claimed[u])'
    <3>1. claimed'[u] = claimed[u] /\ claimed[u] \in Envelope /\ via[u] = "admit"
      BY <2>1, <2>2, Zenon
    <3>2. accepted' = accepted
      BY <1>1, Zenon
    <3>3. claimed[u] \in accepted \/ InFlight(claimed[u])
      BY <3>1, Zenon DEF IInv, Recoveries
    <3>4. InFlight(claimed[u]) => InFlight(claimed[u])'
      BY <1>2, <3>1, Zenon DEF InFlight
    <3>5. QED
      BY <3>1, <3>2, <3>3, <3>4, Zenon
  <2>3. ASSUME NEW u \in Task, via'[u] = "admit", NEW w \in Task, Claiming(w)',
               claimed'[w] = claimed'[u]
        PROVE  recovery'[w]
    BY <1>9, <2>1, <2>3, Zenon DEF IInv, Recoveries
  <2>4. QED
    BY <2>2, <2>3, Zenon DEF Recoveries
<1>12. \A f \in Envelope : Recorded(f) => f.from \notin Senders(job[t].items)
  BY <1>1, Zenon DEF IInv, Fresh
<1>13. Floors'
  <2>1. \A f \in Envelope : Recorded(f)' => floor[f.from] <= f.nonce
    BY <1>2, <1>3, Zenon DEF IInv, Floors
  <2>2. QED
    BY <1>1, <2>1, Zenon DEF IInv, Floors
<1>14. OldestFirst'
  <2>1. \A f \in Envelope : InFlight(f) => Recorded(f)
    BY Zenon DEF InFlight, Recorded
  <2>2. \A f, g \in Envelope :
            InFlight(f)' /\ Recorded(g)' /\ g.from = f.from => InFlight(f) /\ Recorded(g)
    BY <1>2, <1>3, <1>12, <2>1, Zenon
  <2>3. QED
    BY <2>2, Zenon DEF IInv, OldestFirst
<1>15. Retained'
  <2>1. ASSUME NEW f \in Envelope, NEW g \in Envelope, Recorded(f)', Recorded(g)',
               f.from = g.from, active'[f.from] = None
        PROVE  f = g
    <3>1. CASE active[f.from] = None
      <4>1. f \notin EntrySet(t) /\ g \notin EntrySet(t)
        BY <1>3, <2>1, <3>1, TaskSenderAssumption, Zenon
      <4>2. Recorded(f) /\ Recorded(g)
        BY <1>2, <2>1, <4>1, Zenon
      <4>3. QED
        BY <2>1, <3>1, <4>2, Zenon DEF IInv, Retained
    <3>2. CASE active[f.from] = t
      <4>1. f.from \in Senders(job[t].items)
        BY <3>2, Zenon DEF IInv, Holders, Envelope
      <4>2. QED
        BY <1>2, <1>3, <1>12, <2>1, <4>1, Zenon
    <3>3. QED
      BY <1>6, <2>1, <3>1, <3>2, ZenonT(30) DEF Envelope
  <2>2. QED
    BY <2>1, Zenon DEF Retained
<1>16. OpenFateRetained'
  BY <1>1, <1>2, ZenonT(30) DEF IInv, TypeOK, OpenFateRetained, InFlight, nodeVars
<1>17. Holders'
  <2>1. ~ Holding(t)' /\ \A u \in Task \ {t} : Holding(u)' <=> Holding(u)
    BY <1>4, <1>5, Zenon DEF Holding
  <2>2. job' = job
    BY <1>1, Zenon
  <2>3. \A s \in Sender : active'[s] # t
    BY <1>6, TaskSenderAssumption, Zenon
  <2>4. \A u \in Task \ {t}, s \in Sender : active'[s] = u <=> active[s] = u
    BY <1>6, TaskSenderAssumption, Zenon
  <2>5. ASSUME NEW u \in Task, NEW s \in Sender
        PROVE  (active'[s] = u) <=> Holding(u)' /\ s \in Senders(job'[u].items)
    <3>1. CASE u = t
      BY <2>1, <2>3, <3>1, Zenon
    <3>2. CASE u # t
      BY <2>1, <2>2, <2>4, <3>2, Zenon DEF IInv, Holders
    <3>3. QED
      BY <3>1, <3>2, Zenon
  <2>6. QED
    BY <2>5, Zenon DEF Holders
<1>18. Fresh'
  <2>1. \A u \in Task : pc'[u] \in {"nonces", "build"} => u # t /\ pc'[u] = pc[u]
    BY <1>4, <1>5, Zenon
  <2>2. \A u \in Task : pc[u] \in {"nonces", "build"} =>
            \A s \in Senders(job[u].items) : active[s] = u
    BY JobFacts, ZenonT(30) DEF IInv, TypeOK, Holders, Holding
  <2>3. ASSUME NEW u \in Task \ {t}, pc[u] \in {"nonces", "build"},
               NEW s \in Senders(job[u].items), NEW f \in Envelope, Recorded(f)'
        PROVE  f.from # s
    <3>1. CASE Recorded(f)
      BY <2>3, <3>1, Zenon DEF IInv, Fresh
    <3>2. CASE f = e
      BY <1>3, <2>2, <2>3, <3>2, ZenonT(30)
    <3>3. QED
      BY <1>2, <1>3, <2>3, <3>1, <3>2, Zenon
  <2>4. QED
    BY <1>1, <2>1, <2>3, Zenon DEF IInv, Fresh, prepareVars
<1>19. Batches'
  <2>1. \A u \in Task : via'[u] = "batch" =>
            u # t /\ via[u] = "batch" /\ claimed'[u] = claimed[u]
    BY <1>4, <1>5, Zenon
  <2>2. ASSUME NEW u \in Task \ {t}, NEW f \in Envelope, Recorded(f)', active'[f.from] = u
        PROVE  active[f.from] = u /\ Recorded(f) /\ records'[f] = records[f]
    <3>1. f.from \in Sender
      BY Zenon DEF Envelope
    <3>2. active[f.from] = u
      BY <1>6, <2>2, <3>1, TaskSenderAssumption, Zenon
    <3>3. f \notin EntrySet(t)
      BY <1>3, <3>2, Zenon
    <3>4. QED
      BY <1>2, <2>2, <3>2, <3>3, Zenon
  <2>3. /\ job' = job /\ entries' = entries /\ cursor' = cursor
    BY <1>1, Zenon DEF prepareVars
  <2>4. ASSUME NEW u \in Task, via'[u] = "batch", NEW f \in Envelope, Recorded(f)',
               active'[f.from] = u
        PROVE  /\ records'[f].op = u
               /\ \E i \in 1 .. Len(entries'[u]) : cursor'[u] < i /\ f = entries'[u][i]
    <3>1. /\ via[u] = "batch" /\ active[f.from] = u /\ Recorded(f)
          /\ records'[f] = records[f]
      BY <2>1, <2>2, <2>4, Zenon
    <3>2. Batches
      BY Zenon DEF IInv
    <3>3. /\ records[f].op = u
          /\ \E i \in 1 .. Len(entries[u]) : cursor[u] < i /\ f = entries[u][i]
      BY <3>1, <3>2, ZenonT(30) DEF Batches
    <3>4. QED
      BY <2>3, <3>1, <3>3, Zenon
  <2>5. ASSUME NEW u \in Task, via'[u] = "batch"
        PROVE  /\ cursor'[u] < Len(entries'[u]) /\ claimed'[u] = entries'[u][cursor'[u] + 1]
               /\ \A i \in 1 .. Len(entries'[u]) :
                      /\ entries'[u][i].payment = u
                      /\ entries'[u][i].from \in Senders(job'[u].items)
                      /\ \A k \in 1 .. Len(entries'[u]) :
                             i < k /\ entries'[u][i].from = entries'[u][k].from =>
                                 entries'[u][i].nonce < entries'[u][k].nonce
    <3>1. via[u] = "batch" /\ claimed'[u] = claimed[u]
      BY <2>1, <2>5, Zenon
    <3>2. Batches
      BY Zenon DEF IInv
    <3>3. /\ cursor[u] < Len(entries[u]) /\ claimed[u] = entries[u][cursor[u] + 1]
          /\ \A i \in 1 .. Len(entries[u]) :
                 /\ entries[u][i].payment = u
                 /\ entries[u][i].from \in Senders(job[u].items)
                 /\ \A k \in 1 .. Len(entries[u]) :
                        i < k /\ entries[u][i].from = entries[u][k].from =>
                            entries[u][i].nonce < entries[u][k].nonce
      BY <3>1, <3>2, ZenonT(30) DEF Batches
    <3>4. QED
      BY <2>3, <3>1, <3>3, ZenonT(30)
  <2>6. QED
    BY <2>4, <2>5, ZenonT(30) DEF Batches
<1>20. QED
  BY <1>7, <1>8, <1>10, <1>11, <1>13, <1>14, <1>15, <1>16, <1>17, <1>18, <1>19, Zenon DEF IInv

-----------------------------------------------------------------------------
(* The theorems.                                                           *)

LEMMA NextIInv ==
    ASSUME IInv, [Next]_vars
    PROVE  IInv'
<1>1. ASSUME NEW t \in Task, Step(t) PROVE IInv'
  <2>1. ASSUME NEW j \in Job, Call(t, j) PROVE IInv'
    BY <2>1, CallStep, Zenon
  <2>2. CASE Broadcast(t)
    BY <2>2, BroadcastStep, Zenon
  <2>3. CASE Prepares(t)
    <3>1. CASE Acquire(t)
      BY <3>1, AcquireStep, Zenon
    <3>2. CASE AdmitWait(t)
      BY <3>2, WaitStep, Zenon
    <3>3. ASSUME NEW e \in Envelope, Recover(t, e) PROVE IInv'
      BY <3>3, RecoverStep, Zenon
    <3>4. ASSUME NEW s \in Sender, NEW n \in 0 .. MaxNonce, ReadNonce(t, s, n) PROVE IInv'
      BY <3>4, ReadNonceStep, Zenon
    <3>5. ASSUME NEW s \in Sender, NEW n \in 0 .. MaxNonce, NoncesExhausted(t, s, n)
          PROVE  IInv'
      BY <3>5, AbortStep, Zenon DEF NoncesExhausted, At
    <3>6. CASE Register(t)
      BY <3>6, RegisterStep, Zenon
    <3>7. CASE DetachOne(t)
      BY <3>7, DetachStep, Zenon
    <3>8. QED
      BY <2>3, <3>1, <3>2, <3>3, <3>4, <3>5, <3>6, <3>7, ZenonT(30) DEF Prepares
  <2>4. CASE Submits(t)
    <3>1. CASE Claim(t)
      BY <3>1, ClaimStep, Zenon
    <3>2. CASE ClaimWait(t)
      BY <3>2, WaitStep, Zenon
    <3>3. CASE ClaimMissing(t)
      BY <3>3, ClaimMissingLeaves, LeavesStep, Zenon
    <3>4. CASE LookupFound(t) \/ AnswerOk(t)
      BY <3>4, AcceptStep, Zenon DEF LookupFound, AnswerOk, At, Claiming
    <3>5. CASE LookupAbsent(t)
      BY <3>5, LookupAbsentStep, Zenon
    <3>6. CASE Dispatch(t)
      BY <3>6, DispatchStep, Zenon
    <3>7. QED
      BY <2>4, <3>1, <3>2, <3>3, <3>4, <3>5, <3>6, ZenonT(30) DEF Submits
  <2>5. CASE Fails(t)
    <3>1. CASE PreparationFails(t)
      BY <3>1, AbortStep, Zenon DEF PreparationFails
    <3>2. CASE LookupFails(t) \/ AnswerUnclear(t)
      <4>1. Claiming(t) /\ Submitting(t) /\ Undecided(t)
        BY <3>2, Zenon DEF LookupFails, AnswerUnclear, At, Claiming, Submitting
      <4>2. QED
        BY <4>1, UndecidedLeaves, LeavesStep, Zenon DEF Undecided
    <3>3. CASE Refuse(t)
      <4>1. pc[t] = "wire" /\ Claiming(t) /\ Submitting(t)
        BY <3>3, Zenon DEF Refuse, At, Claiming, Submitting
      <4>2. CASE recovery[t]
        BY <3>3, <4>1, <4>2, UndecidedLeaves, LeavesStep, Zenon DEF Refuse
      <4>3. CASE ~ recovery[t]
        BY <3>3, <4>1, <4>3, RefusedLeaves, LeavesStep, Zenon DEF Refuse
      <4>4. QED
        BY <4>2, <4>3, Zenon
    <3>4. CASE CancelWait(t)
      <4>1. pc[t] \in {"admit", "submit"}
        BY <3>4, Zenon DEF CancelWait, IInv, Phases
      <4>2. CASE pc[t] = "submit"
        BY <3>4, <4>2, ClaimMissingLeaves, LeavesStep, Zenon
      <4>3. CASE pc[t] = "admit"
        BY <3>4, <4>3, CancelAdmitStep, Zenon
      <4>4. QED
        BY <4>1, <4>2, <4>3, Zenon
    <3>5. QED
      BY <2>5, <3>1, <3>2, <3>3, <3>4, Zenon DEF Fails
  <2>6. QED
    BY <1>1, <2>1, <2>2, <2>3, <2>4, <2>5, ZenonT(30) DEF Step
<1>2. CASE (\E e \in Envelope : Deliver(e)) \/ Quiet \/ UNCHANGED vars
  BY <1>2, OtherStep, Zenon DEF Quiet
<1>3. QED
  BY <1>1, <1>2, Zenon DEF Next

\* IInv holds in every state the coordinator reaches.
THEOREM InductiveInvariant == Spec => []IInv
BY InitIInv, NextIInv, PTL DEF Spec

\* The state keeps its type; nothing the node has or the coordinator saw
\* accepted was not sent.
THEOREM TypeCorrect == Spec => []TypeOK
<1>1. IInv => TypeOK
  BY Zenon DEF IInv
<1>2. QED
  BY <1>1, InductiveInvariant, PTL

\* An envelope that may have reached a node stays coordinated until its
\* acceptance is known, through every error, drop and concurrent recovery.
THEOREM OpenFateRetainedAlways == Spec => []OpenFateRetained
<1>1. IInv => OpenFateRetained
  BY Zenon DEF IInv
<1>2. QED
  BY <1>1, InductiveInvariant, PTL

\* From admission to its last envelope an operation holds every sender of its
\* call, and no record of theirs exists while it reads nonces and signs.
THEOREM AdmissionKeptAlways == Spec => []AdmissionKept
<1>1. ASSUME IInv PROVE AdmissionKept
  <2>1. ASSUME NEW t \in Task, Holding(t), NEW s \in Senders(job[t].items)
        PROVE  active[s] = t /\ (pc[t] \in {"nonces", "build"} => RecordsOf(s) = {})
    <3>1. s \in Sender
      BY <1>1, JobFacts, Zenon DEF IInv, TypeOK
    <3>2. active[s] = t
      BY <1>1, <2>1, <3>1, Zenon DEF IInv, Holders
    <3>3. pc[t] \in {"nonces", "build"} => RecordsOf(s) = {}
      BY <1>1, Zenon DEF IInv, Fresh, Recorded, RecordsOf
    <3>4. QED
      BY <3>2, <3>3, Zenon
  <2>2. QED
    BY <2>1, Zenon DEF AdmissionKept
<1>2. QED
  BY <1>1, InductiveInvariant, PTL

\* When no operation holds a sender, at most one envelope of it is retained.
THEOREM OneRetainedAlways == Spec => []OneRetained
<1>1. ASSUME IInv PROVE OneRetained
  BY <1>1, Zenon DEF IInv, Retained, OneRetained, RecordsOf, Recorded
<1>2. QED
  BY <1>1, InductiveInvariant, PTL

-----------------------------------------------------------------------------
(* The ledger.                                                             *)

\* Bytes that go out for the first time have a nonce above the accepted ones,
\* and no other envelope of the sender has an open fate.
LEMMA DispatchSends ==
    ASSUME IInv, NEW t \in Task, Dispatch(t)
    PROVE  \E e \in Envelope : Ledger!Send(e)
<1> DEFINE e == claimed[t]
<1>1. /\ e \in Envelope /\ InFlight(e) /\ Recorded(e)
      /\ sent' = sent \cup {e} /\ accepted' = accepted
  BY Zenon DEF Dispatch, At, IInv, Phases, Claims, Submitting, Claiming, InFlight, Recorded
<1>2. ASSUME e \notin sent, NEW f \in sent, f.from = e.from
      PROVE  f \in accepted /\ f.nonce < e.nonce
  <2>1. f \in Envelope /\ f.nonce \in Int /\ e.nonce \in Int /\ floor[e.from] \in Int
    <3>1. f \in Envelope /\ TypeOK
      BY Zenon DEF IInv, TypeOK
    <3>2. QED
      BY <1>1, <3>1, NoncesFacts, Zenon
  <2>2. f \in accepted
    <3>1. SUFFICES ASSUME f \notin accepted PROVE FALSE
      BY Zenon
    <3>2. InFlight(f) /\ Recorded(f)
      BY <3>1, Zenon DEF IInv, OpenFateRetained, InFlight, Recorded
    <3>3. QED
      BY <1>1, <1>2, <2>1, <3>2 DEF IInv, OldestFirst
  <2>3. f.nonce < floor[e.from] /\ floor[e.from] <= e.nonce
    BY <1>1, <1>2, <2>2, Zenon DEF IInv, Floors
  <2>4. QED
    BY <2>1, <2>2, <2>3, SMTT(30)
<1>3. Ledger!Open(e) \/ e \in sent
  BY <1>2, Zenon DEF Ledger!Open, Ledger!SameSender
<1>4. QED
  BY <1>1, <1>3, Zenon DEF Ledger!Send

\* Acceptance settles bytes that went out; every other step leaves the ledger.
LEMMA LedgerStep ==
    ASSUME IInv, [Next]_vars
    PROVE  [Ledger!LedgerNext]_(Ledger!ledgerVars)
<1> USE DEF Ledger!ledgerVars
<1>1. ASSUME NEW t \in Task, Dispatch(t) PROVE Ledger!LedgerNext
  BY <1>1, DispatchSends, Zenon DEF Ledger!LedgerNext
<1>2. ASSUME NEW t \in Task, LookupFound(t) \/ AnswerOk(t)
      PROVE  Ledger!LedgerNext \/ UNCHANGED <<sent, accepted>>
  <2>1. /\ claimed[t] \in Envelope /\ claimed[t] \in sent
        /\ sent' = sent /\ accepted' = accepted \cup {claimed[t]}
    BY <1>2, Zenon DEF LookupFound, AnswerOk, Accept, nodeVars, IInv, TypeOK
  <2>2. QED
    BY <2>1, Zenon DEF Ledger!LedgerNext, Ledger!Settle
<1>3. ASSUME NEW t \in Task, Step(t), ~ Dispatch(t), ~ LookupFound(t), ~ AnswerOk(t)
      PROVE  UNCHANGED <<sent, accepted>>
  <2>1. CASE (\E j \in Job : Call(t, j)) \/ Broadcast(t)
    BY <2>1, Zenon DEF Call, Broadcast, nodeVars
  <2>2. CASE Prepares(t)
    BY <2>2, Zenon DEF Prepares, Acquire, AdmitWait, Recover, ReadNonce, NoncesExhausted, Abort,
                Register, DetachOne, nodeVars
  <2>3. CASE Submits(t)
    BY <1>3, <2>3, Zenon DEF Submits, Claim, ClaimWait, ClaimMissing, LookupAbsent, nodeVars
  <2>4. CASE Fails(t)
    BY <2>4, Zenon DEF Fails, PreparationFails, Abort, LookupFails, Refuse, AnswerUnclear,
                Undecided, CancelWait, nodeVars
  <2>5. QED
    BY <1>3, <2>1, <2>2, <2>3, <2>4, Zenon DEF Step
<1>4. CASE (\E e \in Envelope : Deliver(e)) \/ Quiet \/ UNCHANGED vars
  BY <1>4, Zenon DEF Deliver, Quiet, vars, nodeVars
<1>5. QED
  BY <1>1, <1>2, <1>3, <1>4, Zenon DEF Next

\* The coordinator implements the ledger, for every number of senders, tasks,
\* jobs and nonces: whatever pending counts the node reports, however calls
\* interleave, fail or are dropped.
THEOREM ImplementsLedger == Spec => LedgerSpec
<1>1. Init => Ledger!LedgerInit
  BY Zenon DEF Init, Ledger!LedgerInit
<1>2. QED
  BY <1>1, LedgerStep, InductiveInvariant, PTL DEF Spec, LedgerSpec, Ledger!LedgerSpec

\* No two transactions of a sender ever go out with the same nonce, and the one
\* with an open fate is the last: what a caller of the coordinator relies on.
THEOREM NoncesSpentOnce == Spec => [](Ledger!NonceSpentOnce /\ Ledger!OneOpen)
<1> DEFINE Inv == Ledger!NonceSpentOnce /\ Ledger!OneOpen
<1>1. Init => Inv
  BY Zenon DEF Init, Ledger!NonceSpentOnce, Ledger!OneOpen
<1>2. ASSUME IInv, Inv, [Next]_vars PROVE Inv'
  <2>1. [Ledger!LedgerNext]_(Ledger!ledgerVars)
    BY <1>2, LedgerStep, Zenon
  <2>2. \A e \in sent : e.nonce \in Int
    BY <1>2 DEF IInv, TypeOK, Envelope
  <2>3. ASSUME NEW e \in Envelope, Ledger!Send(e) PROVE Inv'
    <3>1. e.nonce \in Int
      BY DEF Envelope
    <3>2. CASE e \in sent
      BY <1>2, <2>3, <3>2, ZenonT(30) DEF Ledger!Send, Ledger!NonceSpentOnce, Ledger!OneOpen
    <3>3. CASE Ledger!Open(e)
      <4>1. \A f \in sent : f.from = e.from => f \in accepted /\ f.nonce < e.nonce
        BY <3>3, Zenon DEF Ledger!Open, Ledger!SameSender
      <4>2. sent' = sent \cup {e} /\ accepted' = accepted
        BY <2>3, Zenon DEF Ledger!Send
      <4>3. Ledger!NonceSpentOnce'
        BY <1>2, <2>2, <3>1, <4>1, <4>2 DEF Ledger!NonceSpentOnce
      <4>4. Ledger!OneOpen'
        BY <1>2, <4>1, <4>2, Zenon DEF Ledger!OneOpen
      <4>5. QED
        BY <4>3, <4>4, Zenon
    <3>4. QED
      BY <2>3, <3>2, <3>3, Zenon DEF Ledger!Send
  <2>4. ASSUME NEW e \in Envelope, Ledger!Settle(e) PROVE Inv'
    BY <1>2, <2>4, Zenon DEF Ledger!Settle, Ledger!NonceSpentOnce, Ledger!OneOpen
  <2>5. CASE UNCHANGED Ledger!ledgerVars
    BY <1>2, <2>5, Zenon DEF Ledger!ledgerVars, Ledger!NonceSpentOnce, Ledger!OneOpen
  <2>6. QED
    BY <2>1, <2>3, <2>4, <2>5, Zenon DEF Ledger!LedgerNext
<1>3. QED
  BY <1>1, <1>2, InductiveInvariant, PTL DEF Spec

-----------------------------------------------------------------------------
(* Sleepers.                                                               *)

\* A set of numbers that is not empty has a least one.
LEMMA LeastOne ==
    ASSUME NEW S, S \subseteq Nat, S # {}
    PROVE  \E m \in S : \A k \in S : m <= k
<1> DEFINE below == OpToRel(<, Nat)
<1>1. PICK m \in S : \A k \in S : <<k, m>> \notin below
  BY WFMin, NatLessThanWellFounded, Zenon
<1>2. ASSUME NEW k \in S PROVE m <= k
  <2>1. <<k, m>> \in Nat \X Nat => (<<k, m>> \in below <=> <<k, m>>[1] < <<k, m>>[2])
    BY Zenon DEF OpToRel
  <2>2. k \in Nat /\ m \in Nat /\ <<k, m>> \notin below
    BY <1>1, Zenon
  <2> HIDE DEF below
  <2>3. QED
    BY <2>1, <2>2
<1>3. QED
  BY <1>2, Zenon

\* FirstIndex is where a sender of the call first occurs.
LEMMA FirstIndexFacts ==
    ASSUME NEW j \in Job, NEW s \in Senders(j.items)
    PROVE  /\ FirstIndex(j.items, s) \in 1 .. Len(j.items)
           /\ j.items[FirstIndex(j.items, s)] = s
           /\ \A k \in 1 .. Len(j.items) : j.items[k] = s => FirstIndex(j.items, s) <= k
<1> DEFINE items == j.items
           occurs == {i \in 1 .. Len(items) : items[i] = s}
<1>1. DOMAIN items = 1 .. Len(items) /\ Len(items) \in Nat
  BY JobFacts
<1>2. occurs # {} /\ occurs \subseteq Nat
  BY <1>1 DEF Senders
<1>3. PICK m \in occurs : \A k \in occurs : m <= k
  BY <1>2, LeastOne, Zenon
<1>4. m \in DOMAIN items /\ items[m] = s /\ \A k \in 1 .. m - 1 : items[k] # s
  BY <1>1, <1>3
<1> DEFINE first == FirstIndex(items, s)
<1>5. first \in DOMAIN items /\ items[first] = s /\ \A k \in 1 .. first - 1 : items[k] # s
  BY <1>4, Zenon DEF FirstIndex
<1> HIDE DEF first
<1>6. \A k \in 1 .. Len(items) : items[k] = s => first <= k
  BY <1>1, <1>5
<1>7. QED
  BY <1>1, <1>5, <1>6, Zenon DEF first

\* The first sender of a call outside fr, by first occurrence and by position.
LEMMA FirstOutside ==
    ASSUME NEW j \in Job, NEW fr, NEW s
    PROVE  (/\ s \in Senders(j.items) /\ s \notin fr
            /\ \A r \in Senders(j.items) :
                   FirstIndex(j.items, r) < FirstIndex(j.items, s) => r \in fr)
           <=> (\E i \in 1 .. Len(j.items) :
                    /\ j.items[i] = s /\ s \notin fr
                    /\ \A k \in 1 .. Len(j.items) : k < i => j.items[k] \in fr)
<1> DEFINE items == j.items
<1>1. DOMAIN items = 1 .. Len(items) /\ Len(items) \in Nat
  BY JobFacts
<1>2. \A k \in 1 .. Len(items) : items[k] \in Senders(items)
  BY <1>1, Zenon DEF Senders
<1>3. ASSUME s \in Senders(items), s \notin fr,
             \A r \in Senders(items) : FirstIndex(items, r) < FirstIndex(items, s) => r \in fr
      PROVE  \E i \in 1 .. Len(items) :
                 /\ items[i] = s /\ s \notin fr
                 /\ \A k \in 1 .. Len(items) : k < i => items[k] \in fr
  <2>1. /\ FirstIndex(items, s) \in 1 .. Len(items) /\ items[FirstIndex(items, s)] = s
    BY <1>3, FirstIndexFacts, Zenon
  <2>2. ASSUME NEW k \in 1 .. Len(items), k < FirstIndex(items, s)
        PROVE  items[k] \in fr
    <3>1. FirstIndex(items, items[k]) \in 1 .. Len(items) /\ FirstIndex(items, items[k]) <= k
      BY <1>2, FirstIndexFacts, ZenonT(30)
    <3>2. FirstIndex(items, items[k]) < FirstIndex(items, s)
      BY <1>1, <2>1, <2>2, <3>1
    <3>3. QED
      BY <1>2, <1>3, <3>2, Zenon
  <2>3. QED
    BY <1>3, <2>1, <2>2, Zenon
<1>4. ASSUME NEW i \in 1 .. Len(items), items[i] = s, s \notin fr,
             \A k \in 1 .. Len(items) : k < i => items[k] \in fr
      PROVE  /\ s \in Senders(items)
             /\ \A r \in Senders(items) :
                    FirstIndex(items, r) < FirstIndex(items, s) => r \in fr
  <2>1. s \in Senders(items)
    BY <1>2, <1>4, Zenon
  <2>2. FirstIndex(items, s) \in 1 .. Len(items) /\ FirstIndex(items, s) <= i
    BY <1>4, <2>1, FirstIndexFacts, Zenon
  <2>3. ASSUME NEW r \in Senders(items), FirstIndex(items, r) < FirstIndex(items, s)
        PROVE  r \in fr
    <3>1. FirstIndex(items, r) \in 1 .. Len(items) /\ items[FirstIndex(items, r)] = r
      BY FirstIndexFacts, Zenon
    <3>2. FirstIndex(items, r) < i
      BY <1>1, <2>2, <2>3, <3>1
    <3>3. QED
      BY <1>4, <3>1, <3>2, Zenon
  <2>4. QED
    BY <2>1, <2>3, Zenon
<1>5. QED
  BY <1>3, <1>4, Zenon

\* The first sender in a call that is not free waits on an operation or on a
\* record that is not unknown.
Waits(j, fr, held, undecided) ==
    \E i \in 1 .. Len(j.items) :
        /\ j.items[i] \notin fr
        /\ \A k \in 1 .. Len(j.items) : k < i => j.items[k] \in fr
        /\ j.items[i] \in held \cup undecided

FreeSenders == {s \in Sender : Free(s)}
Held == {s \in Sender : active[s] # None}
Pending == {s \in Sender : \E e \in RecordsOf(s) : records[e].status # "unknown"}

LEMMA WaitsMeans ==
    TypeOK => \A t \in Task : MustWait(t) <=> Waits(job[t], FreeSenders, Held, Pending)
<1> SUFFICES ASSUME TypeOK, NEW t \in Task
             PROVE  MustWait(t) <=> Waits(job[t], FreeSenders, Held, Pending)
  BY Zenon
<1> DEFINE items == job[t].items
<1>1. job[t] \in Job
  BY Zenon DEF TypeOK
<1>2. /\ DOMAIN items = 1 .. Len(items) /\ Senders(items) \subseteq Sender
      /\ Senders(items) = {items[i] : i \in 1 .. Len(items)}
  BY <1>1, JobFacts, Zenon DEF Senders
<1>3. \A s \in Sender : /\ s \in FreeSenders <=> Free(s)
                        /\ s \in Held <=> active[s] # None
                        /\ s \in Pending <=> \E e \in RecordsOf(s) : records[e].status # "unknown"
  BY Zenon DEF FreeSenders, Held, Pending
<1>4. \A s \in Sender :
          IsBlocker(t, s) <=>
              /\ s \in Senders(items) /\ s \notin FreeSenders
              /\ \A r \in Senders(items) :
                     FirstIndex(items, r) < FirstIndex(items, s) => r \in FreeSenders
  BY <1>2, <1>3, Zenon DEF IsBlocker
<1>5. \A s \in Sender :
          IsBlocker(t, s) <=>
              \E i \in 1 .. Len(items) :
                  /\ items[i] = s /\ s \notin FreeSenders
                  /\ \A k \in 1 .. Len(items) : k < i => items[k] \in FreeSenders
  BY <1>1, <1>4, FirstOutside, Zenon
<1>6. MustWait(t) <=>
          \E s \in Senders(items) : IsBlocker(t, s) /\ s \in Held \cup Pending
  BY <1>2, <1>3, Zenon DEF MustWait
<1>7. QED
  BY <1>2, <1>5, <1>6, Zenon DEF Waits

\* What a step does that lets no sleeper go: what is free may be taken by an
\* operation, and what blocks stays.
Blocking ==
    /\ \A s \in Sender : Free(s)' => Free(s)
    /\ \A s \in Sender : Free(s) => Free(s)' \/ active'[s] # None
    /\ \A s \in Sender : active[s] # None => active'[s] # None
    /\ \A e \in Envelope :
           /\ records[e].status \in {"prepared", "reconciling"} =>
                  records'[e].status \in {"prepared", "reconciling"}
           /\ records[e].status = "reconciling" => records'[e].status = "reconciling"

LEMMA WaitsKept ==
    ASSUME NEW j \in Job, NEW fr, NEW held, NEW undecided, NEW fr1, NEW held1, NEW undecided1,
           Waits(j, fr, held, undecided),
           fr1 \subseteq fr, held \subseteq held1, undecided \subseteq undecided1,
           fr \subseteq fr1 \cup held1
    PROVE  Waits(j, fr1, held1, undecided1)
<1> DEFINE items == j.items
<1>1. Len(items) \in Nat
  BY JobFacts
<1>2. PICK i \in 1 .. Len(items) :
          /\ items[i] \notin fr /\ items[i] \in held \cup undecided
          /\ \A k \in 1 .. Len(items) : k < i => items[k] \in fr
  BY Zenon DEF Waits
<1> DEFINE out == {k \in 1 .. Len(items) : items[k] \notin fr1}
<1>3. i \in out /\ out \subseteq Nat /\ out # {}
  <2>1. i \in out
    BY <1>2, Zenon
  <2>2. out \subseteq Nat
    BY <1>1
  <2>3. QED
    BY <2>1, <2>2, Zenon
<1>4. PICK m \in out : \A k \in out : m <= k
  BY <1>3, LeastOne, Zenon
<1>5. m \in 1 .. Len(items) /\ items[m] \notin fr1
  BY <1>4, Zenon
<1>6. m = i \/ m < i
  BY <1>1, <1>3, <1>4
<1>7. items[m] \in held1 \cup undecided1
  BY <1>2, <1>5, <1>6, Zenon
<1>8. \A k \in 1 .. Len(items) : k < m => items[k] \in fr1
  BY <1>1, <1>4
<1> HIDE DEF out
<1>9. QED
  BY <1>5, <1>7, <1>8, Zenon DEF Waits

LEMMA MustWaitKept ==
    ASSUME TypeOK, TypeOK', NEW u \in Task, MustWait(u), job'[u] = job[u], Blocking
    PROVE  MustWait(u)'
<1>1. Waits(job[u], FreeSenders, Held, Pending) /\ job[u] \in Job
  BY WaitsMeans, Zenon DEF TypeOK
<1>2. FreeSenders' \subseteq FreeSenders /\ Held \subseteq Held'
  BY Zenon DEF FreeSenders, Held, Blocking
<1>3. FreeSenders \subseteq FreeSenders' \cup Held'
  BY Zenon DEF FreeSenders, Held, Blocking
<1>4. Pending \subseteq Pending'
  <2>1. ASSUME NEW e \in Envelope, records[e].status \notin {"none", "unknown"}
        PROVE  records'[e].status \notin {"none", "unknown"}
    BY <2>1, ZenonT(60) DEF Blocking, TypeOK, Record
  <2>2. QED
    BY <2>1, Zenon DEF Pending, RecordsOf
<1>5. Waits(job[u], FreeSenders', Held', Pending')
  BY <1>1, <1>2, <1>3, <1>4, WaitsKept, Zenon
<1>6. (TypeOK => \A t \in Task : MustWait(t) <=> Waits(job[t], FreeSenders, Held, Pending))'
  BY WaitsMeans, PTL
<1>7. MustWait(u)' <=> Waits(job'[u], FreeSenders', Held', Pending')
  BY <1>6, Zenon DEF Waits
<1>8. QED
  BY <1>5, <1>7, Zenon

\* Whoever still sleeps after such a step slept before it, on the same thing.
LEMMA SleepersKept ==
    ASSUME IInv, IInv', SleepsOnlyBlocked, Blocking, job' = job, asleep' \subseteq asleep,
           \A u \in asleep' : pc'[u] = pc[u] /\ claimed'[u] = claimed[u]
    PROVE  SleepsOnlyBlocked'
<1>1. ASSUME NEW u \in asleep'
      PROVE  \/ pc'[u] = "admit" /\ MustWait(u)'
             \/ pc'[u] = "submit" /\ records'[claimed'[u]].status = "reconciling"
  <2>1. u \in asleep /\ u \in Task /\ pc'[u] = pc[u] /\ claimed'[u] = claimed[u]
    BY <1>1, Zenon DEF IInv, TypeOK
  <2>2. CASE pc[u] = "admit" /\ MustWait(u)
    <3>1. MustWait(u)'
      BY <2>1, <2>2, MustWaitKept, Zenon DEF IInv
    <3>2. QED
      BY <2>1, <2>2, <3>1, Zenon
  <2>3. CASE pc[u] = "submit" /\ records[claimed[u]].status = "reconciling"
    <3>1. claimed[u] \in Envelope
      BY <2>1, <2>3, Zenon DEF IInv, Phases, Submitting
    <3>2. QED
      BY <2>1, <2>3, <3>1, Zenon DEF Blocking
  <2>4. QED
    BY <2>1, <2>2, <2>3, Zenon DEF SleepsOnlyBlocked
<1>2. QED
  BY <1>1, Zenon DEF SleepsOnlyBlocked

\* Everybody is notified.
LEMMA AllAwake ==
    ASSUME asleep' = {}
    PROVE  SleepsOnlyBlocked'
BY Zenon DEF SleepsOnlyBlocked

LEMMA SameBlocks ==
    ASSUME UNCHANGED <<active, records>>
    PROVE  Blocking
BY Zenon DEF Blocking, Free, RecordsOf

\* Steps of a task that is awake and that notifies nobody, for it releases
\* nothing.
LEMMA AwakeSleepers ==
    ASSUME IInv, IInv', SleepsOnlyBlocked, NEW t \in Task, t \notin asleep,
           Blocking, job' = job, asleep' = asleep,
           \A u \in Task \ {t} : pc'[u] = pc[u] /\ claimed'[u] = claimed[u]
    PROVE  SleepsOnlyBlocked'
<1>1. \A u \in asleep' : u \in Task \ {t}
  BY Zenon DEF IInv, TypeOK
<1>2. QED
  BY <1>1, SleepersKept, Zenon

\* A call starts, reads a nonce, chooses an envelope to recover or talks to the
\* node.
LEMMA QuietSleepers ==
    ASSUME IInv, IInv', SleepsOnlyBlocked, NEW t \in Task,
           \/ Broadcast(t) \/ LookupAbsent(t) \/ Dispatch(t)
           \/ \E e \in Envelope : Recover(t, e)
           \/ \E s \in Sender, n \in 0 .. MaxNonce : ReadNonce(t, s, n)
    PROVE  SleepsOnlyBlocked'
<1>1. t \notin asleep
  <2>1. pc[t] = "idle" \/ t \notin asleep
    BY Zenon DEF Broadcast, LookupAbsent, Dispatch, Recover, ReadNonce, At, Called
  <2>2. QED
    BY <2>1, Zenon DEF IInv, Phases
<1>2. UNCHANGED <<active, records, job, asleep>>
  BY Zenon DEF Broadcast, LookupAbsent, Dispatch, Recover, ReadNonce, stateVars, callVars
<1>3. \A u \in Task \ {t} : pc'[u] = pc[u] /\ claimed'[u] = claimed[u]
  <2>1. \E p : pc' = [pc EXCEPT ![t] = p]
    BY Zenon DEF Broadcast, LookupAbsent, Dispatch, Recover, ReadNonce, GoTo
  <2>2. claimed' = claimed \/ \E e : claimed' = [claimed EXCEPT ![t] = e]
    BY Zenon DEF Broadcast, LookupAbsent, Dispatch, Recover, ReadNonce, submitVars
  <2>3. QED
    BY <2>1, <2>2, Zenon DEF IInv, TypeOK
<1>4. QED
  BY <1>1, <1>2, <1>3, SameBlocks, AwakeSleepers, Zenon

\* Only the task that calls changes its call.
LEMMA CallSleepers ==
    ASSUME IInv, IInv', SleepsOnlyBlocked, NEW t \in Task, NEW j \in Job, Call(t, j)
    PROVE  SleepsOnlyBlocked'
<1>1. Blocking /\ asleep' = asleep /\ asleep \subseteq Task \ {t}
  BY SameBlocks, ZenonT(60) DEF Call, Called, stateVars, IInv, TypeOK, Phases
<1>2. \A u \in Task \ {t} : pc'[u] = pc[u] /\ claimed'[u] = claimed[u] /\ job'[u] = job[u]
  BY Zenon DEF Call, GoTo, submitVars, IInv, TypeOK
<1>3. ASSUME NEW u \in asleep, u \in Task \ {t}
      PROVE  \/ pc'[u] = "admit" /\ MustWait(u)'
             \/ pc'[u] = "submit" /\ records'[claimed'[u]].status = "reconciling"
  <2>1. CASE pc[u] = "admit" /\ MustWait(u)
    <3>1. MustWait(u)'
      BY <1>1, <1>2, <1>3, <2>1, MustWaitKept, Zenon DEF IInv
    <3>2. QED
      BY <1>2, <1>3, <2>1, <3>1, Zenon
  <2>2. CASE pc[u] = "submit" /\ records[claimed[u]].status = "reconciling"
    BY <1>2, <1>3, <2>2, Zenon DEF Call, stateVars
  <2>3. QED
    BY <2>1, <2>2, Zenon DEF SleepsOnlyBlocked
<1>4. QED
  BY <1>1, <1>3, Zenon DEF SleepsOnlyBlocked

\* Admission takes free senders.
LEMMA AcquireSleepers ==
    ASSUME IInv, IInv', SleepsOnlyBlocked, NEW t \in Task, Acquire(t)
    PROVE  SleepsOnlyBlocked'
<1>1. /\ records' = records /\ job' = job /\ asleep' = asleep /\ claimed' = claimed
      /\ t \notin asleep
  BY Zenon DEF Acquire, At, callVars, submitVars
<1>2. \A s \in Sender : active'[s] = active[s] \/ active'[s] # None
  BY TaskSenderAssumption, Zenon DEF Acquire
<1>3. \A s \in Sender : active[s] # None => active'[s] # None
  BY <1>2, Zenon
<1>4. \A s \in Sender : RecordsOf(s)' = RecordsOf(s)
  BY <1>1, Zenon DEF RecordsOf
<1>5. Blocking
  BY <1>1, <1>2, <1>3, <1>4, Zenon DEF Blocking, Free
<1>6. \A u \in Task \ {t} : pc'[u] = pc[u]
  BY Zenon DEF Acquire, GoTo, IInv, TypeOK
<1>7. QED
  BY <1>1, <1>5, <1>6, AwakeSleepers, Zenon

\* Registration records envelopes of senders that are held.
LEMMA RegisterSleepers ==
    ASSUME IInv, IInv', SleepsOnlyBlocked, NEW t \in Task, Register(t)
    PROVE  SleepsOnlyBlocked'
<1>1. /\ active' = active /\ job' = job /\ asleep' = asleep /\ t \notin asleep
      /\ pc[t] = "build" /\ records' = Registered(t, t)
  BY Zenon DEF Register, At, callVars
<1>2. \A u \in Task \ {t} : pc'[u] = pc[u] /\ claimed'[u] = claimed[u]
  BY ZenonT(60) DEF Register, GoTo, IInv, TypeOK
<1>3. \A e \in Envelope : /\ Recorded(e) => records'[e] = records[e]
                          /\ Recorded(e)' => Recorded(e) \/ active[e.from] = t
  BY <1>1, EntriesFacts, RegisteredFacts, Zenon
<1>4. \A s \in Sender : /\ RecordsOf(s)' = {} => RecordsOf(s) = {}
                        /\ RecordsOf(s) = {} => RecordsOf(s)' = {} \/ active[s] = t
  BY <1>3, ZenonT(60) DEF RecordsOf, Recorded
<1>5. Blocking
  <2>1. \A s \in Sender : (Free(s)' => Free(s)) /\ (Free(s) => Free(s)')
    BY <1>1, <1>4, TaskSenderAssumption, Zenon DEF Free
  <2>2. QED
    BY <1>1, <1>3, <2>1, Zenon DEF Blocking, Recorded
<1>6. QED
  BY <1>1, <1>2, <1>5, AwakeSleepers, Zenon

\* A claim makes its record reconciling, and frees nobody.
LEMMA ClaimSleepers ==
    ASSUME IInv, IInv', SleepsOnlyBlocked, NEW t \in Task, Claim(t)
    PROVE  SleepsOnlyBlocked'
<1> DEFINE e == claimed[t]
<1>1. /\ active' = active /\ job' = job /\ asleep' = asleep /\ claimed' = claimed
      /\ t \notin asleep /\ e \in Envelope /\ records \in [Envelope -> Record]
      /\ records[e].status \in {"prepared", "unknown"}
      /\ records' = [records EXCEPT ![e].status = "reconciling"]
  BY Zenon DEF Claim, At, callVars, IInv, TypeOK, Phases, Submitting
<1>2. \A u \in Task \ {t} : pc'[u] = pc[u]
  BY Zenon DEF Claim, GoTo, IInv, TypeOK
<1>3. /\ \A f \in Envelope \ {e} : records'[f] = records[f]
      /\ records'[e].status = "reconciling"
  BY <1>1, Zenon DEF Record
<1>4. \A s \in Sender : Free(s)' <=> Free(s)
  <2>1. \A f \in Envelope : records'[f].status # "none" <=> records[f].status # "none"
    BY <1>1, <1>3, Zenon
  <2>2. \A s \in Sender : RecordsOf(s)' = RecordsOf(s)
    BY <2>1, Zenon DEF RecordsOf
  <2>3. QED
    BY <1>1, <2>2, Zenon DEF Free
<1>5. Blocking
  BY <1>1, <1>3, <1>4, Zenon DEF Blocking
<1>6. QED
  BY <1>1, <1>2, <1>5, AwakeSleepers, ZenonT(60)

\* A task goes to sleep on what it has just found in its way.
LEMMA WaitSleepers ==
    ASSUME IInv, IInv', SleepsOnlyBlocked, NEW t \in Task, AdmitWait(t) \/ ClaimWait(t)
    PROVE  SleepsOnlyBlocked'
<1>1. /\ UNCHANGED <<active, records, job, pc, claimed>> /\ asleep' = asleep \cup {t}
      /\ \/ pc[t] = "admit" /\ MustWait(t)
         \/ pc[t] = "submit" /\ records[claimed[t]].status = "reconciling"
  BY Zenon DEF AdmitWait, ClaimWait, At, stateVars, callVars, submitVars
<1>2. \A u \in asleep \cup {t} :
          \/ pc[u] = "admit" /\ MustWait(u)
          \/ pc[u] = "submit" /\ records[claimed[u]].status = "reconciling"
  BY <1>1, Zenon DEF SleepsOnlyBlocked
<1>3. \A u \in Task : MustWait(u) => MustWait(u)'
  BY <1>1, SameBlocks, MustWaitKept, Zenon DEF IInv
<1>4. t \in Task /\ asleep \subseteq Task
  BY Zenon DEF IInv, TypeOK
<1>5. QED
  BY <1>1, <1>2, <1>3, <1>4, ZenonT(60) DEF SleepsOnlyBlocked

\* A submission that ends in silence leaves what others sleep on.
LEMMA SilentSleepers ==
    ASSUME IInv, IInv', SleepsOnlyBlocked, NEW t \in Task, ClaimMissing(t) \/ CancelWait(t)
    PROVE  SleepsOnlyBlocked'
<1>1. /\ job' = job
      /\ \/ asleep' = {}
         \/ UNCHANGED <<active, records>> /\ asleep' = asleep \ {t}
  <2>1. CASE CancelWait(t) /\ pc[t] = "admit"
    BY <2>1, Zenon DEF CancelWait, callVars
  <2>2. CASE ~ (CancelWait(t) /\ pc[t] = "admit")
    <3>1. PICK kind : EndSubmit(t, records, kind, FALSE)
      BY <2>2, Zenon DEF ClaimMissing, CancelWait
    <3>2. /\ records' = IF via[t] = "batch" THEN Finished(t, records) ELSE records
          /\ active' = IF via[t] = "batch" THEN Released(t) ELSE active
          /\ asleep' = IF via[t] = "batch" \/ FALSE THEN {} ELSE asleep \ {t}
      BY <3>1, Zenon DEF EndSubmit
    <3>3. job' = job
      BY Zenon DEF ClaimMissing, CancelWait, callVars
    <3>4. QED
      BY <3>2, <3>3, Zenon
  <2>3. QED
    BY <2>1, <2>2, Zenon
<1>2. \A u \in Task \ {t} : pc'[u] = pc[u] /\ claimed'[u] = claimed[u]
  <2>1. pc' = [pc EXCEPT ![t] = "idle"] /\ claimed' = [claimed EXCEPT ![t] = None]
    BY Zenon DEF ClaimMissing, CancelWait, EndSubmit, Return, GoTo
  <2>2. QED
    BY <2>1, Zenon DEF IInv, TypeOK
<1>3. CASE asleep' = {}
  BY <1>3, AllAwake, Zenon
<1>4. CASE UNCHANGED <<active, records>> /\ asleep' = asleep \ {t}
  <2>1. asleep' \subseteq asleep /\ \A u \in asleep' : u \in Task \ {t}
    BY <1>4, Zenon DEF IInv, TypeOK
  <2>2. QED
    BY <1>1, <1>2, <1>4, <2>1, SameBlocks, SleepersKept, ZenonT(60)
<1>5. QED
  BY <1>1, <1>3, <1>4, Zenon

LEMMA NextSleepers ==
    ASSUME IInv, IInv', SleepsOnlyBlocked, [Next]_vars
    PROVE  SleepsOnlyBlocked'
<1>1. ASSUME NEW t \in Task, Step(t) PROVE SleepsOnlyBlocked'
  <2>1. ASSUME NEW j \in Job, Call(t, j) PROVE SleepsOnlyBlocked'
    BY <2>1, CallSleepers, Zenon
  <2>2. CASE Broadcast(t)
    BY <2>2, QuietSleepers, Zenon
  <2>3. CASE Prepares(t)
    <3>1. CASE \/ \E e \in Envelope : Recover(t, e)
               \/ \E s \in Sender, n \in 0 .. MaxNonce : ReadNonce(t, s, n)
      BY <3>1, QuietSleepers, Zenon
    <3>2. CASE Acquire(t)
      BY <3>2, AcquireSleepers, Zenon
    <3>3. CASE AdmitWait(t)
      BY <3>3, WaitSleepers, Zenon
    <3>4. CASE Register(t)
      BY <3>4, RegisterSleepers, Zenon
    <3>5. CASE DetachOne(t) \/ \E s \in Sender, n \in 0 .. MaxNonce : NoncesExhausted(t, s, n)
      BY <3>5, AllAwake, Zenon DEF DetachOne, NoncesExhausted, Abort
    <3>6. QED
      BY <2>3, <3>1, <3>2, <3>3, <3>4, <3>5, ZenonT(30) DEF Prepares
  <2>4. CASE Submits(t)
    <3>1. CASE Claim(t)
      BY <3>1, ClaimSleepers, ZenonT(60)
    <3>2. CASE ClaimWait(t)
      BY <3>2, WaitSleepers, Zenon
    <3>3. CASE ClaimMissing(t)
      BY <3>3, SilentSleepers, Zenon
    <3>4. CASE LookupFound(t) \/ AnswerOk(t)
      BY <3>4, AllAwake, Zenon DEF LookupFound, AnswerOk, Accept
    <3>5. CASE LookupAbsent(t) \/ Dispatch(t)
      BY <3>5, QuietSleepers, Zenon
    <3>6. QED
      BY <2>4, <3>1, <3>2, <3>3, <3>4, <3>5, ZenonT(30) DEF Submits
  <2>5. CASE Fails(t)
    <3>1. CASE PreparationFails(t)
      BY <3>1, AllAwake, ZenonT(60) DEF PreparationFails, Abort
    <3>2. CASE LookupFails(t) \/ AnswerUnclear(t) \/ Refuse(t)
      BY <3>2, AllAwake, ZenonT(60) DEF LookupFails, AnswerUnclear, Refuse, Undecided, EndSubmit
    <3>3. CASE CancelWait(t)
      BY <3>3, SilentSleepers, Zenon
    <3>4. QED
      BY <2>5, <3>1, <3>2, <3>3, Zenon DEF Fails
  <2>6. QED
    BY <1>1, <2>1, <2>2, <2>3, <2>4, <2>5, ZenonT(60) DEF Step
<1>2. CASE (\E e \in Envelope : Deliver(e)) \/ Quiet \/ UNCHANGED vars
  <2>1. UNCHANGED <<active, records, job, pc, claimed, asleep>>
    BY <1>2, Zenon DEF Deliver, Quiet, vars, stateVars, callVars, submitVars
  <2>2. QED
    BY <2>1, SameBlocks, SleepersKept, Zenon
<1>3. QED
  BY <1>1, <1>2, Zenon DEF Next

\* Admission is sound for any senders, callers and calls: an operation keeps
\* every sender of its call through all its awaits, and no wakeup is lost, as
\* whoever sleeps in admission or in claim is blocked at that moment.
THEOREM AdmissionIsSound == Spec => []AdmissionSound
<1>1. Init => SleepsOnlyBlocked
  BY Zenon DEF Init, SleepsOnlyBlocked
<1>2. IInv /\ IInv' /\ SleepsOnlyBlocked /\ [Next]_vars => SleepsOnlyBlocked'
  BY NextSleepers, Zenon
<1>3. Spec => []SleepsOnlyBlocked
  BY <1>1, <1>2, InductiveInvariant, PTL DEF Spec
<1>4. AdmissionKept /\ SleepsOnlyBlocked => AdmissionSound
  BY Zenon DEF AdmissionSound
<1>5. QED
  BY <1>3, <1>4, AdmissionKeptAlways, PTL

-----------------------------------------------------------------------------
(* Batches go out in order, and what is reported rejected never left.      *)
(*                                                                         *)
(* IInv does not give these.  The order of a batch concerns entries that   *)
(* are no longer recorded, after the batch has ended as well; a rejection  *)
(* is a promise about what every other task does later.  Ordered and Told  *)
(* say, for one task, what its own steps establish and no other task can   *)
(* undo.                                                                   *)

\* The envelope may have left, or was claimed once and is not settled.
Tried(e) == e \in sent \/ InFlight(e)

\* The entries of a task's last batch are its own payments, item by item; what
\* the cursor has passed is accepted, and an entry is tried only after all
\* before it were.  What it broadcasts by itself is a first item.
Ordered(t) ==
    /\ \A i \in 1 .. Len(entries[t]) : entries[t][i].payment = t /\ entries[t][i].item = i
    /\ signed[t] # None => signed[t].item = 1
    /\ via[t] = "single" => claimed[t].item = 1
    /\ via[t] = "batch" => \A k \in 1 .. cursor[t] : entries[t][k] \in accepted
    /\ \A i \in 1 .. Len(entries[t]) :
          Tried(entries[t][i]) => \A k \in 1 .. i - 1 : entries[t][k] \in accepted

\* A call has a result only when it is over.  An envelope that is about to be
\* claimed and was not prepared by an earlier call is untried, and a rejected one
\* is neither sent nor recorded.
Told(t) ==
    /\ pc[t] # "idle" => result[t].kind = "none"
    /\ pc[t] = "submit" /\ via[t] \in {"batch", "single"} /\ claimed[t] # signed[t] =>
          ~ Tried(claimed[t])
    /\ result[t].kind = "rejected" =>
          /\ result[t].id \in Envelope /\ result[t].id.payment = t
          /\ result[t].id # signed[t] => result[t].id \notin sent /\ ~ Recorded(result[t].id)

OInv == \A t \in Task : Ordered(t) /\ Told(t)

\* What a step of another task leaves alone: the locals of u, and the envelopes
\* that pay for u.
Still(u) ==
    /\ pc'[u] = pc[u] /\ via'[u] = via[u] /\ entries'[u] = entries[u]
    /\ cursor'[u] = cursor[u] /\ claimed'[u] = claimed[u] /\ signed'[u] = signed[u]
    /\ result'[u] = result[u]
Untouched(u) ==
    \A e \in Envelope : e.payment = u =>
        /\ Tried(e)' => Tried(e)
        /\ Recorded(e)' => Recorded(e)
        /\ e \in sent' => e \in sent \/ Recorded(e)

\* Nothing is sent, and records only go.
Shrinks ==
    /\ sent' = sent
    /\ accepted \subseteq accepted'
    /\ \A e \in Envelope : (Recorded(e)' => Recorded(e)) /\ (InFlight(e)' => InFlight(e))

-----------------------------------------------------------------------------

LEMMA EnvelopesOf ==
    ASSUME IInv, NEW u \in Task
    PROVE  /\ entries[u] \in Seq(Envelope) /\ Len(entries[u]) \in Nat /\ cursor[u] \in Nat
           /\ \A i \in 1 .. Len(entries[u]) : entries[u][i] \in Envelope
           /\ via[u] \in {"batch", "single"} =>
                  claimed[u] \in Envelope /\ claimed[u].payment = u
<1>1. entries[u] \in Seq(Envelope) /\ cursor[u] \in Nat
  BY Zenon DEF IInv, TypeOK
<1>2. Len(entries[u]) \in Nat /\ \A i \in 1 .. Len(entries[u]) : entries[u][i] \in Envelope
  BY <1>1
<1>3. CASE via[u] = "batch"
  <2>1. claimed[u] = entries[u][cursor[u] + 1] /\ cursor[u] < Len(entries[u])
    BY <1>3, Zenon DEF IInv, Batches
  <2>2. cursor[u] + 1 \in 1 .. Len(entries[u])
    BY <1>1, <1>2, <2>1
  <2>3. \A i \in 1 .. Len(entries[u]) : entries[u][i].payment = u
    BY <1>3, Zenon DEF IInv, Batches
  <2>4. claimed[u] \in Envelope /\ claimed[u].payment = u
    BY <1>2, <2>1, <2>2, <2>3, Zenon
  <2>5. QED
    BY <1>1, <1>2, <2>4, Zenon
<1>4. CASE via[u] = "single"
  BY <1>1, <1>2, <1>4, Zenon DEF IInv, Phases
<1>5. QED
  BY <1>1, <1>2, <1>3, <1>4, Zenon

LEMMA ShrinksUntouched ==
    ASSUME Shrinks
    PROVE  \A u \in Task : Untouched(u)
BY Zenon DEF Shrinks, Untouched, Tried

\* The order of a task's entries stays while none of its envelopes is tried anew.
LEMMA OrderedKept ==
    ASSUME IInv, NEW u \in Task, Ordered(u), entries'[u] = entries[u],
           via'[u] = "batch" => via[u] = "batch" /\ cursor'[u] = cursor[u],
           signed'[u] = None \/ signed'[u].item = 1,
           via'[u] = "single" => claimed'[u].item = 1,
           accepted \subseteq accepted',
           \A e \in Envelope : e.payment = u /\ Tried(e)' => Tried(e)
    PROVE  Ordered(u)'
<1> DEFINE q == entries[u]
<1>1. \A i \in 1 .. Len(q) : q[i] \in Envelope /\ q[i].payment = u /\ q[i].item = i
  BY EnvelopesOf, Zenon DEF Ordered
<1>2. \A i \in 1 .. Len(q) : Tried(q[i]) => \A k \in 1 .. i - 1 : q[k] \in accepted
  BY Zenon DEF Ordered
<1>3. via[u] = "batch" => \A k \in 1 .. cursor[u] : q[k] \in accepted
  BY Zenon DEF Ordered
<1>4. entries'[u] = q
  BY Zenon
<1> HIDE DEF q
<1>5. ASSUME NEW i \in 1 .. Len(q),
             q[i] \in sent' \/ records'[q[i]].status \in {"unknown", "reconciling"}
      PROVE  \A k \in 1 .. i - 1 : q[k] \in accepted'
  <2>1. Tried(q[i])
    <3>1. \A e \in Envelope :
              e \in sent' \/ records'[e].status \in {"unknown", "reconciling"} => Tried(e)'
      BY Zenon DEF Tried, InFlight
    <3>2. QED
      BY <1>1, <1>5, <3>1, Zenon
  <2>2. QED
    BY <1>2, <2>1, Zenon
<1>6. via'[u] = "batch" => \A k \in 1 .. cursor'[u] : q[k] \in accepted'
  BY <1>3, Zenon
<1>7. QED
  BY <1>1, <1>4, <1>5, <1>6, Zenon DEF Ordered, Tried, InFlight

\* What was told stays true while its envelopes are untouched.
LEMMA ToldKept ==
    ASSUME IInv, NEW u \in Task, Told(u), Still(u), Untouched(u)
    PROVE  Told(u)'
<1>1. ASSUME pc[u] = "submit", via[u] \in {"batch", "single"}, claimed[u] # signed[u]
      PROVE  /\ claimed[u] \notin sent'
             /\ records'[claimed[u]].status \notin {"unknown", "reconciling"}
  <2>1. claimed[u] \in Envelope /\ claimed[u].payment = u /\ ~ Tried(claimed[u])
    BY <1>1, EnvelopesOf, Zenon DEF Told
  <2>2. \A e \in Envelope :
            e \in sent' \/ records'[e].status \in {"unknown", "reconciling"} => Tried(e)'
    BY Zenon DEF Tried, InFlight
  <2>3. QED
    BY <2>1, <2>2, Zenon DEF Untouched
<1>2. ASSUME result[u].kind = "rejected", result[u].id # signed[u]
      PROVE  result[u].id \notin sent' /\ records'[result[u].id].status = "none"
  <2>1. /\ result[u].id \in Envelope /\ result[u].id.payment = u
        /\ result[u].id \notin sent /\ ~ Recorded(result[u].id)
    BY <1>2, Zenon DEF Told
  <2>2. \A e \in Envelope : records'[e].status # "none" => Recorded(e)'
    BY Zenon DEF Recorded
  <2>3. QED
    BY <2>1, <2>2, Zenon DEF Untouched
<1>3. /\ pc'[u] = pc[u] /\ via'[u] = via[u] /\ claimed'[u] = claimed[u]
      /\ signed'[u] = signed[u] /\ result'[u] = result[u]
  BY Zenon DEF Still
<1>4. QED
  BY <1>1, <1>2, <1>3, Zenon DEF Told, Tried, InFlight, Recorded

\* A step keeps OInv when its task keeps its part and it touches no other.
LEMMA Assembled ==
    ASSUME IInv, OInv, NEW t \in Task, accepted \subseteq accepted',
           \A u \in Task \ {t} : Still(u) /\ Untouched(u),
           Ordered(t)', Told(t)'
    PROVE  OInv'
<1>1. ASSUME NEW u \in Task \ {t}
      PROVE  Ordered(u)' /\ Told(u)'
  <2>1. Ordered(u) /\ Told(u) /\ Still(u) /\ Untouched(u)
    BY Zenon DEF OInv
  <2>2. Told(u)'
    BY <2>1, ToldKept, Zenon
  <2>3. /\ entries'[u] = entries[u] /\ via'[u] = via[u] /\ cursor'[u] = cursor[u]
        /\ signed'[u] = signed[u] /\ claimed'[u] = claimed[u]
    BY <2>1, Zenon DEF Still
  <2>4. \A e \in Envelope : e.payment = u /\ Tried(e)' => Tried(e)
    BY <2>1, Zenon DEF Untouched
  <2>5. (signed[u] = None \/ signed[u].item = 1) /\ (via[u] = "single" => claimed[u].item = 1)
    BY <2>1, Zenon DEF Ordered
  <2>6. Ordered(u)'
    BY <2>1, <2>3, <2>4, <2>5, OrderedKept, Zenon
  <2>7. QED
    BY <2>2, <2>6, Zenon
<1>2. QED
  BY <1>1, Zenon DEF OInv

-----------------------------------------------------------------------------
(* The steps of a task.                                                    *)

\* A call ends without an acceptance: nothing is promised unless it is rejected.
LEMMA EndsOrder ==
    ASSUME IInv, NEW t \in Task, Ordered(t), Shrinks,
           entries'[t] = entries[t], signed'[t] = signed[t],
           pc'[t] = "idle", via'[t] = "none",
           result'[t].kind = "rejected" =>
               /\ result'[t].id \in Envelope /\ result'[t].id.payment = t
               /\ result'[t].id # signed[t] =>
                      result'[t].id \notin sent /\ records'[result'[t].id].status = "none"
    PROVE  Ordered(t)' /\ Told(t)'
<1>1. accepted \subseteq accepted' /\ sent' = sent
  BY Zenon DEF Shrinks
<1>2. \A e \in Envelope : e.payment = t /\ Tried(e)' => Tried(e)
  BY Zenon DEF Shrinks, Tried
<1>3. signed'[t] = None \/ signed'[t].item = 1
  BY Zenon DEF Ordered
<1>4. Ordered(t)'
  BY <1>1, <1>2, <1>3, OrderedKept, Zenon
<1>5. Told(t)'
  BY <1>1, Zenon DEF Told, Recorded
<1>6. QED
  BY <1>4, <1>5, Zenon

\* A call goes on with the envelope it had.
LEMMA OnwardOrder ==
    ASSUME IInv, NEW t \in Task, Ordered(t), Told(t), Still(t) \/ pc'[t] # "submit",
           pc[t] # "idle", Untouched(t), accepted \subseteq accepted',
           entries'[t] = entries[t], cursor'[t] = cursor[t], via'[t] = via[t],
           claimed'[t] = claimed[t], signed'[t] = signed[t], result'[t] = result[t]
    PROVE  Ordered(t)' /\ Told(t)'
<1>1. \A e \in Envelope : e.payment = t /\ Tried(e)' => Tried(e)
  BY Zenon DEF Untouched
<1>2. /\ signed'[t] = None \/ signed'[t].item = 1
      /\ via'[t] = "single" => claimed'[t].item = 1
  BY Zenon DEF Ordered
<1>3. Ordered(t)'
  BY <1>1, <1>2, OrderedKept, Zenon
<1>4. CASE Still(t)
  BY <1>3, <1>4, ToldKept, Zenon
<1>5. CASE pc'[t] # "submit"
  <2>1. result'[t].kind = "none"
    BY Zenon DEF Told
  <2>2. Told(t)'
    BY <1>5, <2>1, Zenon DEF Told
  <2>3. QED
    BY <1>3, <2>2, Zenon
<1>6. QED
  BY <1>4, <1>5, Zenon

\* A step that leaves records, bytes and acceptances alone.
LEMMA QuietShrinks ==
    ASSUME UNCHANGED <<records, sent, accepted>>
    PROVE  Shrinks
BY Zenon DEF Shrinks, Recorded, InFlight

LEMMA CallOrder ==
    ASSUME IInv, OInv, NEW t \in Task, NEW j \in Job, Call(t, j)
    PROVE  OInv'
<1> USE DEF Call, Called, GoTo, stateVars, submitVars, nodeVars
<1>1. Shrinks /\ accepted \subseteq accepted'
  BY QuietShrinks, Zenon
<1>2. \A u \in Task \ {t} : Still(u)
  BY Zenon DEF Still, IInv, TypeOK
<1>3. /\ entries'[t] = << >> /\ via'[t] = "none" /\ signed'[t] = signed[t]
      /\ pc'[t] = "admit" /\ result'[t] = NoResult
  BY Zenon DEF IInv, TypeOK, Phases, Submitting
<1>4. signed[t] # None => signed[t].item = 1
  BY Zenon DEF OInv, Ordered
<1>5. 1 .. Len(<< >>) = {}
  OBVIOUS
<1>6. Ordered(t)'
  BY <1>3, <1>4, <1>5, Zenon DEF Ordered
<1>7. Told(t)'
  <2>1. NoResult.kind = "none"
    BY DEF NoResult
  <2>2. QED
    BY <1>3, <2>1, Zenon DEF Told
<1>8. QED
  BY <1>1, <1>2, <1>6, <1>7, ShrinksUntouched, Assembled, ZenonT(30)

LEMMA BroadcastOrder ==
    ASSUME IInv, OInv, NEW t \in Task, Broadcast(t)
    PROVE  OInv'
<1> USE DEF Broadcast, Called, GoTo, stateVars, prepareVars, nodeVars
<1>1. Shrinks /\ accepted \subseteq accepted'
  BY QuietShrinks, Zenon
<1>2. \A u \in Task \ {t} : Still(u)
  BY Zenon DEF Still, IInv, TypeOK
<1>3. /\ entries'[t] = entries[t] /\ via'[t] = "single" /\ signed'[t] = signed[t]
      /\ claimed'[t] = signed[t] /\ result'[t] = NoResult
  BY Zenon DEF IInv, TypeOK
<1>4. signed[t].item = 1 /\ Ordered(t)
  BY Zenon DEF OInv, Ordered
<1>5. \A e \in Envelope : e.payment = t /\ Tried(e)' => Tried(e)
  BY <1>1, Zenon DEF Shrinks, Tried
<1>6. Ordered(t)'
  BY <1>1, <1>3, <1>4, <1>5, OrderedKept, ZenonT(30)
<1>7. Told(t)'
  <2>1. NoResult.kind = "none"
    BY DEF NoResult
  <2>2. QED
    BY <1>3, <2>1, Zenon DEF Told
<1>8. QED
  BY <1>1, <1>2, <1>6, <1>7, ShrinksUntouched, Assembled, ZenonT(30)

\* Steps that move one call on and touch no envelope.
LEMMA OnwardStep ==
    ASSUME IInv, OInv, NEW t \in Task,
           \/ Acquire(t) \/ AdmitWait(t) \/ ClaimWait(t) \/ LookupAbsent(t)
           \/ \E s \in Sender, n \in 0 .. MaxNonce : ReadNonce(t, s, n)
    PROVE  OInv'
<1> USE DEF Acquire, AdmitWait, ClaimWait, LookupAbsent, ReadNonce, At, GoTo, stateVars,
            prepareVars, callVars, submitVars, nodeVars
<1>1. /\ UNCHANGED <<records, sent, accepted, entries, cursor, via, claimed, signed, result>>
      /\ pc[t] # "idle"
  BY Zenon
<1>2. Shrinks /\ accepted \subseteq accepted'
  BY <1>1, QuietShrinks, Zenon
<1>3. pc' = pc \/ \E p \in {"nonces", "build", "wire"} : pc' = [pc EXCEPT ![t] = p]
  BY Zenon
<1>4. \A u \in Task \ {t} : Still(u)
  BY <1>1, <1>3, ZenonT(30) DEF Still, IInv, TypeOK
<1>5. Still(t) \/ pc'[t] # "submit"
  BY <1>1, <1>3, ZenonT(30) DEF Still, IInv, TypeOK
<1>6. Ordered(t) /\ Told(t)
  BY Zenon DEF OInv
<1>7. Ordered(t)' /\ Told(t)'
  BY <1>1, <1>2, <1>5, <1>6, ShrinksUntouched, OnwardOrder, ZenonT(30)
<1>8. QED
  BY <1>2, <1>4, <1>7, ShrinksUntouched, Assembled, ZenonT(30)

\* Admission submits an envelope of somebody else.
LEMMA RecoverOrder ==
    ASSUME IInv, OInv, NEW t \in Task, NEW e \in Envelope, Recover(t, e)
    PROVE  OInv'
<1> USE DEF Recover, At, GoTo, stateVars, prepareVars, callVars, nodeVars
<1>1. Shrinks /\ accepted \subseteq accepted'
  BY QuietShrinks, Zenon
<1>2. \A u \in Task \ {t} : Still(u)
  BY Zenon DEF Still, IInv, TypeOK
<1>3. /\ entries'[t] = entries[t] /\ via'[t] = "admit" /\ signed'[t] = signed[t]
      /\ result'[t] = result[t] /\ pc[t] = "admit"
  BY Zenon DEF IInv, TypeOK
<1>4. /\ Ordered(t) /\ (signed[t] = None \/ signed[t].item = 1)
      /\ result[t].kind = "none"
  BY <1>3, Zenon DEF OInv, Ordered, Told
<1>5. \A f \in Envelope : f.payment = t /\ Tried(f)' => Tried(f)
  BY <1>1, Zenon DEF Shrinks, Tried
<1>6. Ordered(t)'
  BY <1>1, <1>3, <1>4, <1>5, OrderedKept, Zenon
<1>7. Told(t)'
  BY <1>3, <1>4, Zenon DEF Told
<1>8. QED
  BY <1>1, <1>2, <1>6, <1>7, ShrinksUntouched, Assembled, ZenonT(30)

\* What a call is about to register was never tried: it is above the floor, and
\* its senders have no records.
LEMMA EntriesUntried ==
    ASSUME IInv, NEW t \in Task, pc[t] = "build", NEW f \in EntrySet(t)
    PROVE  f \in Envelope /\ f.payment = t /\ ~ Tried(f) /\ ~ Recorded(f)
<1>1. f \in Envelope /\ ~ Recorded(f) /\ floor[f.from] <= f.nonce
  BY EntriesFacts, Zenon
<1>2. f.payment = t
  <2>1. PICK i \in 1 .. Len(Entries(t)) : f = Entries(t)[i]
    BY EntriesFacts
  <2>2. QED
    BY <2>1, EntriesFacts, ZenonT(30)
<1>3. ~ InFlight(f)
  BY <1>1, Zenon DEF InFlight, Recorded
<1>4. f \notin accepted
  <2>1. f.nonce \in Int /\ floor[f.from] \in Int
    BY <1>1, NoncesFacts, Zenon DEF IInv
  <2>2. QED
    BY <1>1, <2>1, SMTT(30) DEF IInv, Floors
<1>5. QED
  BY <1>1, <1>2, <1>3, <1>4, Zenon DEF IInv, OpenFateRetained, Tried

LEMMA EntriesItems ==
    ASSUME IInv, NEW t \in Task
    PROVE  \A i \in 1 .. Len(job[t].items) : Entries(t)[i].item = i
<1>1. DOMAIN job[t].items = 1 .. Len(job[t].items)
  BY JobFacts, Zenon DEF IInv, TypeOK
<1>2. QED
  BY <1>1 DEF Entries

\* Registration prepares envelopes of its task and tries none.
LEMMA RegisteredUntouched ==
    ASSUME IInv, NEW t \in Task, pc[t] = "build", NEW op \in Task \cup {None},
           records' = Registered(t, op), sent' = sent
    PROVE  /\ \A u \in Task \ {t} : Untouched(u)
           /\ \A e \in Envelope : Tried(e)' => Tried(e)
<1>1. \A e \in Envelope : /\ InFlight(e)' => InFlight(e)
                          /\ Recorded(e)' => Recorded(e) \/ e \in EntrySet(t)
  BY RegisteredFacts, Zenon
<1>2. \A e \in Envelope : Tried(e)' => Tried(e)
  BY <1>1, Zenon DEF Tried
<1>3. \A e \in EntrySet(t) : e.payment = t
  BY EntriesUntried, Zenon
<1>4. QED
  BY <1>1, <1>2, <1>3, Zenon DEF Untouched

LEMMA RegisterOrder ==
    ASSUME IInv, OInv, NEW t \in Task, Register(t)
    PROVE  OInv'
<1> DEFINE q == Entries(t)
<1>1. /\ pc[t] = "build" /\ records' = Registered(t, t)
      /\ UNCHANGED <<sent, accepted, cursor, signed, result>>
  BY Zenon DEF Register, At, callVars, nodeVars
<1>2. \A u \in Task \ {t} : Still(u)
  BY <1>1, Zenon DEF Register, GoTo, Still, IInv, TypeOK
<1>3. /\ entries'[t] = q /\ claimed'[t] = q[1] /\ via'[t] = "batch" /\ pc'[t] = "submit"
      /\ signed'[t] = signed[t] /\ result'[t] = result[t] /\ cursor'[t] = 0
  BY <1>1, ZenonT(30) DEF Register, GoTo, IInv, TypeOK, Phases
<1>4. /\ Len(q) \in Nat \ {0}
      /\ \A i \in 1 .. Len(q) : q[i] \in EntrySet(t)
      /\ \A i \in 1 .. Len(q) : q[i].payment = t /\ q[i].item = i
  <2>1. Len(q) = Len(job[t].items) /\ Len(q) \in Nat \ {0}
    BY <1>1, EntriesFacts, Zenon
  <2>2. EntrySet(t) = {q[i] : i \in 1 .. Len(q)} /\ \A i \in 1 .. Len(q) : q[i].payment = t
    BY <1>1, EntriesFacts, Zenon
  <2>3. \A i \in 1 .. Len(q) : q[i].item = i
    BY <2>1, EntriesItems, Zenon
  <2>4. QED
    BY <2>1, <2>2, <2>3, Zenon
<1> HIDE DEF q
<1>5. \A i \in 1 .. Len(q) : /\ q[i] \notin sent'
                             /\ records'[q[i]].status \notin {"unknown", "reconciling"}
  <2>1. \A e \in Envelope : Tried(e)' => Tried(e)
    BY <1>1, RegisteredUntouched, Zenon
  <2>2. \A i \in 1 .. Len(q) : q[i] \in Envelope /\ ~ Tried(q[i])
    BY <1>1, <1>4, EntriesUntried, Zenon
  <2>3. \A e \in Envelope :
            e \in sent' \/ records'[e].status \in {"unknown", "reconciling"} => Tried(e)'
    BY ZenonT(30) DEF Tried, InFlight
  <2>4. QED
    BY <2>1, <2>2, <2>3, Zenon
<1>6. 1 \in 1 .. Len(q) /\ 1 .. 0 = {}
  BY <1>4, Indices, Zenon
<1>7. /\ signed[t] # None => signed[t].item = 1
      /\ result[t].kind = "none"
  BY <1>1, Zenon DEF OInv, Ordered, Told
<1>8. Ordered(t)'
  BY <1>3, <1>4, <1>5, <1>6, <1>7, ZenonT(30) DEF Ordered, Tried, InFlight
<1>9. Told(t)'
  BY <1>3, <1>5, <1>6, <1>7, Zenon DEF Told, Tried, InFlight
<1>10. QED
  BY <1>1, <1>2, <1>8, <1>9, RegisteredUntouched, Assembled, ZenonT(30)

LEMMA DetachOrder ==
    ASSUME IInv, OInv, NEW t \in Task, DetachOne(t)
    PROVE  OInv'
<1> DEFINE e == Entries(t)[1]
<1>1. /\ pc[t] = "build" /\ records' = Registered(t, None)
      /\ UNCHANGED <<sent, accepted, cursor, entries>>
  BY Zenon DEF DetachOne, At, prepareVars, nodeVars
<1>2. \A u \in Task \ {t} : Still(u)
  <2>1. CASE job[t].kind = "prepare"
    <3>1. /\ pc' = [pc EXCEPT ![t] = "idle"] /\ via' = [via EXCEPT ![t] = "none"]
          /\ claimed' = [claimed EXCEPT ![t] = None] /\ signed' = [signed EXCEPT ![t] = e]
          /\ result' = [result EXCEPT ![t] = [kind |-> "prepared", id |-> e]]
      BY <2>1, Zenon DEF DetachOne, Return, GoTo
    <3>2. QED
      BY <1>1, <3>1, Zenon DEF Still, IInv, TypeOK
  <2>2. CASE job[t].kind # "prepare"
    BY <1>1, <2>2, ZenonT(60) DEF DetachOne, GoTo, Still, IInv, TypeOK
  <2>3. QED
    BY <2>1, <2>2, Zenon
<1>3. e \in EntrySet(t) /\ e.item = 1
  <2>1. Len(job[t].items) = Len(Entries(t)) /\ Len(Entries(t)) \in Nat \ {0}
    BY <1>1, EntriesFacts, Zenon
  <2>2. 1 \in 1 .. Len(job[t].items)
    BY <2>1
  <2>3. EntrySet(t) = {Entries(t)[i] : i \in 1 .. Len(job[t].items)}
    BY <1>1, <2>1, EntriesFacts, Zenon
  <2>4. QED
    BY <2>2, <2>3, EntriesItems, Zenon
<1> HIDE DEF e
<1>4. e \notin sent' /\ records'[e].status \notin {"unknown", "reconciling"}
  <2>1. \A f \in Envelope : Tried(f)' => Tried(f)
    BY <1>1, RegisteredUntouched, Zenon
  <2>2. e \in Envelope /\ ~ Tried(e)
    BY <1>1, <1>3, EntriesUntried, ZenonT(30)
  <2>3. \A f \in Envelope :
            f \in sent' \/ records'[f].status \in {"unknown", "reconciling"} => Tried(f)'
    BY Zenon DEF Tried, InFlight
  <2>4. QED
    BY <2>1, <2>2, <2>3, Zenon
<1>5. Ordered(t) /\ result[t].kind = "none" /\ (signed[t] = None \/ signed[t].item = 1)
  BY <1>1, Zenon DEF OInv, Ordered, Told
<1>6. \A f \in Envelope : f.payment = t /\ Tried(f)' => Tried(f)
  BY <1>1, RegisteredUntouched, Zenon
<1>7. CASE job[t].kind = "prepare"
  <2>1. /\ pc'[t] = "idle" /\ via'[t] = "none" /\ signed'[t] = e
        /\ result'[t] = [kind |-> "prepared", id |-> e]
    <3>1. /\ pc' = [pc EXCEPT ![t] = "idle"] /\ via' = [via EXCEPT ![t] = "none"]
          /\ signed' = [signed EXCEPT ![t] = e]
          /\ result' = [result EXCEPT ![t] = [kind |-> "prepared", id |-> e]]
      BY <1>7, Zenon DEF DetachOne, Return, GoTo, e
    <3>2. QED
      BY <3>1, Zenon DEF IInv, TypeOK
  <2>2. entries'[t] = entries[t] /\ accepted \subseteq accepted'
    BY <1>1, Zenon
  <2>3. Ordered(t)'
    BY <1>3, <1>5, <1>6, <2>1, <2>2, OrderedKept, ZenonT(30)
  <2>4. [kind |-> "prepared", id |-> e].kind = "prepared"
    OBVIOUS
  <2>5. Told(t)'
    BY <2>1, <2>4, ZenonT(60) DEF Told
  <2>6. QED
    BY <1>1, <1>2, <2>3, <2>5, RegisteredUntouched, Assembled, ZenonT(30)
<1>8. CASE job[t].kind # "prepare"
  <2>1. /\ pc'[t] = "submit" /\ via'[t] = "single" /\ claimed'[t] = e
        /\ signed'[t] = signed[t] /\ result'[t] = result[t]
    BY <1>8, ZenonT(60) DEF DetachOne, GoTo, IInv, TypeOK, e
  <2>2. entries'[t] = entries[t] /\ accepted \subseteq accepted'
    BY <1>1, Zenon
  <2>3. Ordered(t)'
    BY <1>3, <1>5, <1>6, <2>1, <2>2, OrderedKept, Zenon
  <2>4. Told(t)'
    BY <1>4, <1>5, <2>1, Zenon DEF Told, Tried, InFlight
  <2>5. QED
    BY <1>1, <1>2, <2>3, <2>4, RegisteredUntouched, Assembled, Zenon
<1>9. QED
  BY <1>7, <1>8, Zenon

\* A first claim is on the entry at the cursor, or on a first item; a later one
\* is on what was tried before.
LEMMA ClaimOrder ==
    ASSUME IInv, OInv, NEW t \in Task, Claim(t)
    PROVE  OInv'
<1> DEFINE e == claimed[t]
<1>1. /\ pc[t] = "submit" /\ e \in Envelope /\ records \in [Envelope -> Record]
      /\ records[e].status \in {"prepared", "unknown"}
      /\ records' = [records EXCEPT ![e].status = "reconciling"]
      /\ UNCHANGED <<sent, accepted, entries, cursor, via, claimed, signed, result>>
  BY Zenon DEF Claim, At, prepareVars, callVars, nodeVars, IInv, TypeOK, Phases, Submitting
<1>2. /\ pc'[t] \in {"lookup", "wire"}
      /\ \A u \in Task \ {t} : pc'[u] = pc[u]
  BY Zenon DEF Claim, GoTo, IInv, TypeOK
<1>3. \A f \in Envelope : /\ Recorded(f)' <=> Recorded(f)
                          /\ f # e => (InFlight(f)' <=> InFlight(f))
  BY <1>1, Zenon DEF Record, Recorded, InFlight
<1>4. \A f \in Envelope : Tried(f)' => Tried(f) \/ f = e
  BY <1>1, <1>3, Zenon DEF Tried
<1>5. (via[t] \in {"batch", "single"} /\ e.payment = t) \/ Tried(e)
  <2>1. CASE via[t] \in {"batch", "single"}
    BY <2>1, EnvelopesOf, Zenon
  <2>2. CASE via[t] = "admit"
    BY <2>2, Zenon DEF IInv, TypeOK, Recoveries, Tried
  <2>3. via[t] \in {"admit", "batch", "single"}
    BY <1>1, Zenon DEF IInv, TypeOK, Phases, Submitting
  <2>4. QED
    BY <2>1, <2>2, <2>3, Zenon
<1>6. \A u \in Task \ {t} : Still(u) /\ Untouched(u)
  <2>1. \A u \in Task \ {t} : Still(u)
    BY <1>1, <1>2, Zenon DEF Still
  <2>2. \A u \in Task \ {t} : Untouched(u)
    BY <1>1, <1>3, <1>4, <1>5, ZenonT(30) DEF Untouched
  <2>3. QED
    BY <2>1, <2>2, Zenon
<1>7. Ordered(t) /\ Told(t)
  BY Zenon DEF OInv
<1>8. ASSUME NEW i \in 1 .. Len(entries[t]), entries[t][i] = e, ~ Tried(e)
      PROVE  \A k \in 1 .. i - 1 : entries[t][k] \in accepted
  <2>1. entries[t][i].item = i /\ i \in Nat
    BY <1>7, EnvelopesOf DEF Ordered
  <2>2. CASE via[t] = "batch"
    <3>1. e = entries[t][cursor[t] + 1] /\ cursor[t] < Len(entries[t])
      BY <2>2, Zenon DEF IInv, Batches
    <3>2. cursor[t] \in Nat /\ Len(entries[t]) \in Nat
      BY EnvelopesOf, ZenonT(30)
    <3>3. cursor[t] + 1 \in 1 .. Len(entries[t])
      BY <3>1, <3>2, Indices, Zenon
    <3>4. i = cursor[t] + 1
      BY <1>7, <1>8, <2>1, <3>1, <3>3, ZenonT(30) DEF Ordered
    <3>5. i - 1 = cursor[t]
      BY <3>2, <3>4, Indices, Zenon
    <3>6. \A k \in 1 .. cursor[t] : entries[t][k] \in accepted
      BY <1>7, <2>2, ZenonT(30) DEF Ordered
    <3>7. QED
      BY <3>5, <3>6, Zenon
  <2>3. CASE via[t] = "single"
    <3>1. i = 1
      BY <1>7, <1>8, <2>1, <2>3, ZenonT(30) DEF Ordered
    <3>2. QED
      BY <3>1, Indices, Zenon
  <2>4. QED
    BY <1>5, <1>8, <2>2, <2>3, ZenonT(30)
<1>9. Ordered(t)'
  <2>1. ASSUME NEW i \in 1 .. Len(entries[t]),
               entries[t][i] \in sent'
                   \/ records'[entries[t][i]].status \in {"unknown", "reconciling"}
        PROVE  \A k \in 1 .. i - 1 : entries[t][k] \in accepted
    <3>1. entries[t][i] \in Envelope
      BY EnvelopesOf, Zenon
    <3>2. Tried(entries[t][i]) \/ entries[t][i] = e
      <4>1. \A f \in Envelope :
                f \in sent' \/ records'[f].status \in {"unknown", "reconciling"} => Tried(f)'
        BY Zenon DEF Tried, InFlight
      <4>2. QED
        BY <1>4, <2>1, <3>1, <4>1, Zenon
    <3>3. CASE Tried(entries[t][i])
      BY <1>7, <3>3, Zenon DEF Ordered
    <3>4. CASE entries[t][i] = e /\ ~ Tried(e)
      BY <1>8, <3>4, Zenon
    <3>5. QED
      BY <3>2, <3>3, <3>4, ZenonT(30)
  <2>2. QED
    BY <1>1, <1>7, <2>1, ZenonT(30) DEF Ordered, Tried, InFlight
<1>10. Told(t)'
  <2>1. result[t].kind = "none"
    BY <1>1, <1>7, Zenon DEF Told
  <2>2. QED
    BY <1>1, <1>2, <2>1, Zenon DEF Told
<1>11. QED
  BY <1>1, <1>6, <1>9, <1>10, Assembled, Zenon

\* Only what is claimed goes out.
LEMMA DispatchOrder ==
    ASSUME IInv, OInv, NEW t \in Task, Dispatch(t)
    PROVE  OInv'
<1>1. /\ pc[t] = "wire" /\ sent' = sent \cup {claimed[t]}
      /\ UNCHANGED <<records, accepted, entries, cursor, via, claimed, signed, result>>
  BY Zenon DEF Dispatch, At, stateVars, prepareVars, callVars, submitVars
<1>2. pc'[t] = "answer" /\ \A u \in Task \ {t} : Still(u)
  BY <1>1, Zenon DEF Dispatch, GoTo, Still, IInv, TypeOK
<1>3. InFlight(claimed[t]) /\ Recorded(claimed[t])
  BY <1>1, Zenon DEF IInv, Claims, Claiming, InFlight, Recorded
<1>4. \A u \in Task : Untouched(u)
  <2>1. \A e \in Envelope : /\ InFlight(e)' <=> InFlight(e)
                            /\ Recorded(e)' <=> Recorded(e)
    BY <1>1, Zenon DEF InFlight, Recorded
  <2>2. QED
    BY <1>1, <1>3, <2>1, Zenon DEF Untouched, Tried
<1>5. Ordered(t) /\ Told(t)
  BY Zenon DEF OInv
<1>6. Ordered(t)' /\ Told(t)'
  BY <1>1, <1>2, <1>4, <1>5, OnwardOrder, Zenon
<1>7. QED
  BY <1>1, <1>2, <1>4, <1>6, Assembled, Zenon

\* A submission ends without acceptance.
LEMMA LeavesOrder ==
    ASSUME IInv, OInv, NEW t \in Task, Leaves(t),
           result'[t].kind = "rejected" =>
               /\ result'[t].id \in Envelope /\ result'[t].id.payment = t
               /\ result'[t].id # signed[t] =>
                      result'[t].id \notin sent /\ records'[result'[t].id].status = "none"
    PROVE  OInv'
<1>1. PICK kind \in {"rejected", "ambiguous", "failed"}, id \in Envelope \cup {None} :
          Return(t, kind, id)
  BY Zenon DEF Leaves
<1>2. UNCHANGED <<sent, accepted, entries, cursor, signed>>
  BY Zenon DEF Leaves, prepareVars, callVars, nodeVars
<1>3. \A e \in Envelope : (Recorded(e)' => Recorded(e)) /\ (InFlight(e)' => Recorded(e)')
  BY Zenon DEF Leaves, Recorded, InFlight
<1>4. Shrinks
  BY <1>2, <1>3, Zenon DEF Leaves, Shrinks
<1>5. pc'[t] = "idle" /\ via'[t] = "none" /\ \A u \in Task \ {t} : Still(u)
  BY <1>1, <1>2, Zenon DEF Return, GoTo, Still, IInv, TypeOK
<1>6. Ordered(t)' /\ Told(t)'
  BY <1>2, <1>4, <1>5, EndsOrder, ZenonT(30) DEF OInv
<1>7. QED
  BY <1>2, <1>4, <1>5, <1>6, ShrinksUntouched, Assembled, ZenonT(30)

\* How a submission is reported when it ends without acceptance.
LEMMA EndSubmitResult ==
    ASSUME IInv, NEW t \in Task, Submitting(t), NEW recs, NEW kind, NEW notified,
           EndSubmit(t, recs, kind, notified)
    PROVE  /\ result'[t].kind \in {kind, "failed"} /\ result'[t].id = claimed[t]
           /\ result'[t].kind # "failed" => via[t] # "admit"
           /\ via[t] # "admit" => claimed[t] \in Envelope /\ claimed[t].payment = t
<1> DEFINE told == [kind |-> IF via[t] = "admit" THEN "failed" ELSE kind, id |-> claimed[t]]
<1>1. result' = [result EXCEPT ![t] = told]
  BY Zenon DEF EndSubmit, Return
<1>2. result'[t] = told
  BY <1>1, Zenon DEF IInv, TypeOK
<1>3. told.kind = (IF via[t] = "admit" THEN "failed" ELSE kind) /\ told.id = claimed[t]
  BY Zenon
<1>4. via[t] # "admit" => via[t] \in {"batch", "single"}
  BY ZenonT(60) DEF IInv, TypeOK, Phases
<1> HIDE DEF told
<1>5. result'[t].kind \in {kind, "failed"} /\ (result'[t].kind # "failed" => via[t] # "admit")
  BY <1>2, <1>3, Zenon
<1>6. QED
  BY <1>2, <1>3, <1>4, <1>5, EnvelopesOf, Zenon

\* A missing reservation is reported for what an earlier call prepared, or for
\* what was never tried.
LEMMA ClaimMissingOrder ==
    ASSUME IInv, OInv, NEW t \in Task, ClaimMissing(t)
    PROVE  OInv'
<1> DEFINE e == claimed[t]
<1>1. pc[t] = "submit" /\ Submitting(t) /\ Leaves(t) /\ ~ Recorded(e)
  BY ClaimMissingLeaves, Zenon DEF ClaimMissing, At, Recorded
<1>2. EndSubmit(t, records, "rejected", FALSE)
  BY Zenon DEF ClaimMissing
<1>3. /\ result'[t].id = e
      /\ result'[t].kind = "rejected" => via[t] # "admit"
      /\ via[t] # "admit" => e \in Envelope /\ e.payment = t
  BY <1>1, <1>2, EndSubmitResult, Zenon
<1>4. e \in Envelope => records'[e].status = "none"
  <2>1. \A f \in Envelope : records'[f].status # "none" => Recorded(f)
    BY <1>1, Zenon DEF Leaves, Recorded
  <2>2. QED
    BY <1>1, <2>1, Zenon
<1>5. via[t] # "admit" /\ e # signed[t] => e \notin sent
  <2>1. via[t] \in {"admit", "batch", "single"}
    BY <1>1, ZenonT(60) DEF IInv, TypeOK, Phases
  <2>2. via[t] # "admit" /\ e # signed[t] => ~ Tried(e)
    BY <1>1, <2>1, Zenon DEF OInv, Told
  <2>3. QED
    BY <2>2, Zenon DEF Tried
<1>6. QED
  BY <1>1, <1>3, <1>4, <1>5, LeavesOrder, Zenon

\* An outcome that stays unknown is not a rejection.
LEMMA UndecidedOrder ==
    ASSUME IInv, OInv, NEW t \in Task, Claiming(t),
           EndSubmit(t, Ambiguous(claimed[t]), "ambiguous", TRUE),
           UNCHANGED <<floor, prepareVars, cursor, callVars, nodeVars, accepted>>
    PROVE  OInv'
<1>1. Leaves(t)
  BY UndecidedLeaves, Zenon
<1>2. Submitting(t)
  BY Zenon DEF Claiming, Submitting
<1>3. result'[t].kind \in {"ambiguous", "failed"}
  BY <1>2, EndSubmitResult, Zenon
<1>4. result'[t].kind # "rejected"
  BY <1>3, Zenon
<1>5. QED
  BY <1>1, <1>4, LeavesOrder, Zenon

\* A first submission that is refused has not left, and its record goes.
LEMMA RefusedOrder ==
    ASSUME IInv, OInv, NEW t \in Task, pc[t] = "wire", ~ recovery[t],
           EndSubmit(t, [records EXCEPT ![claimed[t]] = NoRecord], "rejected", TRUE),
           UNCHANGED <<floor, prepareVars, cursor, callVars, nodeVars, accepted>>
    PROVE  OInv'
<1> DEFINE e == claimed[t]
           recs == [records EXCEPT ![e] = NoRecord]
<1>1. Leaves(t)
  BY RefusedLeaves, Zenon
<1>2. Submitting(t)
  BY Zenon DEF Submitting
<1>3. e \notin sent /\ e \in Envelope /\ records \in [Envelope -> Record]
  BY <1>2, Zenon DEF IInv, TypeOK, Claims, Phases
<1>4. recs \in [Envelope -> Record] /\ recs[e].status = "none"
  BY <1>3, Zenon DEF Record, NoRecord
<1> HIDE DEF recs
<1>5. records' = IF via[t] = "batch" THEN Finished(t, recs) ELSE recs
  BY Zenon DEF EndSubmit, recs
<1>6. Finished(t, recs)[e].status = "none"
  BY <1>3, <1>4, Zenon DEF Finished, NoRecord
<1>7. records'[e].status = "none"
  BY <1>4, <1>5, <1>6, Zenon
<1>8. /\ result'[t].id = e
      /\ result'[t].kind = "rejected" => via[t] # "admit"
      /\ via[t] # "admit" => e \in Envelope /\ e.payment = t
  BY <1>2, EndSubmitResult, Zenon
<1>9. QED
  BY <1>1, <1>3, <1>7, <1>8, LeavesOrder, Zenon

\* A caller that is dropped while it waits is not told anything.
LEMMA CancelOrder ==
    ASSUME IInv, OInv, NEW t \in Task, CancelWait(t)
    PROVE  OInv'
<1>1. pc[t] \in {"admit", "submit"}
  BY Zenon DEF CancelWait, IInv, Phases
<1>2. CASE pc[t] = "submit"
  <2>1. Submitting(t) /\ Leaves(t)
    BY <1>2, ClaimMissingLeaves, Zenon
  <2>2. EndSubmit(t, records, "failed", FALSE)
    BY <1>2, Zenon DEF CancelWait
  <2>3. result'[t].kind \in {"failed", "failed"}
    BY <2>1, <2>2, EndSubmitResult, Zenon
  <2>4. result'[t].kind # "rejected"
    BY <2>3, Zenon
  <2>5. QED
    BY <2>1, <2>4, LeavesOrder, Zenon
<1>3. CASE pc[t] = "admit"
  <2>1. /\ Return(t, "failed", None)
        /\ UNCHANGED <<records, sent, accepted, entries, cursor, signed>>
    BY <1>3, Zenon DEF CancelWait, prepareVars, callVars, nodeVars
  <2>2. Shrinks /\ accepted \subseteq accepted'
    BY <2>1, QuietShrinks, Zenon
  <2>3. /\ pc'[t] = "idle" /\ via'[t] = "none" /\ result'[t] = [kind |-> "failed", id |-> None]
        /\ \A u \in Task \ {t} : Still(u)
    BY <2>1, Zenon DEF Return, GoTo, Still, IInv, TypeOK
  <2>4. [kind |-> "failed", id |-> None].kind # "rejected"
    OBVIOUS
  <2>5. Ordered(t)' /\ Told(t)'
    BY <2>1, <2>2, <2>3, <2>4, EndsOrder, ZenonT(60) DEF OInv
  <2>6. QED
    BY <2>2, <2>3, <2>5, ShrinksUntouched, Assembled, Zenon
<1>4. QED
  BY <1>1, <1>2, <1>3, Zenon

LEMMA AbortOrder ==
    ASSUME IInv, OInv, NEW t \in Task, Abort(t)
    PROVE  OInv'
<1>1. /\ Return(t, "failed", None) /\ records' = Finished(t, records)
      /\ UNCHANGED <<sent, accepted, entries, cursor, signed>>
  BY Zenon DEF Abort, prepareVars, callVars, nodeVars
<1>2. Shrinks /\ accepted \subseteq accepted'
  <2>1. \A e \in Envelope : Recorded(e)' => records'[e] = records[e]
    BY <1>1, FinishedFacts, ZenonT(60) DEF Recorded, IInv, TypeOK
  <2>2. \A e \in Envelope : InFlight(e)' => Recorded(e)'
    BY Zenon DEF InFlight, Recorded
  <2>3. QED
    BY <1>1, <2>1, <2>2, Zenon DEF Shrinks, Recorded, InFlight
<1>3. /\ pc'[t] = "idle" /\ via'[t] = "none" /\ result'[t] = [kind |-> "failed", id |-> None]
      /\ \A u \in Task \ {t} : Still(u)
  BY <1>1, Zenon DEF Return, GoTo, Still, IInv, TypeOK
<1>4. [kind |-> "failed", id |-> None].kind # "rejected"
  OBVIOUS
<1>5. Ordered(t)' /\ Told(t)'
  BY <1>1, <1>2, <1>3, <1>4, EndsOrder, Zenon DEF OInv
<1>6. QED
  BY <1>2, <1>3, <1>5, ShrinksUntouched, Assembled, Zenon

\* Acceptance moves the cursor over the claimed entry; the next one was not
\* tried, as this one was not accepted before.
LEMMA AcceptOrder ==
    ASSUME IInv, OInv, NEW t \in Task, Claiming(t), Accept(t)
    PROVE  OInv'
<1> DEFINE e == claimed[t]
           q == entries[t]
           more == via[t] = "batch" /\ cursor[t] + 1 < Len(q)
<1>1. /\ e \in Envelope /\ records \in [Envelope -> Record] /\ Recorded(e)
      /\ Submitting(t) /\ via[t] \in {"admit", "batch", "single"}
  BY Zenon DEF IInv, TypeOK, Phases, Submitting, Claiming, Claims, Recorded
<1>2. /\ records' = [records EXCEPT ![e] = NoRecord]
      /\ accepted' = accepted \cup {e}
      /\ cursor' = [cursor EXCEPT ![t] = IF via[t] = "batch" THEN @ + 1 ELSE @]
      /\ signed' = [signed EXCEPT ![t] = IF @ = e THEN None ELSE @]
      /\ UNCHANGED <<entries, sent>>
  BY Zenon DEF Accept, prepareVars, nodeVars
<1>3. /\ pc' = [pc EXCEPT ![t] = IF more THEN "submit"
                                 ELSE IF via[t] = "admit" THEN "admit" ELSE "idle"]
      /\ via' = [via EXCEPT ![t] = IF more THEN "batch" ELSE "none"]
      /\ claimed' = [claimed EXCEPT ![t] = IF more THEN q[cursor[t] + 2] ELSE None]
      /\ result' = IF via[t] = "admit" \/ more THEN result
                   ELSE [result EXCEPT ![t] = [kind |-> "ok", id |-> e]]
  BY Zenon DEF Accept, Return, GoTo, IInv, TypeOK
<1>4. /\ pc'[t] = (IF more THEN "submit" ELSE IF via[t] = "admit" THEN "admit" ELSE "idle")
      /\ via'[t] = (IF more THEN "batch" ELSE "none")
      /\ claimed'[t] = (IF more THEN q[cursor[t] + 2] ELSE None)
      /\ cursor'[t] = (IF via[t] = "batch" THEN cursor[t] + 1 ELSE cursor[t])
      /\ signed'[t] \in {signed[t], None} /\ entries'[t] = q
  BY <1>2, <1>3, ZenonT(30) DEF IInv, TypeOK
<1>5. \A u \in Task \ {t} : Still(u)
  BY <1>2, <1>3, ZenonT(30) DEF Still, IInv, TypeOK
<1>6. Shrinks /\ accepted \subseteq accepted'
  <2>1. /\ \A f \in Envelope \ {e} : records'[f] = records[f]
        /\ records'[e].status = "none"
    BY <1>1, <1>2, Zenon DEF NoRecord
  <2>2. \A f \in Envelope : (Recorded(f)' => Recorded(f)) /\ (InFlight(f)' => InFlight(f))
    BY <2>1, Zenon DEF Recorded, InFlight
  <2>3. QED
    BY <1>2, <2>2, Zenon DEF Shrinks
<1>7. /\ Ordered(t) /\ (signed'[t] = None \/ signed'[t].item = 1)
      /\ result[t].kind = "none"
  BY <1>1, <1>4, ZenonT(60) DEF OInv, Ordered, Told, Submitting
<1>8. \A f \in Envelope : f.payment = t /\ Tried(f)' => Tried(f)
  BY <1>6, Zenon DEF Shrinks, Tried
<1>9. CASE ~ more
  <2>1. Ordered(t)'
    BY <1>4, <1>6, <1>7, <1>8, <1>9, OrderedKept, ZenonT(30)
  <2>2. via[t] = "admit" => result'[t].kind = "none"
    BY <1>3, <1>7, Zenon
  <2>3. via[t] # "admit" => result'[t].kind = "ok"
    <3>1. via[t] # "admit" => result'[t] = [kind |-> "ok", id |-> e]
      BY <1>3, <1>9, ZenonT(30) DEF IInv, TypeOK
    <3>2. [kind |-> "ok", id |-> e].kind = "ok"
      OBVIOUS
    <3>3. QED
      BY <3>1, <3>2, ZenonT(30)
  <2>4. Told(t)'
    BY <1>4, <1>9, <2>2, <2>3, ZenonT(60) DEF Told
  <2>5. QED
    BY <1>5, <1>6, <2>1, <2>4, ShrinksUntouched, Assembled, Zenon
<1>10. CASE more
  <2>1. /\ e = q[cursor[t] + 1] /\ cursor[t] \in Nat /\ Len(q) \in Nat
        /\ cursor[t] + 1 < Len(q) /\ via[t] = "batch"
    BY <1>10, EnvelopesOf, ZenonT(30) DEF IInv, Batches
  <2>2. /\ cursor[t] + 1 \in 1 .. (cursor[t] + 2) - 1 /\ cursor[t] + 2 \in 1 .. Len(q)
        /\ \A k \in 1 .. cursor[t] + 1 : k \in 1 .. cursor[t] \/ k = cursor[t] + 1
    BY <2>1, SMTT(30)
  <2>3. e \notin accepted
    <3>1. e.nonce \in Int /\ floor[e.from] \in Int
      BY <1>1 DEF IInv, TypeOK, Envelope
    <3>2. QED
      BY <1>1, <3>1, SMTT(30) DEF IInv, Floors
  <2>4. q[cursor[t] + 2] \in Envelope /\ ~ Tried(q[cursor[t] + 2])
    BY <1>7, <2>1, <2>2, <2>3, EnvelopesOf, ZenonT(30) DEF Ordered
  <2>5. /\ q[cursor[t] + 2] \notin sent'
        /\ records'[q[cursor[t] + 2]].status \notin {"unknown", "reconciling"}
    BY <1>6, <2>4, Zenon DEF Shrinks, Tried, InFlight
  <2>6. \A k \in 1 .. cursor[t] + 1 : q[k] \in accepted'
    BY <1>2, <1>7, <2>1, <2>2, ZenonT(30) DEF Ordered
  <2>7. ASSUME NEW i \in 1 .. Len(q),
               q[i] \in sent' \/ records'[q[i]].status \in {"unknown", "reconciling"}
        PROVE  \A k \in 1 .. i - 1 : q[k] \in accepted'
    <3>1. q[i] \in Envelope
      BY EnvelopesOf, Zenon
    <3>2. Tried(q[i])
      BY <1>6, <2>7, <3>1, Zenon DEF Shrinks, Tried, InFlight
    <3>3. QED
      BY <1>6, <1>7, <3>2, Zenon DEF Ordered
  <2>8. /\ via'[t] = "batch" /\ cursor'[t] = cursor[t] + 1 /\ pc'[t] = "submit"
        /\ claimed'[t] = q[cursor[t] + 2] /\ result'[t] = result[t]
    BY <1>3, <1>4, <1>10, <2>1, Zenon
  <2>9. \A i \in 1 .. Len(q) : q[i].payment = t /\ q[i].item = i
    BY <1>7, Zenon DEF Ordered
  <2> HIDE DEF q
  <2>10. Ordered(t)'
    BY <1>4, <1>7, <2>6, <2>7, <2>8, <2>9, ZenonT(30) DEF Ordered, Tried, InFlight
  <2>11. Told(t)'
    BY <1>7, <2>5, <2>8, Zenon DEF Told, Tried, InFlight
  <2>12. QED
    BY <1>5, <1>6, <2>10, <2>11, ShrinksUntouched, Assembled, Zenon
<1>11. QED
  BY <1>9, <1>10, Zenon

-----------------------------------------------------------------------------
(* The theorems on envelopes.                                              *)

LEMMA InitOInv == Init => OInv
<1> SUFFICES ASSUME Init, NEW t \in Task
             PROVE  Ordered(t) /\ Told(t)
  BY Zenon DEF OInv
<1>1. /\ entries[t] = << >> /\ signed[t] = None /\ via[t] = "none" /\ pc[t] = "idle"
      /\ result[t] = NoResult
  BY Zenon DEF Init
<1>2. 1 .. Len(<< >>) = {}
  OBVIOUS
<1>3. NoResult.kind = "none"
  BY DEF NoResult
<1>4. Ordered(t)
  BY <1>1, <1>2, Zenon DEF Ordered
<1>5. Told(t)
  BY <1>1, <1>3, Zenon DEF Told
<1>6. QED
  BY <1>4, <1>5, Zenon

\* A step that leaves all of it alone.
LEMMA OtherOrder ==
    ASSUME OInv,
           UNCHANGED <<records, sent, accepted, pc, via, entries, cursor, claimed, signed,
                       result>>
    PROVE  OInv'
<1> SUFFICES ASSUME NEW u \in Task
             PROVE  Ordered(u)' /\ Told(u)'
  BY Zenon DEF OInv
<1>1. Ordered(u) /\ Told(u)
  BY Zenon DEF OInv
<1>2. Ordered(u)'
  BY <1>1, Zenon DEF Ordered, Tried, InFlight
<1>3. Told(u)'
  BY <1>1, Zenon DEF Told, Tried, InFlight, Recorded
<1>4. QED
  BY <1>2, <1>3, Zenon

LEMMA NextOInv ==
    ASSUME IInv, OInv, [Next]_vars
    PROVE  OInv'
<1>1. ASSUME NEW t \in Task, Step(t) PROVE OInv'
  <2>1. ASSUME NEW j \in Job, Call(t, j) PROVE OInv'
    BY <2>1, CallOrder, Zenon
  <2>2. CASE Broadcast(t)
    BY <2>2, BroadcastOrder, Zenon
  <2>3. CASE Prepares(t)
    <3>1. CASE \/ Acquire(t) \/ AdmitWait(t)
               \/ \E s \in Sender, n \in 0 .. MaxNonce : ReadNonce(t, s, n)
      BY <3>1, OnwardStep, Zenon
    <3>2. ASSUME NEW e \in Envelope, Recover(t, e) PROVE OInv'
      BY <3>2, RecoverOrder, Zenon
    <3>3. ASSUME NEW s \in Sender, NEW n \in 0 .. MaxNonce, NoncesExhausted(t, s, n)
          PROVE  OInv'
      BY <3>3, AbortOrder, ZenonT(60) DEF NoncesExhausted
    <3>4. CASE Register(t)
      BY <3>4, RegisterOrder, Zenon
    <3>5. CASE DetachOne(t)
      BY <3>5, DetachOrder, Zenon
    <3>6. QED
      BY <2>3, <3>1, <3>2, <3>3, <3>4, <3>5, ZenonT(30) DEF Prepares
  <2>4. CASE Submits(t)
    <3>1. CASE Claim(t)
      BY <3>1, ClaimOrder, Zenon
    <3>2. CASE ClaimWait(t) \/ LookupAbsent(t)
      BY <3>2, OnwardStep, ZenonT(30)
    <3>3. CASE ClaimMissing(t)
      BY <3>3, ClaimMissingOrder, Zenon
    <3>4. CASE LookupFound(t) \/ AnswerOk(t)
      BY <3>4, AcceptOrder, ZenonT(30) DEF LookupFound, AnswerOk, At, Claiming
    <3>5. CASE Dispatch(t)
      BY <3>5, DispatchOrder, Zenon
    <3>6. QED
      BY <2>4, <3>1, <3>2, <3>3, <3>4, <3>5, ZenonT(30) DEF Submits
  <2>5. CASE Fails(t)
    <3>1. CASE PreparationFails(t)
      BY <3>1, AbortOrder, ZenonT(60) DEF PreparationFails
    <3>2. CASE LookupFails(t) \/ AnswerUnclear(t)
      <4>1. Claiming(t) /\ Undecided(t)
        BY <3>2, Zenon DEF LookupFails, AnswerUnclear, At, Claiming
      <4>2. QED
        BY <4>1, UndecidedOrder, Zenon DEF Undecided
    <3>3. CASE Refuse(t)
      <4>1. pc[t] = "wire" /\ Claiming(t)
        BY <3>3, Zenon DEF Refuse, At, Claiming
      <4>2. CASE recovery[t]
        BY <3>3, <4>1, <4>2, UndecidedOrder, ZenonT(30) DEF Refuse
      <4>3. CASE ~ recovery[t]
        BY <3>3, <4>1, <4>3, RefusedOrder, ZenonT(30) DEF Refuse
      <4>4. QED
        BY <4>2, <4>3, Zenon
    <3>4. CASE CancelWait(t)
      BY <3>4, CancelOrder, Zenon
    <3>5. QED
      BY <2>5, <3>1, <3>2, <3>3, <3>4, ZenonT(30) DEF Fails
  <2>6. QED
    BY <1>1, <2>1, <2>2, <2>3, <2>4, <2>5, ZenonT(30) DEF Step
<1>2. CASE (\E e \in Envelope : Deliver(e)) \/ Quiet \/ UNCHANGED vars
  BY <1>2, OtherOrder, Zenon
  DEF Deliver, Quiet, vars, stateVars, prepareVars, callVars, submitVars, nodeVars
<1>3. QED
  BY <1>1, <1>2, Zenon DEF Next

\* Batches go out in order, and what is told of an envelope stays true, in every
\* state the coordinator reaches.
THEOREM OrderInvariant == Spec => [](IInv /\ OInv)
<1>1. Init => IInv /\ OInv
  BY InitIInv, InitOInv, Zenon
<1>2. IInv /\ OInv /\ [Next]_vars => IInv' /\ OInv'
  BY NextIInv, NextOInv, Zenon
<1>3. QED
  BY <1>1, <1>2, PTL DEF Spec

\* The envelopes of a sender are accounted for, for any senders, callers, calls
\* and nonces: what may have reached a node is retained until its fate is known,
\* one at most outlives its operation, the bytes of a batch entry leave only
\* after every earlier entry was accepted, and an item reported rejected without
\* an ambiguous ID never leaves, whatever other calls do later.
THEOREM EnvelopesAccounted == Spec => []EnvelopesKept
<1>1. ASSUME IInv, OInv PROVE EnvelopesKept
  <2>1. PrefixAccepted
    <3>1. ASSUME NEW t \in Task, NEW i \in DOMAIN entries[t], entries[t][i] \in sent
          PROVE  \A k \in 1 .. i - 1 : entries[t][k] \in accepted
      <4>1. i \in 1 .. Len(entries[t])
        BY <1>1, EnvelopesOf
      <4>2. Tried(entries[t][i])
        BY <3>1, Zenon DEF Tried
      <4>3. QED
        BY <1>1, <4>1, <4>2, ZenonT(30) DEF OInv, Ordered
    <3>2. QED
      BY <3>1, Zenon DEF PrefixAccepted
  <2>2. RejectedNeverSent
    BY <1>1, Zenon DEF OInv, Told, RejectedNeverSent
  <2>3. OneRetained
    BY <1>1, Zenon DEF IInv, Retained, OneRetained, RecordsOf, Recorded
  <2>4. QED
    BY <1>1, <2>1, <2>2, <2>3, ZenonT(30) DEF EnvelopesKept, IInv
<1>2. QED
  BY <1>1, OrderInvariant, PTL
=============================================================================
