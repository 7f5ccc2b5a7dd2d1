--------------------------- MODULE WalletsProofs ---------------------------
(***************************************************************************)
(* Proofs about Wallets for every set of sync passes, publishers, wallets, *)
(* addresses and blocks.                                                   *)
(***************************************************************************)
EXTENDS Wallets, WellFoundedInduction, TLAPS

\* A non-empty set of naturals has a least element.
LEMMA LeastNatural ==
    ASSUME NEW S, S \subseteq Nat, S # {}
    PROVE  \E m \in S : \A n \in S : m <= n
<1> DEFINE less == {ss \in Nat \X Nat : ss[1] < ss[2]}
<1>1. IsWellFoundedOn(less, Nat)
  BY NatLessThanWellFounded, Zenon DEF OpToRel
<1>2. PICK m \in S : \A n \in S : ~(<<n, m>> \in less)
  <2> HIDE DEF less
  <2> QED BY <1>1, WFMin, Zenon
<1>3. \A n \in S : ~(n < m)
  BY <1>2, Zenon
<1> QED
  BY <1>3

\* filters() loses no address and no birthday: what it returns for a collection
\* inspects the address of each entry from that entry's birthday on.
LEMMA FiltersCover ==
    ASSUME NEW entries \in SUBSET Entry, NEW e \in entries
    PROVE  Covers(Filters(entries), e)
<1> DEFINE all == {FilterOf(v) : v \in entries}
           same == {f \in all : f.address = AddressOf[e.id]}
           starts == {f.start : f \in same}
<1>1. all \subseteq Filter
  BY AddressType DEF Entry, Filter, FilterOf
<1>2. FilterOf(e) \in same
  BY Zenon DEF FilterOf
<1>3. starts \subseteq Nat /\ e.start \in starts
  BY <1>1, <1>2 DEF Filter, FilterOf
<1>4. PICK m \in starts : \A n \in starts : m <= n
  <2> HIDE DEF starts
  <2> QED BY <1>3, LeastNatural, Zenon
<1>5. PICK f \in same : f.start = m
  BY Zenon
<1>6. f \in Filters(entries)
  BY <1>4, <1>5 DEF Filters
<1> QED
  BY <1>3, <1>4, <1>5, <1>6, Zenon DEF Covers

\* What filters() returns are filters.
LEMMA FiltersType ==
    ASSUME NEW entries \in SUBSET Entry
    PROVE  Filters(entries) \in SUBSET Filter
BY AddressType DEF Filters, FilterOf, Entry, Filter

\* A birthday is a position.
LEMMA BirthdayType ==
    ASSUME NEW c \in Checkpoint
    PROVE  Birthday(c) \in Nat
BY PosType DEF Birthday, Checkpoint

\* The placeholder entry of an idle publisher is an entry.
LEMMA SomeEntryType == SomeEntry \in Entry
BY WalletExists, Zenon DEF SomeEntry, Entry

\* The placeholder plan of an idle pass is a plan.
LEMMA NoPlanType == NoPlan \in Plan
BY RevisionBound DEF NoPlan, Plan, Checkpoint

\* A step of a sync pass preserves the inductive invariant.
LEMMA TaskStepInv ==
    ASSUME AdmissionInv, NEW t \in Task, TaskStep(t)
    PROVE  AdmissionInv'
<1>0. UNCHANGED walletVars
  BY Zenon DEF TaskStep
<1>1. ASSUME NEW c \in Checkpoint, PlanLock(t, c)
      PROVE  AdmissionInv'
  <2>1. TypeOK'
    BY <1>0, <1>1, Zenon DEF PlanLock, publisherVars, walletVars, AdmissionInv,
       TypeOK, Plan
  <2>2. Exclusive'
    BY <1>0, <1>1, Zenon DEF PlanLock, publisherVars, walletVars, AdmissionInv,
       TypeOK, Exclusive, Busy, Holding
  <2>3. BirthdayPinned'
    BY <1>0, <1>1, Zenon DEF PlanLock, publisherVars, walletVars, AdmissionInv,
       TypeOK, Exclusive, BirthdayPinned, Busy, Holding
  <2>4. NoLostWakeup'
    BY <1>0, <1>1, Zenon DEF PlanLock, publisherVars, walletVars, AdmissionInv,
       TypeOK, Exclusive, NoLostWakeup, WaitersWait, Busy, Holding
  <2>5. PlanFresh'
    BY <1>0, <1>1 DEF PlanLock, publisherVars, walletVars, AdmissionInv,
       TypeOK, Exclusive, PlanFresh, Plan
  <2>6. (WaitersWait /\ PublishedObserved /\ InFlightApart /\ IdsUnique)'
    BY <1>0, <1>1, Zenon DEF PlanLock, publisherVars, walletVars, AdmissionInv,
       WaitersWait, PublishedObserved, InFlightApart, IdsUnique
  <2> QED
    BY <2>1, <2>2, <2>3, <2>4, <2>5, <2>6, Zenon DEF AdmissionInv
<1>2. ASSUME PlanCapture(t, Filters(values))
      PROVE  AdmissionInv'
  <2>1. TypeOK'
    <3>1. Filters(values) \in SUBSET Filter
      BY FiltersType, Zenon DEF AdmissionInv, TypeOK
    <3>2. [plan[t] EXCEPT !.filters = Filters(values)] \in Plan
      BY <3>1, Zenon DEF AdmissionInv, TypeOK, Plan
    <3>3. plan' = [plan EXCEPT ![t] = [plan[t] EXCEPT !.filters = Filters(values)]]
      BY <1>2, Zenon DEF PlanCapture
    <3> QED
      BY <1>0, <1>2, <3>2, <3>3, Zenon DEF PlanCapture, stateVars, publisherVars,
         walletVars, AdmissionInv, TypeOK
  <2>2. Exclusive'
    BY <1>0, <1>2, Zenon DEF PlanCapture, stateVars, publisherVars, walletVars,
       AdmissionInv, TypeOK, Exclusive, Busy, Holding
  <2>3. PlanFresh'
    <3>1. \A e \in published : Covers(Filters(values), e)
      BY FiltersCover, Zenon DEF AdmissionInv, TypeOK, PublishedObserved
    <3>2. plan'[t].filters = Filters(values) /\ plan'[t].revision = plan[t].revision
      BY <1>2, Zenon DEF PlanCapture, AdmissionInv, TypeOK, Plan
    <3>3. published' = published /\ revision' = revision
      BY <1>0, <1>2, Zenon DEF PlanCapture, stateVars, walletVars
    <3>4. ASSUME NEW u \in Task, u # t
          PROVE  plan'[u] = plan[u] /\ stage'[u] = stage[u]
      BY <1>2, <3>4, Zenon DEF PlanCapture, AdmissionInv, TypeOK
    <3>5. stage'[t] = "captured"
      BY <1>2, Zenon DEF PlanCapture, AdmissionInv, TypeOK
    <3> QED
      BY <3>1, <3>2, <3>3, <3>4, <3>5 DEF AdmissionInv, PlanFresh, Covers
  <2>4. (/\ BirthdayPinned /\ NoLostWakeup /\ WaitersWait
        /\ PublishedObserved /\ InFlightApart /\ IdsUnique)'
    BY <1>0, <1>2, Zenon DEF PlanCapture, stateVars, publisherVars, walletVars,
       AdmissionInv, BirthdayPinned, NoLostWakeup, WaitersWait,
       PublishedObserved, InFlightApart, IdsUnique, Busy, Holding
  <2> QED
    BY <2>1, <2>2, <2>3, <2>4, Zenon DEF AdmissionInv
<1>3. ASSUME PlanCheck(t)
      PROVE  AdmissionInv'
  <2>1. TypeOK'
    BY <1>0, <1>3, Zenon DEF PlanCheck, stateVars, publisherVars, walletVars,
       AdmissionInv, TypeOK
  <2>2. Exclusive'
    BY <1>0, <1>3, Zenon DEF PlanCheck, stateVars, publisherVars, walletVars,
       AdmissionInv, TypeOK, Exclusive, Busy, Holding
  <2>3. PlanFresh'
    BY <1>0, <1>3, Zenon DEF PlanCheck, stateVars, publisherVars, walletVars,
       AdmissionInv, TypeOK, Exclusive, PlanFresh, Plan
  <2>4. (/\ BirthdayPinned /\ NoLostWakeup /\ WaitersWait
        /\ PublishedObserved /\ InFlightApart /\ IdsUnique)'
    BY <1>0, <1>3, Zenon DEF PlanCheck, stateVars, publisherVars, walletVars,
       AdmissionInv, BirthdayPinned, NoLostWakeup, WaitersWait,
       PublishedObserved, InFlightApart, IdsUnique, Busy, Holding
  <2> QED
    BY <2>1, <2>2, <2>3, <2>4, Zenon DEF AdmissionInv
<1>4. ASSUME PlanDrop(t)
      PROVE  AdmissionInv'
  <2>1. TypeOK'
    BY <1>0, <1>4, NoPlanType, Zenon DEF PlanDrop, stateVars, publisherVars,
       walletVars, AdmissionInv, TypeOK
  <2>2. Exclusive'
    BY <1>0, <1>4, Zenon DEF PlanDrop, stateVars, publisherVars, walletVars,
       AdmissionInv, TypeOK, Exclusive, Busy, Holding
  <2>3. PlanFresh'
    BY <1>0, <1>4 DEF PlanDrop, stateVars, publisherVars, walletVars,
       AdmissionInv, TypeOK, Exclusive, PlanFresh, Plan, NoPlan
  <2>4. (/\ BirthdayPinned /\ NoLostWakeup /\ WaitersWait
        /\ PublishedObserved /\ InFlightApart /\ IdsUnique)'
    BY <1>0, <1>4, Zenon DEF PlanDrop, stateVars, publisherVars, walletVars,
       AdmissionInv, BirthdayPinned, NoLostWakeup, WaitersWait,
       PublishedObserved, InFlightApart, IdsUnique, Busy, Holding
  <2> QED
    BY <2>1, <2>2, <2>3, <2>4, Zenon DEF AdmissionInv
<1>5. ASSUME Begin(t)
      PROVE  AdmissionInv'
  <2>1. TypeOK'
    BY <1>0, <1>5, Zenon DEF Begin, CanBegin, publisherVars, walletVars, AdmissionInv,
       TypeOK
  <2>2. Exclusive'
    BY <1>0, <1>5, Zenon DEF Begin, CanBegin, publisherVars, walletVars, AdmissionInv,
       TypeOK, Exclusive, Busy, Holding
  <2>3. NoLostWakeup'
    BY <1>0, <1>5, Zenon DEF Begin, CanBegin, publisherVars, walletVars, AdmissionInv,
       TypeOK, Exclusive, NoLostWakeup, WaitersWait, Busy, Holding
  <2>4. PlanFresh'
    BY <1>0, <1>5, Zenon DEF Begin, CanBegin, publisherVars, walletVars, AdmissionInv,
       TypeOK, Exclusive, PlanFresh, Plan
  <2>5. (/\ BirthdayPinned /\ WaitersWait /\ PublishedObserved
        /\ InFlightApart /\ IdsUnique)'
    BY <1>0, <1>5, Zenon DEF Begin, CanBegin, publisherVars, walletVars, AdmissionInv,
       BirthdayPinned, WaitersWait, PublishedObserved, InFlightApart,
       IdsUnique, Holding
  <2> QED
    BY <2>1, <2>2, <2>3, <2>4, <2>5, Zenon DEF AdmissionInv
<1>6. ASSUME NEW c \in Checkpoint, CommitPersist(t, c)
      PROVE  AdmissionInv'
  <2>1. TypeOK'
    BY <1>0, <1>6, Zenon DEF CommitPersist, taskVars, publisherVars, walletVars,
       AdmissionInv, TypeOK
  <2>2. BirthdayPinned'
    BY <1>0, <1>6, Zenon DEF CommitPersist, taskVars, publisherVars, walletVars,
       AdmissionInv, TypeOK, Exclusive, BirthdayPinned, Busy, Holding
  <2>3. (/\ Exclusive /\ NoLostWakeup /\ WaitersWait /\ PublishedObserved
        /\ PlanFresh /\ InFlightApart /\ IdsUnique)'
    BY <1>0, <1>6, Zenon DEF CommitPersist, taskVars, publisherVars, walletVars,
       AdmissionInv, Exclusive, NoLostWakeup, WaitersWait, PublishedObserved,
       PlanFresh, InFlightApart, IdsUnique, Busy, Holding
  <2> QED
    BY <2>1, <2>2, <2>3, Zenon DEF AdmissionInv
<1>7. ASSUME NEW c \in Checkpoint, CommitComplete(t, c)
      PROVE  AdmissionInv'
  <2>1. TypeOK'
    BY <1>0, <1>7 DEF CommitComplete, Notified, walletVars, AdmissionInv,
       TypeOK, Plan
  <2>2. Exclusive'
    BY <1>0, <1>7, Zenon DEF CommitComplete, Notified, walletVars, AdmissionInv,
       TypeOK, Exclusive, Busy, Holding
  <2>3. BirthdayPinned'
    BY <1>0, <1>7, Zenon DEF CommitComplete, Notified, walletVars, AdmissionInv,
       TypeOK, Exclusive, BirthdayPinned, Busy, Holding
  <2>4. NoLostWakeup'
    BY <1>0, <1>7, Zenon DEF CommitComplete, Notified, walletVars, AdmissionInv,
       TypeOK, Exclusive, NoLostWakeup, WaitersWait, Busy, Holding
  <2>5. WaitersWait'
    BY <1>0, <1>7, Zenon DEF CommitComplete, Notified, walletVars, AdmissionInv,
       TypeOK, WaitersWait, NoLostWakeup
  <2>6. PlanFresh'
    BY <1>0, <1>7 DEF CommitComplete, Notified, walletVars, AdmissionInv,
       TypeOK, Exclusive, PlanFresh, Plan
  <2>7. InFlightApart'
    BY <1>0, <1>7, Zenon DEF CommitComplete, Notified, walletVars, AdmissionInv,
       TypeOK, Exclusive, PublishedObserved, InFlightApart, Holding
  <2>8. (PublishedObserved /\ IdsUnique)'
    BY <1>0, <1>7, Zenon DEF CommitComplete, Notified, walletVars, AdmissionInv,
       PublishedObserved, IdsUnique
  <2> QED
    BY <2>1, <2>2, <2>3, <2>4, <2>5, <2>6, <2>7, <2>8, Zenon DEF AdmissionInv
<1>8. ASSUME CommitDrop(t)
      PROVE  AdmissionInv'
  <2>1. TypeOK'
    BY <1>0, <1>8, NoPlanType, Zenon DEF CommitDrop, Notified, walletVars,
       AdmissionInv, TypeOK
  <2>2. Exclusive'
    BY <1>0, <1>8, Zenon DEF CommitDrop, Notified, walletVars, AdmissionInv, TypeOK,
       Exclusive, Busy, Holding
  <2>3. BirthdayPinned'
    BY <1>0, <1>8, Zenon DEF CommitDrop, Notified, walletVars, AdmissionInv, TypeOK,
       Exclusive, BirthdayPinned, Busy, Holding
  <2>4. NoLostWakeup'
    BY <1>0, <1>8, Zenon DEF CommitDrop, Notified, walletVars, AdmissionInv, TypeOK,
       Exclusive, NoLostWakeup, WaitersWait, Busy, Holding
  <2>5. WaitersWait'
    BY <1>0, <1>8, Zenon DEF CommitDrop, Notified, walletVars, AdmissionInv, TypeOK,
       WaitersWait, NoLostWakeup
  <2>6. PlanFresh'
    BY <1>0, <1>8 DEF CommitDrop, Notified, walletVars, AdmissionInv, TypeOK,
       Exclusive, PlanFresh, Plan, NoPlan
  <2>7. InFlightApart'
    BY <1>0, <1>8, Zenon DEF CommitDrop, Notified, walletVars, AdmissionInv, TypeOK,
       Exclusive, PublishedObserved, InFlightApart, Holding
  <2>8. (PublishedObserved /\ IdsUnique)'
    BY <1>0, <1>8, Zenon DEF CommitDrop, Notified, walletVars, AdmissionInv,
       PublishedObserved, IdsUnique
  <2> QED
    BY <2>1, <2>2, <2>3, <2>4, <2>5, <2>6, <2>7, <2>8, Zenon DEF AdmissionInv
<1> QED
  BY <1>1, <1>2, <1>3, <1>4, <1>5, <1>6, <1>7, <1>8, Zenon DEF TaskStep

\* A step of a publisher that has called publication preserves it.
LEMMA PublisherStepInv ==
    ASSUME AdmissionInv, NEW p \in Publisher, PublisherStep(p)
    PROVE  AdmissionInv'
<1>1. ASSUME PublicationGrant(p), UNCHANGED walletVars
      PROVE  AdmissionInv'
  <2>1. TypeOK'
    BY <1>1, Zenon DEF PublicationGrant, taskVars, walletVars, AdmissionInv, TypeOK,
       Holding, Busy
  <2>2. Exclusive'
    BY <1>1 DEF PublicationGrant, taskVars, walletVars, AdmissionInv, TypeOK,
       Exclusive, Busy, Holding
  <2>3. BirthdayPinned'
    BY <1>1, Zenon DEF PublicationGrant, taskVars, walletVars, AdmissionInv, TypeOK,
       Exclusive, BirthdayPinned, Busy, Holding
  <2>4. NoLostWakeup'
    BY <1>1, Zenon DEF PublicationGrant, taskVars, walletVars, AdmissionInv, TypeOK,
       Exclusive, NoLostWakeup, WaitersWait, Busy, Holding
  <2>5. WaitersWait'
    BY <1>1, Zenon DEF PublicationGrant, taskVars, walletVars, AdmissionInv, TypeOK,
       WaitersWait, NoLostWakeup
  <2>6. InFlightApart'
    BY <1>1, Zenon DEF PublicationGrant, taskVars, walletVars, AdmissionInv, TypeOK,
       Exclusive, PublishedObserved, InFlightApart, Holding
  <2>7. (PublishedObserved /\ PlanFresh /\ IdsUnique)'
    BY <1>1, Zenon DEF PublicationGrant, taskVars, walletVars, AdmissionInv,
       PublishedObserved, PlanFresh, IdsUnique
  <2> QED
    BY <2>1, <2>2, <2>3, <2>4, <2>5, <2>6, <2>7, Zenon DEF AdmissionInv
<1>2. ASSUME PublicationWait(p), UNCHANGED walletVars
      PROVE  AdmissionInv'
  <2>1. TypeOK'
    BY <1>2, Zenon DEF PublicationWait, taskVars, walletVars, AdmissionInv, TypeOK,
       Holding
  <2>2. Exclusive'
    BY <1>2 DEF PublicationWait, taskVars, walletVars, AdmissionInv, TypeOK,
       Exclusive, Busy, Holding
  <2>3. BirthdayPinned'
    BY <1>2, Zenon DEF PublicationWait, taskVars, walletVars, AdmissionInv, TypeOK,
       Exclusive, BirthdayPinned, Busy, Holding
  <2>4. NoLostWakeup'
    BY <1>2 DEF PublicationWait, taskVars, walletVars, AdmissionInv, TypeOK,
       Exclusive, NoLostWakeup, WaitersWait, Busy, Holding
  <2>5. WaitersWait'
    BY <1>2, Zenon DEF PublicationWait, taskVars, walletVars, AdmissionInv, TypeOK,
       WaitersWait, NoLostWakeup
  <2>6. InFlightApart'
    BY <1>2, Zenon DEF PublicationWait, taskVars, walletVars, AdmissionInv, TypeOK,
       Exclusive, PublishedObserved, InFlightApart, Holding
  <2>7. (PublishedObserved /\ PlanFresh /\ IdsUnique)'
    BY <1>2, Zenon DEF PublicationWait, taskVars, walletVars, AdmissionInv,
       PublishedObserved, PlanFresh, IdsUnique
  <2> QED
    BY <2>1, <2>2, <2>3, <2>4, <2>5, <2>6, <2>7, Zenon DEF AdmissionInv
<1>3. ASSUME Store(p)
      PROVE  AdmissionInv'
  <2>1. TypeOK'
    BY <1>3, BirthdayType DEF Store, stateVars, taskVars, AdmissionInv, TypeOK,
       Holding, Entry
  <2>2. Exclusive'
    BY <1>3 DEF Store, stateVars, taskVars, AdmissionInv, TypeOK, Exclusive,
       Busy, Holding
  <2>3. BirthdayPinned'
    BY <1>3, Zenon DEF Store, stateVars, taskVars, AdmissionInv, TypeOK, Exclusive,
       BirthdayPinned, Busy, Holding
  <2>4. NoLostWakeup'
    BY <1>3, Zenon DEF Store, stateVars, taskVars, AdmissionInv, TypeOK, Exclusive,
       NoLostWakeup, WaitersWait, Busy, Holding
  <2>5. WaitersWait'
    BY <1>3, Zenon DEF Store, stateVars, taskVars, AdmissionInv, TypeOK, WaitersWait,
       NoLostWakeup
  <2>6. PublishedObserved'
    BY <1>3, Zenon DEF Store, stateVars, taskVars, AdmissionInv, PublishedObserved,
       InFlightApart
  <2>7. InFlightApart'
    BY <1>3, Zenon DEF Store, stateVars, taskVars, AdmissionInv, TypeOK, Exclusive,
       PublishedObserved, InFlightApart, Holding
  <2>8. IdsUnique'
    BY <1>3, Zenon DEF Store, stateVars, taskVars, AdmissionInv, PublishedObserved,
       InFlightApart, IdsUnique
  <2>9. PlanFresh'
    BY <1>3, Zenon DEF Store, stateVars, taskVars, AdmissionInv, PlanFresh
  <2> QED
    BY <2>1, <2>2, <2>3, <2>4, <2>5, <2>6, <2>7, <2>8, <2>9, Zenon DEF AdmissionInv
<1>4. ASSUME StoreDuplicate(p)
      PROVE  AdmissionInv'
  <2>1. TypeOK'
    BY <1>4, SomeEntryType, Zenon DEF StoreDuplicate, PublicationDrop, Return,
       Notified, taskVars, AdmissionInv, TypeOK, Holding, Checkpoint
  <2>2. Exclusive'
    BY <1>4, Zenon DEF StoreDuplicate, PublicationDrop, Return, Notified, taskVars,
       AdmissionInv, TypeOK, Exclusive, Busy, Holding
  <2>3. BirthdayPinned'
    BY <1>4, Zenon DEF StoreDuplicate, PublicationDrop, Return, Notified, taskVars,
       AdmissionInv, TypeOK, Exclusive, BirthdayPinned, Busy, Holding
  <2>4. NoLostWakeup'
    BY <1>4, Zenon DEF StoreDuplicate, PublicationDrop, Return, Notified, taskVars,
       AdmissionInv, TypeOK, Exclusive, NoLostWakeup, WaitersWait, Busy,
       Holding
  <2>5. WaitersWait'
    BY <1>4, Zenon DEF StoreDuplicate, PublicationDrop, Return, Notified, taskVars,
       AdmissionInv, TypeOK, WaitersWait, NoLostWakeup
  <2>6. InFlightApart'
    BY <1>4, Zenon DEF StoreDuplicate, PublicationDrop, Return, Notified, taskVars,
       AdmissionInv, TypeOK, Exclusive, PublishedObserved, InFlightApart,
       Holding
  <2>7. (PublishedObserved /\ PlanFresh /\ IdsUnique)'
    BY <1>4, Zenon DEF StoreDuplicate, PublicationDrop, Return, Notified, taskVars,
       AdmissionInv, PublishedObserved, PlanFresh, IdsUnique
  <2> QED
    BY <2>1, <2>2, <2>3, <2>4, <2>5, <2>6, <2>7, Zenon DEF AdmissionInv
<1>5. ASSUME Register(p)
      PROVE  AdmissionInv'
  <2>1. TypeOK'
    BY <1>5 DEF Register, CanRegister, stateVars, taskVars, AdmissionInv,
       TypeOK, Holding
  <2>2. Exclusive'
    BY <1>5, Zenon DEF Register, CanRegister, stateVars, taskVars, AdmissionInv,
       TypeOK, Exclusive, Busy, Holding
  <2>3. BirthdayPinned'
    BY <1>5, Zenon DEF Register, CanRegister, stateVars, taskVars, AdmissionInv,
       TypeOK, Exclusive, BirthdayPinned, Busy, Holding
  <2>4. NoLostWakeup'
    BY <1>5, Zenon DEF Register, CanRegister, stateVars, taskVars, AdmissionInv,
       TypeOK, Exclusive, NoLostWakeup, WaitersWait, Busy, Holding
  <2>5. WaitersWait'
    BY <1>5, Zenon DEF Register, CanRegister, stateVars, taskVars, AdmissionInv,
       TypeOK, WaitersWait, NoLostWakeup
  <2>6. InFlightApart'
    BY <1>5, Zenon DEF Register, CanRegister, stateVars, taskVars, AdmissionInv,
       TypeOK, Exclusive, PublishedObserved, InFlightApart, Holding
  <2>7. IdsUnique'
    BY <1>5 DEF Register, CanRegister, stateVars, taskVars, AdmissionInv,
       PublishedObserved, InFlightApart, IdsUnique
  <2>8. (PublishedObserved /\ PlanFresh)'
    BY <1>5, Zenon DEF Register, CanRegister, stateVars, taskVars, AdmissionInv,
       PublishedObserved, PlanFresh
  <2> QED
    BY <2>1, <2>2, <2>3, <2>4, <2>5, <2>6, <2>7, <2>8, Zenon DEF AdmissionInv
<1>6. ASSUME RegisterFailed(p)
      PROVE  AdmissionInv'
  <2>1. TypeOK'
    <3>1. registry' \in SUBSET Entry
      BY <1>6 DEF RegisterFailed, AdmissionInv, TypeOK
    <3> QED
      BY <1>6, <3>1, SomeEntryType, Zenon DEF RegisterFailed, PublicationDrop, Return,
         Notified, taskVars, AdmissionInv, TypeOK, Holding, Checkpoint
  <2>2. Exclusive'
    BY <1>6, Zenon DEF RegisterFailed, PublicationDrop, Return, Notified, CanRegister,
       taskVars, AdmissionInv, TypeOK, Exclusive, Busy, Holding
  <2>3. BirthdayPinned'
    BY <1>6, Zenon DEF RegisterFailed, PublicationDrop, Return, Notified, CanRegister,
       taskVars, AdmissionInv, TypeOK, Exclusive, BirthdayPinned, Busy, Holding
  <2>4. NoLostWakeup'
    BY <1>6, Zenon DEF RegisterFailed, PublicationDrop, Return, Notified, CanRegister,
       taskVars, AdmissionInv, TypeOK, Exclusive, NoLostWakeup, WaitersWait,
       Busy, Holding
  <2>5. WaitersWait'
    BY <1>6, Zenon DEF RegisterFailed, PublicationDrop, Return, Notified, CanRegister,
       taskVars, AdmissionInv, TypeOK, WaitersWait, NoLostWakeup
  <2>6. PublishedObserved'
    BY <1>6, Zenon DEF RegisterFailed, PublicationDrop, Return, Notified, CanRegister,
       taskVars, AdmissionInv, PublishedObserved, InFlightApart
  <2>7. InFlightApart'
    BY <1>6, Zenon DEF RegisterFailed, PublicationDrop, Return, Notified, CanRegister,
       taskVars, AdmissionInv, TypeOK, Exclusive, PublishedObserved,
       InFlightApart, Holding
  <2>8. IdsUnique'
    BY <1>6, Zenon DEF RegisterFailed, PublicationDrop, Return, Notified, CanRegister,
       taskVars, AdmissionInv, PublishedObserved, InFlightApart, IdsUnique
  <2>9. PlanFresh'
    BY <1>6, Zenon DEF RegisterFailed, PublicationDrop, Return, Notified, CanRegister,
       taskVars, AdmissionInv, PlanFresh
  <2> QED
    BY <2>1, <2>2, <2>3, <2>4, <2>5, <2>6, <2>7, <2>8, <2>9, Zenon DEF AdmissionInv
<1>7. ASSUME Complete(p)
      PROVE  AdmissionInv'
  <2>1. TypeOK'
    <3>1. revision' \in 0..MaxRevision
      BY <1>7, RevisionBound DEF Complete, PublicationComplete, AdmissionInv, TypeOK
    <3>2. published' \in SUBSET Entry
      BY <1>7, Zenon DEF Complete, AdmissionInv, TypeOK
    <3> QED
      BY <1>7, <3>1, <3>2, SomeEntryType, Zenon DEF Complete, PublicationComplete, Return,
         Notified, taskVars, AdmissionInv, TypeOK, Holding, Checkpoint
  <2>2. Exclusive'
    BY <1>7, Zenon DEF Complete, PublicationComplete, Return, Notified, taskVars,
       AdmissionInv, TypeOK, Exclusive, Busy, Holding
  <2>3. BirthdayPinned'
    BY <1>7, Zenon DEF Complete, PublicationComplete, Return, Notified, taskVars,
       AdmissionInv, TypeOK, Exclusive, BirthdayPinned, Busy, Holding
  <2>4. NoLostWakeup'
    BY <1>7, Zenon DEF Complete, PublicationComplete, Return, Notified, taskVars,
       AdmissionInv, TypeOK, Exclusive, NoLostWakeup, WaitersWait, Busy,
       Holding
  <2>5. WaitersWait'
    BY <1>7, Zenon DEF Complete, PublicationComplete, Return, Notified, taskVars,
       AdmissionInv, TypeOK, WaitersWait, NoLostWakeup
  <2>6. PublishedObserved'
    BY <1>7, Zenon DEF Complete, PublicationComplete, Return, Notified, taskVars,
       AdmissionInv, PublishedObserved, InFlightApart
  <2>7. PlanFresh'
    BY <1>7 DEF Complete, PublicationComplete, Return, Notified, taskVars,
       AdmissionInv, TypeOK, Exclusive, PlanFresh, Plan
  <2>8. InFlightApart'
    BY <1>7, Zenon DEF Complete, PublicationComplete, Return, Notified, taskVars,
       AdmissionInv, TypeOK, Exclusive, PublishedObserved, InFlightApart,
       Holding
  <2>9. IdsUnique'
    BY <1>7, Zenon DEF Complete, PublicationComplete, Return, Notified, taskVars,
       AdmissionInv, PublishedObserved, InFlightApart, IdsUnique
  <2> QED
    BY <2>1, <2>2, <2>3, <2>4, <2>5, <2>6, <2>7, <2>8, <2>9, Zenon DEF AdmissionInv
<1> QED
  BY <1>1, <1>2, <1>3, <1>4, <1>5, <1>6, <1>7, Zenon DEF PublisherStep

\* A dropped call preserves it.
LEMMA CancelledInv ==
    ASSUME AdmissionInv, NEW p \in Publisher, Cancelled(p)
    PROVE  AdmissionInv'
<1>1. ASSUME Abandon(p)
      PROVE  AdmissionInv'
  <2>1. TypeOK'
    BY <1>1, SomeEntryType, Zenon DEF Abandon, PublicationAbandon, Return, taskVars,
       AdmissionInv, TypeOK, Holding
  <2>2. Exclusive'
    BY <1>1 DEF Abandon, PublicationAbandon, Return, taskVars, AdmissionInv,
       TypeOK, Exclusive, Busy, Holding
  <2>3. BirthdayPinned'
    BY <1>1, Zenon DEF Abandon, PublicationAbandon, Return, taskVars, AdmissionInv,
       TypeOK, Exclusive, BirthdayPinned, Busy, Holding
  <2>4. NoLostWakeup'
    BY <1>1, Zenon DEF Abandon, PublicationAbandon, Return, taskVars, AdmissionInv,
       TypeOK, Exclusive, NoLostWakeup, WaitersWait, Busy, Holding
  <2>5. WaitersWait'
    BY <1>1, Zenon DEF Abandon, PublicationAbandon, Return, taskVars, AdmissionInv,
       TypeOK, WaitersWait, NoLostWakeup
  <2>6. InFlightApart'
    BY <1>1, Zenon DEF Abandon, PublicationAbandon, Return, taskVars, AdmissionInv,
       TypeOK, Exclusive, PublishedObserved, InFlightApart, Holding
  <2>7. (PublishedObserved /\ PlanFresh /\ IdsUnique)'
    BY <1>1, Zenon DEF Abandon, PublicationAbandon, Return, taskVars, AdmissionInv,
       PublishedObserved, PlanFresh, IdsUnique
  <2> QED
    BY <2>1, <2>2, <2>3, <2>4, <2>5, <2>6, <2>7, Zenon DEF AdmissionInv
<1>2. ASSUME RegisterCancelled(p)
      PROVE  AdmissionInv'
  <2>1. TypeOK'
    <3>1. registry' \in SUBSET Entry
      BY <1>2 DEF RegisterCancelled, AdmissionInv, TypeOK
    <3> QED
      BY <1>2, <3>1, SomeEntryType, Zenon DEF RegisterCancelled, PublicationDrop, Return,
         Notified, taskVars, AdmissionInv, TypeOK, Holding, Checkpoint
  <2>2. Exclusive'
    BY <1>2, Zenon DEF RegisterCancelled, PublicationDrop, Return, Notified,
       CanRegister, taskVars, AdmissionInv, TypeOK, Exclusive, Busy, Holding
  <2>3. BirthdayPinned'
    BY <1>2, Zenon DEF RegisterCancelled, PublicationDrop, Return, Notified,
       CanRegister, taskVars, AdmissionInv, TypeOK, Exclusive, BirthdayPinned,
       Busy, Holding
  <2>4. NoLostWakeup'
    BY <1>2, Zenon DEF RegisterCancelled, PublicationDrop, Return, Notified,
       CanRegister, taskVars, AdmissionInv, TypeOK, Exclusive, NoLostWakeup,
       WaitersWait, Busy, Holding
  <2>5. WaitersWait'
    BY <1>2, Zenon DEF RegisterCancelled, PublicationDrop, Return, Notified,
       CanRegister, taskVars, AdmissionInv, TypeOK, WaitersWait, NoLostWakeup
  <2>6. InFlightApart'
    BY <1>2, Zenon DEF RegisterCancelled, PublicationDrop, Return, Notified,
       CanRegister, taskVars, AdmissionInv, TypeOK, Exclusive,
       PublishedObserved, InFlightApart, Holding
  <2>7. IdsUnique'
    BY <1>2, Zenon DEF RegisterCancelled, PublicationDrop, Return, Notified,
       CanRegister, taskVars, AdmissionInv, PublishedObserved, InFlightApart,
       IdsUnique
  <2>8. (PublishedObserved /\ PlanFresh)'
    BY <1>2, Zenon DEF RegisterCancelled, PublicationDrop, Return, Notified,
       CanRegister, taskVars, AdmissionInv, PublishedObserved, PlanFresh
  <2> QED
    BY <2>1, <2>2, <2>3, <2>4, <2>5, <2>6, <2>7, <2>8, Zenon DEF AdmissionInv
<1> QED
  BY <1>1, <1>2, Zenon DEF Cancelled

\* A call of generate or adopt preserves it.
LEMMA RequestInv ==
    ASSUME AdmissionInv, NEW p \in Publisher, NEW w \in Wallet,
           NEW adopted \in BOOLEAN, NEW c \in Checkpoint, Request(p, w, adopted, c)
    PROVE  AdmissionInv'
<1>1. TypeOK'
  BY HasRegistryType, Zenon DEF Request, stateVars, taskVars, AdmissionInv, TypeOK, Entry,
     Holding
<1>2. (Exclusive /\ BirthdayPinned /\ NoLostWakeup /\ WaitersWait /\ InFlightApart)'
  BY DEF Request, stateVars, taskVars, AdmissionInv, TypeOK, Exclusive, BirthdayPinned,
     NoLostWakeup, WaitersWait, InFlightApart, Busy, Holding
<1>3. (PublishedObserved /\ PlanFresh /\ IdsUnique)'
  BY Zenon DEF Request, stateVars, taskVars, AdmissionInv, PublishedObserved, PlanFresh,
     IdsUnique
<1> QED
  BY <1>1, <1>2, <1>3, Zenon DEF AdmissionInv

\* A restart preserves it: what restore rebuilds has unique identities.
LEMMA RestartInv ==
    ASSUME AdmissionInv, Restart
    PROVE  AdmissionInv'
<1>1. TypeOK'
  <2>1. plan' \in [Task -> Plan]
    BY NoPlanType, Zenon DEF Restart
  <2>2. revision' \in 0..MaxRevision
    BY RevisionBound DEF Restart
  <2>3. {values', registry', published'} \subseteq SUBSET Entry
    BY ImportedType, Zenon DEF Restart, AdmissionInv, TypeOK
  <2>4. target' \in [Publisher -> Entry]
    BY SomeEntryType, Zenon DEF Restart
  <2> QED
    BY <2>1, <2>2, <2>3, <2>4, Zenon DEF Restart, TypeOK, Holding, Checkpoint
<1>2. (Exclusive /\ BirthdayPinned /\ NoLostWakeup /\ WaitersWait /\ InFlightApart)'
  BY Zenon DEF Restart, Exclusive, BirthdayPinned, NoLostWakeup, WaitersWait, InFlightApart,
     Busy, Holding
<1>3. (PublishedObserved /\ PlanFresh /\ IdsUnique)'
  BY DEF Restart, AdmissionInv, PublishedObserved, PlanFresh, IdsUnique, NoPlan
<1> QED
  BY <1>1, <1>2, <1>3, Zenon DEF AdmissionInv

\* Whatever the passes, the publishers and restarts do preserves it.
LEMMA WalletsStepInv ==
    ASSUME AdmissionInv, [WalletsNext]_vars
    PROVE  AdmissionInv'
<1>1. CASE UNCHANGED vars
  BY <1>1, Zenon DEF vars, admissionVars, stateVars, taskVars, publisherVars, walletVars,
     AdmissionInv, TypeOK, Exclusive, BirthdayPinned, NoLostWakeup, WaitersWait,
     PublishedObserved, PlanFresh, InFlightApart, IdsUnique, Busy
<1> QED
  BY <1>1, TaskStepInv, PublisherStepInv, CancelledInv, RequestInv, RestartInv, Zenon
     DEF WalletsNext

\* The collection starts with the imported entries, and nothing runs.
LEMMA WalletsStart ==
    ASSUME WalletsInit
    PROVE  AdmissionInv
<1>1. TypeOK
  <2>1. plan \in [Task -> Plan]
    BY NoPlanType, Zenon DEF WalletsInit, AdmissionInit
  <2>2. revision \in 0..MaxRevision
    BY RevisionBound DEF WalletsInit, AdmissionInit
  <2>3. {values, registry, published} \subseteq SUBSET Entry
    BY ImportedType, Zenon DEF WalletsInit
  <2>4. target \in [Publisher -> Entry]
    BY SomeEntryType, Zenon DEF WalletsInit
  <2> QED
    BY <2>1, <2>2, <2>3, <2>4, Zenon
       DEF WalletsInit, AdmissionInit, TypeOK, Holding, Checkpoint
<1>2. Exclusive /\ BirthdayPinned /\ NoLostWakeup /\ WaitersWait /\ InFlightApart
  BY Zenon DEF WalletsInit, AdmissionInit, Exclusive, BirthdayPinned, NoLostWakeup,
     WaitersWait, InFlightApart, Busy, Holding
<1>3. PublishedObserved /\ PlanFresh /\ IdsUnique
  BY ImportedType DEF WalletsInit, AdmissionInit, PublishedObserved, PlanFresh,
     IdsUnique, NoPlan
<1> QED
  BY <1>1, <1>2, <1>3, Zenon DEF AdmissionInv

\* The inductive invariant holds in every reachable state of the collection.
THEOREM AdmissionInvariant == WalletsSpec => []AdmissionInv
<1>1. WalletsInit => AdmissionInv
  BY WalletsStart, Zenon
<1>2. AdmissionInv /\ [WalletsNext]_vars => AdmissionInv'
  BY WalletsStepInv, Zenon
<1> QED
  BY <1>1, <1>2, PTL DEF WalletsSpec

\* Every variable of the admission lock, of the sync passes and of the collection
\* keeps its type; the revision stays within its bound.
THEOREM TypeCorrect == WalletsSpec => []TypeOK
BY AdmissionInvariant, PTL DEF AdmissionInv

\* begin and publication give out one permit at a time, and the two flags of the
\* lock tell exactly whether one is out.
THEOREM AdmissionExclusive == WalletsSpec => []Exclusive
BY AdmissionInvariant, PTL DEF AdmissionInv

\* Whoever holds a commit permit inspects every published address from its
\* birthday on, however many passes and publishers compete.
THEOREM CommitsCoverPublished == WalletsSpec => []CommitCoversPublished
<1>1. AdmissionInv => CommitCoversPublished
  BY Zenon DEF AdmissionInv, PlanFresh, CommitCoversPublished
<1> QED
  BY <1>1, AdmissionInvariant, PTL

\* The checkpoint a birthday is derived from does not move under the permit.
THEOREM BirthdaysPinned == WalletsSpec => []BirthdayPinned
BY AdmissionInvariant, PTL DEF AdmissionInv

\* A publisher that sleeps in publication is on the waiter list of a permit holder.
THEOREM WakeupsKept == WalletsSpec => []NoLostWakeup
BY AdmissionInvariant, PTL DEF AdmissionInv

\* forget and a duplicate identity never take a published address away.
THEOREM PublishedStays == WalletsSpec => []PublishedObserved
BY AdmissionInvariant, PTL DEF AdmissionInv
=============================================================================
