-------------------------- MODULE GigListingProofs --------------------------
(***************************************************************************)
(* Proofs about GigListing and GigSearch, which share the index, for any   *)
(* finite set of gigs, any set of users and any number of failures.        *)
(***************************************************************************)
EXTENDS GigListing, GigSearch, FiniteSetTheorems, SequenceTheorems, TLAPS

USE DEF Queue!InHandler, Queue!Seen

(* Every operation on a subscription gives a subscription.                 *)
LEMMA BootTyped ==
  ASSUME NEW b \in BOOLEAN
  PROVE  Queue!AtBoot(b) \in Queue!Subscription
BY DEF Queue!Subscription, Queue!AtBoot

LEMMA ConnectionTyped ==
  ASSUME NEW q \in Queue!Subscription
  PROVE  /\ Queue!Subscribed(q) \in Queue!Subscription
         /\ Queue!Disconnected(q) \in Queue!Subscription
         /\ Queue!Crashed(q) \in Queue!Subscription
BY DEF Queue!Subscription, Queue!AtBoot, Queue!Subscribed, Queue!Disconnected, Queue!Crashed

LEMMA MessageTyped ==
  ASSUME NEW q \in Queue!Subscription, NEW g \in Gigs, NEW t \in {"inc", "ack"}
  PROVE  /\ Queue!Published(q, g) \in Queue!Subscription
         /\ Queue!Delivered(q, g, t) \in Queue!Subscription
         /\ Queue!MovedTo(q, g, t) \in Queue!Subscription
         /\ Queue!Acked(q, g) \in Queue!Subscription
         /\ Queue!Requeued(q, g) \in Queue!Subscription
<1> USE DEF Queue!Subscription
<1>1. Queue!Published(q, g) \in Queue!Subscription
  BY DEF Queue!Published
<1>2. Queue!Delivered(q, g, t) \in Queue!Subscription
  BY DEF Queue!Delivered
<1>3. Queue!MovedTo(q, g, t) \in Queue!Subscription
  BY DEF Queue!MovedTo
<1>4. Queue!Acked(q, g) \in Queue!Subscription
  BY DEF Queue!Acked
<1>5. Queue!Requeued(q, g) \in Queue!Subscription
  BY <1>4 DEF Queue!Requeued
<1> QED
  BY <1>1, <1>2, <1>3, <1>4, <1>5

-----------------------------------------------------------------------------
(* The three parts of a step: what createGig and Elasticsearch do, what is *)
(* done with the event, and what is done elsewhere.                        *)
CreateStep(g) == CallCreate(g) \/ CreateGig(g) \/ CreateGigFails(g)

EventStep == \/ \E g \in Gigs : Deliver(g) \/ UpdateTotalGigsCount(g) \/ CountGigFails(g)
             \/ Subscribe \/ Disconnect \/ UserCrash

OtherStep == \E u \in Users : OpenSeller(u) \/ \E s \in Services : CopyArrives(s, u)

LEMMA Steps == [Next]_vars => \/ \E g \in Gigs : CreateStep(g)
                              \/ GigCrash \/ Refresh \/ EventStep \/ OtherStep \/ UNCHANGED vars
BY DEF Next, CreateStep, EventStep, OtherStep

LEMMA CreateStepTyped == ASSUME TypeOK, NEW g \in Gigs, CreateStep(g) PROVE TypeOK'
<1> USE DEF TypeOK, Running, Answers, countVars, Goto, Fault
<1>1. CASE CallCreate(g) \/ UploadCover(g) \/ OwnerMissing(g) \/ InsertRefused(g)
  BY <1>1 DEF CallCreate, UploadCover, OwnerMissing, InsertRefused
<1>2. CASE CountGigs(g) \/ InsertGig(g) \/ AddDataToIndex(g)
  BY <1>2 DEF CountGigs, InsertGig, AddDataToIndex
<1>3. CASE PublishCount(g)
  <2>1. bus' \in Queue!Subscription
    BY <1>3, MessageTyped DEF PublishCount
  <2> QED
    BY <1>3, <2>1 DEF PublishCount
<1>4. CASE CreateGigFails(g)
  BY <1>4, MaxFaultsAssumption DEF CreateGigFails, CallFails, CountFails, PublishFails, IndexFails
<1> QED
  BY <1>1, <1>2, <1>3, <1>4 DEF CreateStep, CreateGig

LEMMA IncTyped ==
  ASSUME TypeOK, NEW g \in Gigs, IncTotalGigs(g)
  PROVE  totalGigs' \in [Users -> Nat] /\ applied' \subseteq Gigs /\ ignored' \subseteq Gigs
BY DEF TypeOK, IncTotalGigs

LEMMA EventStepTyped == ASSUME TypeOK, EventStep PROVE TypeOK'
<1> USE DEF TypeOK, gigVars, countVars, Fault
<1>1. ASSUME NEW g \in Gigs, Deliver(g) \/ OwnerUnknown(g) \/ Ack(g) PROVE TypeOK'
  <2>1. bus' \in Queue!Subscription
    BY <1>1, MessageTyped DEF Deliver, OwnerUnknown, Ack
  <2> QED
    BY <1>1, <2>1 DEF Deliver, OwnerUnknown, Ack
<1>2. ASSUME NEW g \in Gigs, CountGig(g) PROVE TypeOK'
  <2>1. bus' \in Queue!Subscription
    BY <1>2, MessageTyped DEF CountGig
  <2> QED
    BY <1>2, <2>1, IncTyped DEF CountGig
<1>3. ASSUME NEW g \in Gigs, CountGigFails(g) PROVE TypeOK'
  <2>1. bus' \in Queue!Subscription
    BY <1>3, MessageTyped DEF CountGigFails
  <2>2. faults' \in 0..MaxFaults
    BY <1>3, MaxFaultsAssumption DEF CountGigFails
  <2> QED
    BY <1>3, <2>1, <2>2, IncTyped DEF CountGigFails
<1>4. CASE Subscribe \/ Disconnect \/ UserCrash
  <2>1. bus' \in Queue!Subscription
    BY <1>4, ConnectionTyped DEF Subscribe, Disconnect, UserCrash
  <2> QED
    BY <1>4, <2>1, MaxFaultsAssumption DEF Subscribe, Disconnect, UserCrash
<1> QED
  BY <1>1, <1>2, <1>3, <1>4 DEF EventStep, UpdateTotalGigsCount

LEMMA TypeStep == TypeOK /\ [Next]_vars => TypeOK'
<1> SUFFICES ASSUME TypeOK, [Next]_vars PROVE TypeOK'
  OBVIOUS
<1> USE DEF TypeOK, gigVars, countVars
<1>1. CASE GigCrash
  BY <1>1, MaxFaultsAssumption DEF GigCrash, Running, Answers, Fault
<1>2. CASE Refresh
  BY <1>2 DEF Refresh
<1>3. CASE OtherStep
  BY <1>3 DEF OtherStep, OpenSeller, CopyArrives
<1>4. CASE UNCHANGED vars
  BY <1>4 DEF vars
<1> QED
  BY <1>1, <1>2, <1>3, <1>4, Steps, CreateStepTyped, EventStepTyped

LEMMA InitTyped == Init => TypeOK
BY BootTyped, MaxFaultsAssumption DEF Init, TypeOK, Running, Answers

(* Every variable keeps its type, whatever fails and in whatever order.    *)
THEOREM TypeCorrect == Spec => []TypeOK
BY InitTyped, TypeStep, PTL DEF Spec

-----------------------------------------------------------------------------
(* The strengthening.  What queries see was indexed, what is indexed was   *)
(* stored, and where a call stands says whether its gig is stored.         *)
Shown == visible \subseteq indexed /\ indexed \subseteq saved

Standing(g) ==
    /\ g \in saved => pc[g] \in {"publish", "index"} \cup Answers
    /\ pc[g] \in {"publish", "index", "ok"} => g \in saved
    /\ g \in saved \ indexed /\ pc[g] \in Answers => faults > 0

(* The gigs counted for a gig are visible ones, with all those that were   *)
(* counted for them.                                                       *)
Ranked == \A h \in Gigs : /\ found[h] \subseteq visible
                          /\ h \notin found[h]
                          /\ \A g \in found[h] : found[g] \subseteq found[h]

ListInv == Shown /\ Ranked /\ \A g \in Gigs : Standing(g)

LEMMA ListStep == TypeOK /\ ListInv /\ [Next]_vars => ListInv'
<1> SUFFICES ASSUME TypeOK, ListInv, [Next]_vars PROVE ListInv'
  OBVIOUS
<1> USE DEF ListInv, Shown, Ranked, Standing, Answers, Goto, Fault
<1>0. /\ pc \in [Gigs -> {"idle"} \cup Running \cup Answers] /\ found \in [Gigs -> SUBSET Gigs]
      /\ saved \subseteq Gigs /\ faults \in Nat
  BY MaxFaultsAssumption DEF TypeOK
<1>1. ASSUME NEW g \in Gigs, CreateStep(g) PROVE ListInv'
  <2>1. CASE CallCreate(g) \/ UploadCover(g)
    BY <1>0, <2>1 DEF CallCreate, UploadCover
  <2>2. CASE OwnerMissing(g) \/ InsertRefused(g)
    BY <1>0, <2>2 DEF OwnerMissing, InsertRefused
  <2>3. CASE CountGigs(g)
    BY <1>0, <2>3 DEF CountGigs
  <2>4. CASE InsertGig(g)
    BY <1>0, <2>4 DEF InsertGig
  <2>5. CASE PublishCount(g)
    BY <1>0, <2>5 DEF PublishCount
  <2>6. CASE AddDataToIndex(g)
    BY <1>0, <2>6 DEF AddDataToIndex
  <2>7. CASE CallFails(g) \/ CountFails(g)
    BY <1>0, <2>7 DEF CallFails, CountFails
  <2>8. CASE PublishFails(g) \/ IndexFails(g)
    BY <1>0, <2>8 DEF PublishFails, IndexFails
  <2> QED
    BY <1>1, <2>1, <2>2, <2>3, <2>4, <2>5, <2>6, <2>7, <2>8 DEF CreateStep, CreateGig, CreateGigFails
<1>2. CASE GigCrash
  BY <1>0, <1>2 DEF GigCrash, Running
<1>3. CASE Refresh
  BY <1>0, <1>3 DEF Refresh
<1>4. CASE UNCHANGED gigVars /\ faults' \in {faults, faults + 1}
  BY <1>0, <1>4 DEF gigVars
<1>5. EventStep \/ OtherStep \/ UNCHANGED vars => UNCHANGED gigVars /\ faults' \in {faults, faults + 1}
  BY DEF EventStep, Deliver, UpdateTotalGigsCount, CountGig, OwnerUnknown, Ack, CountGigFails, Subscribe,
     Disconnect, UserCrash, OtherStep, OpenSeller, CopyArrives, vars
<1> QED
  BY <1>1, <1>2, <1>3, <1>4, <1>5, Steps

-----------------------------------------------------------------------------
(* Of the event of a gig: it exists, and was counted, once published; it   *)
(* is in one place, was counted or ignored when it is acknowledged, and is accounted for from   *)
(* its publication on.                                                     *)
Open(g) == g \in bus.ready \/ bus.step[g] = "inc"

Followed(g) ==
    /\ g \in Queue!Seen(bus) \cup bus.lost \cup applied
           => g \in saved /\ pc[g] \in {"index"} \cup Answers
    /\ g \in bus.ready => bus.step[g] = "none"
    /\ bus.step[g] = "ack" => g \in applied \cup ignored
    /\ g \in indexed \/ pc[g] \in {"index", "ok"}
           => Queue!Accounts(bus, g, g \in applied \cup ignored)

EventInv == \A g \in Gigs : Followed(g)

LEMMA CreateKeepsEvents ==
  ASSUME TypeOK, ListInv, EventInv, NEW g \in Gigs, CreateStep(g)
  PROVE  EventInv'
<1> USE DEF EventInv, Followed, Answers, Goto, Queue!Accounts, countVars
<1>0. /\ pc \in [Gigs -> {"idle"} \cup Running \cup Answers] /\ bus \in Queue!Subscription
      /\ saved \subseteq Gigs /\ Standing(g) /\ Shown
  BY DEF TypeOK, ListInv
<1>1. CASE CallCreate(g) \/ UploadCover(g)
  BY <1>0, <1>1 DEF CallCreate, UploadCover
<1>2. CASE OwnerMissing(g) \/ InsertRefused(g)
  BY <1>0, <1>2 DEF OwnerMissing, InsertRefused
<1>3. CASE CountGigs(g)
  BY <1>0, <1>3 DEF CountGigs
<1>4. CASE InsertGig(g)
  BY <1>0, <1>4 DEF InsertGig, Standing
<1>5. CASE PublishCount(g)
  <2>1. g \in saved
    BY <1>0, <1>5 DEF PublishCount, Standing
  <2> QED
    BY <1>0, <1>5, <2>1 DEF PublishCount, Queue!Published, Queue!Subscription
<1>6. CASE AddDataToIndex(g)
  BY <1>0, <1>6 DEF AddDataToIndex
<1>7. CASE CallFails(g) \/ CountFails(g)
  BY <1>0, <1>7 DEF CallFails, CountFails
<1>8. CASE PublishFails(g) \/ IndexFails(g)
  BY <1>0, <1>8 DEF PublishFails, IndexFails
<1> QED
  BY <1>1, <1>2, <1>3, <1>4, <1>5, <1>6, <1>7, <1>8 DEF CreateStep, CreateGig, CreateGigFails

(* A handler counts the gig or ignores it.                                 *)
LEMMA IncSettles ==
  ASSUME NEW g \in Gigs, IncTotalGigs(g)
  PROVE  /\ g \in applied' \cup ignored'
         /\ applied \subseteq applied' /\ applied' \subseteq applied \cup {g}
         /\ ignored \subseteq ignored'
BY DEF IncTotalGigs

(* A rejected event goes back or is lost.                                  *)
LEMMA RequeueKeepsEvents ==
  ASSUME TypeOK, EventInv, NEW g \in Gigs, bus.step[g] = "inc", bus' = Queue!Requeued(bus, g),
         UNCHANGED gigVars, applied \subseteq applied', applied' \subseteq applied \cup {g},
         ignored \subseteq ignored'
  PROVE  EventInv'
<1> USE DEF EventInv, Followed, Queue!Accounts, gigVars, Queue!Requeued, Queue!Acked, Queue!Subscription
<1>0. bus \in Queue!Subscription
  BY DEF TypeOK
<1>1. g \in saved
  BY <1>0
<1>2. CASE g \in bus.stale
  BY <1>0, <1>1, <1>2
<1>3. CASE g \notin bus.stale
  BY <1>0, <1>1, <1>3
<1> QED
  BY <1>2, <1>3

LEMMA EventKeepsEvents ==
  ASSUME TypeOK, EventInv, EventStep
  PROVE  EventInv'
<1> USE DEF EventInv, Followed, Queue!Accounts, gigVars, countVars
<1>0. bus \in Queue!Subscription
  BY DEF TypeOK
<1>1. ASSUME NEW g \in Gigs, Deliver(g) PROVE EventInv'
  BY <1>0, <1>1 DEF Deliver, Queue!Delivered, Queue!Subscription
<1>2. ASSUME NEW g \in Gigs, Ack(g) PROVE EventInv'
  BY <1>0, <1>2 DEF Ack, Queue!Acked, Queue!Subscription
<1>3. ASSUME NEW g \in Gigs, CountGig(g) PROVE EventInv'
  <2>1. /\ g \in applied' \cup ignored' /\ applied \subseteq applied'
        /\ applied' \subseteq applied \cup {g} /\ ignored \subseteq ignored'
    BY <1>3, IncSettles DEF CountGig
  <2> QED
    BY <1>0, <1>3, <2>1 DEF CountGig, Queue!MovedTo, Queue!Subscription
<1>4. ASSUME NEW g \in Gigs, OwnerUnknown(g) \/ CountGigFails(g) PROVE EventInv'
  BY <1>4, IncSettles, RequeueKeepsEvents DEF OwnerUnknown, CountGigFails
<1>5. CASE Subscribe
  BY <1>0, <1>5 DEF Subscribe, Queue!Subscribed, Queue!Subscription
<1>6. CASE Disconnect
  BY <1>0, <1>6 DEF Disconnect, Queue!Disconnected, Queue!Subscription
<1>7. CASE UserCrash
  BY <1>0, <1>7 DEF UserCrash, Queue!Crashed, Queue!AtBoot, Queue!Subscription
<1> QED
  BY <1>1, <1>2, <1>3, <1>4, <1>5, <1>6, <1>7 DEF EventStep, UpdateTotalGigsCount

LEMMA EventInvStep == TypeOK /\ ListInv /\ EventInv /\ [Next]_vars => EventInv'
<1> SUFFICES ASSUME TypeOK, ListInv, EventInv, [Next]_vars PROVE EventInv'
  OBVIOUS
<1> USE DEF EventInv, Followed, Queue!Accounts
<1>1. CASE GigCrash
  BY <1>1 DEF GigCrash, TypeOK, Running, Answers, countVars
<1>2. CASE UNCHANGED <<pc, saved, indexed, bus, applied, ignored>>
  BY <1>2
<1>3. Refresh \/ OtherStep \/ UNCHANGED vars
         => UNCHANGED <<pc, saved, indexed, bus, applied, ignored>>
  BY DEF Refresh, OtherStep, OpenSeller, CopyArrives, gigVars, countVars, vars
<1> QED
  BY <1>1, <1>2, <1>3, Steps, CreateKeepsEvents, EventKeepsEvents

-----------------------------------------------------------------------------
(* The counter.  An event that may still be counted again is no part of    *)
(* what bounds it: settled are those that were and will not be.            *)
Settled(u) == {g \in applied : Owner(g) = u /\ ~Open(g)}

Bounded(u) == /\ Cardinality(GigsOf(u, applied)) <= totalGigs[u]
              /\ totalGigs[u] <= Cardinality(Settled(u)) + faults

CountInv == \A u \in Users : Bounded(u)

LEMMA Finite ==
  ASSUME TypeOK, NEW u \in Users
  PROVE  /\ IsFiniteSet(GigsOf(u, applied)) /\ Cardinality(GigsOf(u, applied)) \in Nat
         /\ IsFiniteSet(Settled(u)) /\ Cardinality(Settled(u)) \in Nat
         /\ Settled(u) \in SUBSET GigsOf(u, applied)
<1>1. /\ GigsOf(u, applied) \in SUBSET Gigs /\ Settled(u) \in SUBSET Gigs
      /\ Settled(u) \in SUBSET GigsOf(u, applied)
  BY DEF TypeOK, GigsOf, Settled
<1> QED
  BY <1>1, FS_Subset, FS_CardinalityType, GigsAssumption

(* A step that counts nothing and leaves no event open that was settled.   *)
LEMMA NothingCounted ==
  ASSUME TypeOK, TypeOK', NEW u \in Users, Bounded(u),
         UNCHANGED <<form, applied>>, totalGigs'[u] = totalGigs[u], faults' >= faults,
         \A g \in applied : Open(g)' => Open(g)
  PROVE  Bounded(u)'
<1>1. Settled(u) \in SUBSET (Settled(u)') /\ GigsOf(u, applied)' = GigsOf(u, applied)
  BY DEF Settled, GigsOf, Owner, TypeOK
<1>2. /\ IsFiniteSet(Settled(u)') /\ Cardinality(Settled(u)') \in Nat /\ Cardinality(Settled(u)) \in Nat
      /\ Cardinality(GigsOf(u, applied)) \in Nat
  <2>1. Settled(u)' \in SUBSET Gigs
    BY DEF TypeOK, Settled
  <2> QED
    BY <2>1, Finite, FS_Subset, FS_CardinalityType, GigsAssumption
<1>3. Cardinality(Settled(u)) <= Cardinality(Settled(u)')
  BY <1>1, <1>2, FS_Subset
<1> QED
  BY <1>1, <1>2, <1>3, MaxFaultsAssumption DEF Bounded, TypeOK

(* A handler's $inc of totalGigs.  It counts the gig, again perhaps; the   *)
(* event is settled, or there was a failure.                               *)
LEMMA CountedOnce ==
  ASSUME TypeOK, TypeOK', NEW u \in Users, Bounded(u), NEW g \in Gigs, UNCHANGED form,
         IncTotalGigs(g), Open(g), \A h \in Gigs : Open(h)' => Open(h),
         (~Open(g)' /\ faults' = faults) \/ faults' = faults + 1
  PROVE  Bounded(u)'
<1>0. /\ form[g].owner \in Users /\ faults \in Nat /\ faults' \in Nat
      /\ totalGigs \in [Users -> Nat] /\ totalGigs' \in [Users -> Nat]
  BY MaxFaultsAssumption DEF TypeOK, Forms
<1>1. /\ IsFiniteSet(Settled(u)) /\ Cardinality(Settled(u)) \in Nat
      /\ IsFiniteSet(Settled(u)') /\ Cardinality(Settled(u)') \in Nat
      /\ IsFiniteSet(GigsOf(u, applied)) /\ Cardinality(GigsOf(u, applied)) \in Nat
      /\ IsFiniteSet(GigsOf(u, applied)') /\ Cardinality(GigsOf(u, applied)') \in Nat
  <2>1. Settled(u)' \in SUBSET Gigs /\ GigsOf(u, applied)' \in SUBSET Gigs
    BY DEF TypeOK, Settled, GigsOf
  <2> QED
    BY <2>1, Finite, FS_Subset, FS_CardinalityType, GigsAssumption
<1>2. Settled(u) \in SUBSET (Settled(u)') /\ g \notin Settled(u)
  BY DEF Settled, Owner, IncTotalGigs, TypeOK
<1>3. Cardinality(Settled(u)) <= Cardinality(Settled(u)')
  BY <1>1, <1>2, FS_Subset
<1>4. CASE totalGigs'[u] = totalGigs[u] /\ GigsOf(u, applied)' = GigsOf(u, applied)
  BY <1>0, <1>1, <1>3, <1>4 DEF Bounded
<1>5. CASE Owner(g) = u /\ u \in sellers
  <2>1. totalGigs'[u] = totalGigs[u] + 1 /\ applied' = applied \cup {g}
    BY <1>0, <1>5 DEF IncTotalGigs
  <2>2. GigsOf(u, applied)' = GigsOf(u, applied) \cup {g}
    BY <1>5, <2>1 DEF GigsOf, Owner, TypeOK
  <2>3. Cardinality(GigsOf(u, applied)') <= Cardinality(GigsOf(u, applied)) + 1
    BY <1>1, <2>2, FS_AddElement
  <2>4. Cardinality(Settled(u)) + faults + 1 <= Cardinality(Settled(u)') + faults'
    <3>1. CASE faults' = faults + 1
      BY <1>0, <1>1, <1>3, <3>1
    <3>2. CASE ~Open(g)' /\ faults' = faults
      <4>1. Settled(u) \cup {g} \in SUBSET (Settled(u)')
        BY <1>2, <1>5, <2>1, <3>2 DEF Settled, Owner
      <4>2. Cardinality(Settled(u) \cup {g}) = Cardinality(Settled(u)) + 1
        BY <1>1, <1>2, FS_AddElement
      <4>3. Cardinality(Settled(u) \cup {g}) <= Cardinality(Settled(u)')
        BY <1>1, <4>1, FS_Subset
      <4> QED
        BY <1>0, <1>1, <3>2, <4>2, <4>3
    <3> QED
      BY <3>1, <3>2
  <2> QED
    BY <1>0, <1>1, <2>1, <2>3, <2>4 DEF Bounded
<1>6. CASE Owner(g) # u \/ u \notin sellers
  <2>1. totalGigs'[u] = totalGigs[u] /\ GigsOf(u, applied)' = GigsOf(u, applied)
    BY <1>0, <1>6 DEF IncTotalGigs, GigsOf, Owner
  <2> QED
    BY <1>4, <2>1
<1> QED
  BY <1>5, <1>6

LEMMA CountStep == TypeOK /\ EventInv /\ CountInv /\ [Next]_vars => CountInv'
<1> SUFFICES ASSUME TypeOK, EventInv, [Next]_vars, NEW u \in Users, Bounded(u)
             PROVE  Bounded(u)'
  BY DEF CountInv
<1> USE DEF Open, gigVars, countVars, Fault
<1>0. TypeOK' /\ bus \in Queue!Subscription /\ faults \in Nat
  BY TypeStep, MaxFaultsAssumption DEF TypeOK
<1>1. ASSUME UNCHANGED <<form, applied, totalGigs>>, faults' \in {faults, faults + 1},
             \A g \in applied : Open(g)' => Open(g)
      PROVE  Bounded(u)'
  BY <1>0, <1>1, NothingCounted
<1>2. ASSUME NEW g \in Gigs, CreateStep(g) PROVE Bounded(u)'
  <2>1. CASE PublishCount(g)
    <3>1. g \notin applied
      BY <2>1 DEF PublishCount, EventInv, Followed, Answers
    <3>2. \A h \in applied : Open(h)' => Open(h)
      BY <1>0, <2>1, <3>1 DEF PublishCount, Queue!Published, Queue!Subscription
    <3> QED
      BY <1>1, <2>1, <3>2 DEF PublishCount
  <2>2. CASE ~PublishCount(g)
    BY <1>1, <1>2, <2>2 DEF CreateStep, CallCreate, CreateGig, UploadCover, CountGigs, OwnerMissing,
       InsertGig, InsertRefused, AddDataToIndex, CreateGigFails, CallFails, CountFails,
       PublishFails, IndexFails
  <2> QED
    BY <2>1, <2>2
<1>3. ASSUME NEW g \in Gigs, CountGig(g) PROVE Bounded(u)'
  <2>1. /\ ~Open(g)' /\ Open(g) /\ \A h \in Gigs : Open(h)' => Open(h)
    BY <1>0, <1>3 DEF CountGig, EventInv, Followed, Queue!MovedTo, Queue!Subscription
  <2> QED
    BY <1>0, <1>3, <2>1, CountedOnce DEF CountGig
<1>4. ASSUME NEW g \in Gigs, bus.step[g] = "inc", bus' = Queue!Requeued(bus, g)
      PROVE  \A h \in Gigs : Open(h)' => Open(h)
  <2>1. CASE g \in bus.stale
    BY <1>0, <1>4, <2>1 DEF Queue!Requeued, Queue!Acked, Queue!Subscription
  <2>2. CASE g \notin bus.stale
    BY <1>0, <1>4, <2>2 DEF Queue!Requeued, Queue!Acked, Queue!Subscription
  <2> QED
    BY <2>1, <2>2
<1>5. ASSUME NEW g \in Gigs, OwnerUnknown(g) PROVE Bounded(u)'
  BY <1>0, <1>1, <1>4, <1>5 DEF OwnerUnknown, TypeOK
<1>6. ASSUME NEW g \in Gigs, CountGigFails(g) PROVE Bounded(u)'
  <2>1. \A h \in Gigs : Open(h)' => Open(h)
    BY <1>4, <1>6 DEF CountGigFails
  <2>2. CASE UNCHANGED countVars
    BY <1>0, <1>1, <1>6, <2>1, <2>2 DEF CountGigFails, TypeOK
  <2>3. CASE IncTotalGigs(g)
    BY <1>0, <1>6, <2>1, <2>3, CountedOnce DEF CountGigFails
  <2> QED
    BY <1>6, <2>2, <2>3 DEF CountGigFails
<1>7. ASSUME NEW g \in Gigs, Deliver(g) \/ Ack(g) PROVE Bounded(u)'
  <2>1. CASE Deliver(g)
    <3>1. \A h \in Gigs : Open(h)' => Open(h)
      BY <1>0, <2>1 DEF Deliver, Queue!Delivered, Queue!Subscription
    <3> QED
      BY <1>0, <1>1, <2>1, <3>1 DEF Deliver, TypeOK
  <2>2. CASE Ack(g)
    <3>1. \A h \in Gigs : Open(h)' => Open(h)
      BY <1>0, <2>2 DEF Ack, Queue!Acked, Queue!Subscription
    <3> QED
      BY <1>0, <1>1, <2>2, <3>1 DEF Ack, TypeOK
  <2> QED
    BY <1>7, <2>1, <2>2
<1>8. CASE Subscribe \/ Disconnect \/ UserCrash
  <2>1. \A h \in Gigs : Open(h)' => Open(h)
    <3>1. CASE Subscribe
      BY <1>0, <3>1 DEF Subscribe, Queue!Subscribed, Queue!Subscription
    <3>2. CASE Disconnect
      BY <1>0, <3>2 DEF Disconnect, Queue!Disconnected, Queue!Subscription
    <3>3. CASE UserCrash
      BY <1>0, <3>3 DEF UserCrash, Queue!Crashed, Queue!AtBoot, Queue!Subscription
    <3> QED
      BY <1>8, <3>1, <3>2, <3>3
  <2> QED
    BY <1>0, <1>1, <1>8, <2>1 DEF Subscribe, Disconnect, UserCrash, TypeOK
<1>9. GigCrash \/ Refresh \/ OtherStep \/ UNCHANGED vars
         => /\ UNCHANGED <<form, applied, totalGigs, bus>>
            /\ faults' \in {faults, faults + 1}
  BY DEF GigCrash, Refresh, OtherStep, OpenSeller, CopyArrives, vars
<1> QED
  BY <1>1, <1>2, <1>3, <1>5, <1>6, <1>7, <1>8, <1>9, Steps DEF EventStep, UpdateTotalGigsCount

-----------------------------------------------------------------------------
IndInv == TypeOK /\ ListInv /\ EventInv /\ CountInv

LEMMA InitInv == Init => IndInv
<1> SUFFICES ASSUME Init PROVE IndInv
  OBVIOUS
<1>1. ListInv
  BY DEF Init, ListInv, Shown, Ranked, Standing
<1>2. EventInv
  BY DEF Init, EventInv, Followed, Queue!AtBoot, Queue!Accounts
<1>3. CountInv
  <2>1. \A u \in Users : GigsOf(u, applied) = {} /\ Settled(u) = {}
    BY DEF Init, GigsOf, Settled
  <2>2. \A u \in Users : totalGigs[u] = 0
    BY DEF Init
  <2>3. faults = 0 /\ Cardinality({}) = 0
    BY FS_EmptySet DEF Init
  <2> QED
    BY <2>1, <2>2, <2>3 DEF CountInv, Bounded
<1> QED
  BY <1>1, <1>2, <1>3, InitTyped DEF IndInv

LEMMA Inductive == Spec => []IndInv
<1>1. IndInv /\ [Next]_vars => IndInv'
  BY TypeStep, ListStep, EventInvStep, CountStep DEF IndInv
<1> QED
  BY InitInv, <1>1, PTL DEF Spec

(* What the strengthening says of the invariants the run checks.           *)
LEMMA InvImplies == IndInv => CountWithinFaults /\ SearchableIsCounted /\ NewestSortsLast
<1> SUFFICES ASSUME IndInv PROVE CountWithinFaults /\ SearchableIsCounted /\ NewestSortsLast
  OBVIOUS
<1> USE DEF IndInv, ListInv, EventInv
<1>1. CountWithinFaults
  <2>1. applied \subseteq saved
    BY DEF Followed, TypeOK
  <2>2. ASSUME NEW u \in Users
        PROVE  /\ Cardinality(GigsOf(u, applied)) <= totalGigs[u]
               /\ totalGigs[u] <= Cardinality(GigsOf(u, applied)) + faults
    <3>1. /\ Cardinality(Settled(u)) <= Cardinality(GigsOf(u, applied))
          /\ Cardinality(Settled(u)) \in Nat /\ Cardinality(GigsOf(u, applied)) \in Nat
      BY Finite, FS_Subset
    <3> QED
      BY <3>1, MaxFaultsAssumption DEF CountInv, Bounded, TypeOK
  <2> QED
    BY <2>1, <2>2 DEF CountWithinFaults
<1>2. SearchableIsCounted
  BY DEF SearchableIsCounted, Followed, Standing, Shown
<1>3. NewestSortsLast
  <2> SUFFICES ASSUME NEW h \in saved, NEW g \in found[h]
               PROVE  Cardinality(found[g]) + 1 < Cardinality(found[h]) + 1
    BY DEF NewestSortsLast, SortId
  <2>1. h \in Gigs /\ g \in Gigs /\ found[h] \in SUBSET Gigs /\ found[g] \in SUBSET Gigs
    BY DEF TypeOK
  <2>2. IsFiniteSet(found[h]) /\ IsFiniteSet(found[g])
    BY <2>1, FS_Subset, GigsAssumption
  <2>3. found[g] \cup {g} \in SUBSET found[h] /\ g \notin found[g]
    BY <2>1 DEF Ranked
  <2>4. Cardinality(found[g] \cup {g}) = Cardinality(found[g]) + 1
    BY <2>2, <2>3, FS_AddElement
  <2>5. Cardinality(found[g] \cup {g}) <= Cardinality(found[h])
    BY <2>2, <2>3, FS_Subset
  <2>6. Cardinality(found[g]) \in Nat /\ Cardinality(found[h]) \in Nat
    BY <2>2, FS_CardinalityType
  <2> QED
    BY <2>4, <2>5, <2>6
<1> QED
  BY <1>1, <1>2, <1>3

(* Whatever fails, and in whatever order the calls, the broker and the     *)
(* services move: totalGigs is the number of the gigs whose event reached  *)
(* the Seller, and one more for each failure at most; a gig searches can   *)
(* find is stored and its event accounted for, and one that is stored and  *)
(* never found is the mark of a failure; a gig sorts after all those that  *)
(* could be found when it was created.                                     *)
THEOREM Safety == Spec => [](CountWithinFaults /\ SearchableIsCounted /\ NewestSortsLast)
BY Inductive, InvImplies, PTL


-----------------------------------------------------------------------------
(* The sort number the catalog keeps for a gig.                            *)
Number == [g \in Gigs |-> IF g \in saved THEN SortId(g) ELSE 0]

LEMMA NumberTyped == TypeOK => \A g \in Gigs : SortId(g) \in Nat \ {0}
<1> SUFFICES ASSUME TypeOK, NEW g \in Gigs PROVE SortId(g) \in Nat \ {0}
  OBVIOUS
<1>1. found[g] \in SUBSET Gigs
  BY DEF TypeOK
<1>2. Cardinality(found[g]) \in Nat
  BY <1>1, FS_Subset, FS_CardinalityType, GigsAssumption
<1> QED
  BY <1>2 DEF SortId

(* Every step of gig creation is one of the catalog or leaves it alone.    *)
LEMMA CatalogStep == IndInv /\ [Next]_vars => [Catalog!Next]_<<Number, visible>>
<1> SUFFICES ASSUME IndInv, [Next]_vars PROVE [Catalog!Next]_<<Number, visible>>
  OBVIOUS
<1> USE DEF Number
<1>0. TypeOK /\ TypeOK' /\ Shown /\ Ranked /\ \A g \in Gigs : Standing(g)
  BY TypeStep DEF IndInv, ListInv
<1>1. ASSUME UNCHANGED <<found, saved, visible>>
      PROVE  UNCHANGED <<Number, visible>>
  BY <1>1 DEF SortId
<1>2. ASSUME NEW g \in Gigs, CreateStep(g)
      PROVE  [Catalog!Next]_<<Number, visible>>
  <2>1. CASE CountGigs(g)
    <3>1. g \notin saved
      BY <1>0, <2>1 DEF CountGigs, Standing, Answers
    <3>2. \A h \in Gigs \ {g} : found'[h] = found[h]
      BY <1>0, <2>1 DEF CountGigs, TypeOK
    <3>3. Number' = Number
      BY <2>1, <3>1, <3>2 DEF CountGigs, SortId
    <3> QED
      BY <2>1, <3>3 DEF CountGigs
  <2>2. CASE InsertGig(g)
    <3>1. g \notin saved
      BY <1>0, <2>2 DEF InsertGig, Standing, Answers
    <3>2. SortId(g) \in 1..(Cardinality(visible) + 1)
      <4>1. found[g] \in SUBSET visible /\ visible \in SUBSET Gigs
        BY <1>0 DEF TypeOK, Ranked
      <4>2. Cardinality(found[g]) <= Cardinality(visible) /\ Cardinality(visible) \in Nat
            /\ Cardinality(found[g]) \in Nat
        BY <4>1, FS_Subset, FS_CardinalityType, GigsAssumption
      <4> QED
        BY <4>2 DEF SortId
    <3>3. Number' = [Number EXCEPT ![g] = SortId(g)] /\ Number[g] = 0
      BY <2>2, <3>1 DEF InsertGig, SortId
    <3>4. Catalog!Store(g)
      <4>1. UNCHANGED visible
        BY <2>2 DEF InsertGig
      <4>2. \E n \in 1..(Catalog!Cardinality(visible) + 1) : Number' = [Number EXCEPT ![g] = n]
        <5>1. Catalog!Cardinality(visible) = Cardinality(visible)
          BY DEF Catalog!Cardinality, Cardinality
        <5> QED
          BY <3>2, <3>3, <5>1, Zenon
      <4> QED
        BY <3>3, <4>1, <4>2, Zenon DEF Catalog!Store
    <3> QED
      BY <3>4 DEF Catalog!Next
  <2>3. CASE ~CountGigs(g) /\ ~InsertGig(g)
    BY <1>1, <1>2, <2>3 DEF CreateStep, CallCreate, CreateGig, UploadCover, OwnerMissing,
       InsertRefused, PublishCount, AddDataToIndex, CreateGigFails, CallFails, CountFails,
       PublishFails, IndexFails
  <2> QED
    BY <2>1, <2>2, <2>3
<1>3. CASE Refresh
  <2>1. Catalog!Stored = saved
    BY <1>0, NumberTyped DEF Catalog!Stored, TypeOK
  <2>2. Catalog!Show
    <3>1. UNCHANGED Number
      BY <1>3 DEF Refresh, SortId
    <3>2. visible' \in (SUBSET saved) \ {visible} /\ visible \subseteq visible'
      BY <1>0, <1>3 DEF Refresh, Shown
    <3> QED
      BY <2>1, <3>1, <3>2, Zenon DEF Catalog!Show
  <2> QED
    BY <2>2 DEF Catalog!Next
<1>4. GigCrash \/ EventStep \/ OtherStep \/ UNCHANGED vars => UNCHANGED <<found, saved, visible>>
  BY DEF GigCrash, EventStep, Deliver, UpdateTotalGigsCount, CountGig, OwnerUnknown, Ack, CountGigFails,
     Subscribe, Disconnect, UserCrash, OtherStep, OpenSeller, CopyArrives, gigVars, vars
<1> QED
  BY <1>1, <1>2, <1>3, <1>4, Steps

(* What searches see implements the catalog: a gig is stored with a number *)
(* that exceeds the number of visible gigs by one at most, keeps it, and   *)
(* once shown stays, whatever fails on the way.                            *)
THEOREM Refinement == Spec => ListsAsCatalog
<1>1. Init => Catalog!Init
  BY DEF Init, Catalog!Init
<1> QED
  BY <1>1, CatalogStep, Inductive, PTL DEF Spec, ListsAsCatalog, Catalog!Spec, Number

-----------------------------------------------------------------------------
(* Theorems about GigSearch.  Nothing is assumed of the gigs but that they *)
(* are stored and shown as a GigCatalog stores and shows them.             *)

(* The gigs on a page without repetition are as many as its length.        *)
LEMMA PageCount ==
  ASSUME NEW S, NEW p \in Seq(S), \A i, j \in 1..Len(p) : i < j => p[i] # p[j]
  PROVE  IsFiniteSet(Items(p)) /\ Cardinality(Items(p)) = Len(p) /\ Items(p) \subseteq S
<1>1. Len(p) \in Nat /\ DOMAIN p = 1..Len(p) /\ p \in [1..Len(p) -> S]
  BY LenProperties
<1>2. p \in Bijection(1..Len(p), Items(p))
  BY <1>1 DEF Items, Bijection, Injection, Surjection, IsInjective
<1>3. IsFiniteSet(1..Len(p)) /\ Cardinality(1..Len(p)) = Len(p)
  BY <1>1, FS_Interval
<1>4. ExistsBijection(1..Len(p), Items(p))
  BY <1>2 DEF ExistsBijection
<1> QED
  BY <1>1, <1>3, <1>4, FS_Bijection DEF Items

(* A page as long as there are gigs has all of them.                       *)
LEMMA WholePage ==
  ASSUME NEW S, IsFiniteSet(S), NEW p \in Seq(S), Len(p) = Cardinality(S),
         \A i, j \in 1..Len(p) : i < j => p[i] # p[j]
  PROVE  Items(p) = S
BY PageCount, FS_Subset

(* Gigs with distinct numbers can be put in ascending order in one way.    *)
LEMMA OneOrder ==
  ASSUME NEW S, NEW num \in [S -> Nat], NEW p \in Seq(S), NEW q \in Seq(S), Items(p) = Items(q),
         \A i, j \in 1..Len(p) : i < j => num[p[i]] < num[p[j]],
         \A i, j \in 1..Len(q) : i < j => num[q[i]] < num[q[j]]
  PROVE  p = q
<1> DEFINE UpTo(g) == {h \in Items(p) : num[h] <= num[g]}
<1>1. ASSUME NEW r \in Seq(S), Items(r) = Items(p), NEW i \in 1..Len(r),
             \A j, k \in 1..Len(r) : j < k => num[r[j]] < num[r[k]]
      PROVE  Cardinality(UpTo(r[i])) = i
  <2>1. Len(r) \in Nat /\ DOMAIN r = 1..Len(r) /\ r \in [1..Len(r) -> S]
    BY LenProperties
  <2> DEFINE first == [j \in 1..i |-> r[j]]
  <2>2. ASSUME NEW j \in 1..i
        PROVE  /\ j \in 1..Len(r) /\ r[j] \in Items(p)
               /\ num[r[j]] \in Nat /\ num[r[j]] <= num[r[i]]
    <3>1. j \in 1..Len(r) /\ r[j] \in S /\ r[i] \in S
      BY <2>1
    <3>2. num[r[j]] \in Nat /\ num[r[i]] \in Nat
      BY <3>1
    <3>3. j < i \/ j = i
      BY <2>1
    <3>4. num[r[j]] <= num[r[i]]
      BY <1>1, <3>1, <3>2, <3>3
    <3>5. r[j] \in Items(p)
      BY <1>1, <2>1, <3>1 DEF Items
    <3> QED
      BY <3>1, <3>2, <3>4, <3>5
  <2>3. ASSUME NEW h \in UpTo(r[i]) PROVE \E j \in 1..i : first[j] = h
    <3>1. PICK j \in 1..Len(r) : r[j] = h
      BY <1>1, <2>1 DEF Items
    <3>2. ~(i < j)
      BY <1>1, <2>1, <2>3, <3>1
    <3> QED
      BY <2>1, <3>1, <3>2
  <2>4. ASSUME NEW j \in 1..i, NEW k \in 1..i, first[j] = first[k] PROVE j = k
    <3>1. j \in 1..Len(r) /\ k \in 1..Len(r) /\ num[r[j]] \in Nat
      BY <2>2
    <3>2. r[j] = r[k]
      BY <2>4
    <3> QED
      BY <1>1, <3>1, <3>2
  <2>5. first \in Bijection(1..i, UpTo(r[i]))
    BY <2>2, <2>3, <2>4 DEF Bijection, Injection, Surjection, IsInjective
  <2>6. ExistsBijection(1..i, UpTo(r[i]))
    BY <2>5 DEF ExistsBijection
  <2>7. IsFiniteSet(1..i) /\ Cardinality(1..i) = i
    BY <2>1, FS_Interval
  <2> QED
    BY <2>6, <2>7, FS_Bijection
<1> HIDE DEF UpTo
<1>2. /\ Len(p) \in Nat /\ DOMAIN p = 1..Len(p) /\ p \in [1..Len(p) -> S]
      /\ Len(q) \in Nat /\ DOMAIN q = 1..Len(q) /\ q \in [1..Len(q) -> S]
  BY LenProperties
<1>3. \A i, j \in 1..Len(p) : i < j => p[i] # p[j]
  BY <1>2
<1>4. \A i, j \in 1..Len(q) : i < j => q[i] # q[j]
  BY <1>2
<1>5. Len(p) = Len(q)
  BY <1>3, <1>4, PageCount
<1>6. ASSUME NEW i \in 1..Len(p) PROVE p[i] = q[i]
  <2>1. p[i] \in Items(q)
    BY <1>2 DEF Items
  <2>2. PICK j \in 1..Len(q) : q[j] = p[i]
    BY <1>2, <2>1 DEF Items
  <2>3. Cardinality(UpTo(p[i])) = i /\ Cardinality(UpTo(q[j])) = j
    BY <1>1
  <2> QED
    BY <2>2, <2>3
<1> QED
  BY <1>2, <1>5, <1>6, SeqEqual

(* What a request finds when V is shown.                                   *)
Found(type, from, V) == {g \in V : InRange(g) /\ After(type, from, g)}

(* Page p has the first of the gigs M in the order of a direction, as many *)
(* as asked for; what is left is further on.  It is in ascending order.    *)
Firsts(type, M, p) ==
    /\ p \in Seq(M)
    /\ Len(p) <= Size
    /\ Len(p) < Size => Items(p) = M
    /\ \A i, j \in 1..Len(p) : i < j => p[i] # p[j] /\ number[p[i]] <= number[p[j]]
    /\ \A g \in M \ Items(p), h \in Items(p) : Precedes(type, h, g)

(* Page p answers a request when V is shown.                               *)
IsPage(type, from, V, p) == Firsts(type, Found(type, from, V), p)

LEMMA SizeTyped == SearchTypeOK => Size \in Nat \ {0}
BY SizesAssumption DEF Size, SearchTypeOK, Queries

LEMMA Numbers ==
  ASSUME SearchTypeOK
  PROVE  \A g \in visible : g \in Gigs /\ number[g] \in Nat \ {0}
BY DEF SearchTypeOK, Source!Stored

(* Every answer is a page of what is visible.                              *)
LEMMA Answered ==
  ASSUME SearchTypeOK, NEW type \in Directions, NEW from,
         NEW hits \in Hits(type, from)
  PROVE  IsPage(type, from, visible, Answer(type, hits))
<1> DEFINE all == Found(type, from, visible)
           n == IF Size < Cardinality(all) THEN Size ELSE Cardinality(all)
           p == Answer(type, hits)
<1>1. Matching(type, from) = all
  BY DEF Matching, Found
<1>2. all \subseteq visible /\ IsFiniteSet(all) /\ Cardinality(all) \in Nat
  <2>1. all \subseteq visible /\ all \in SUBSET Gigs
    BY Numbers DEF Found
  <2>2. IsFiniteSet(all)
    BY <2>1, GigsAssumption, FS_Subset
  <2> QED
    BY <2>1, <2>2, FS_CardinalityType
<1>3. Size \in Nat \ {0} /\ n \in Nat /\ n <= Size /\ n <= Cardinality(all) /\ (n < Size => n = Cardinality(all))
  BY <1>2, SizeTyped
<1> HIDE DEF all
<1>4. /\ hits \in [1..n -> all]
      /\ \A i, j \in 1..n : i < j => hits[i] # hits[j] /\ Precedes(type, hits[i], hits[j])
      /\ \A g \in all \ Items(hits), i \in 1..n : Precedes(type, hits[i], g)
  BY <1>1 DEF Hits
<1> HIDE DEF n
<1>5. hits \in Seq(all) /\ Len(hits) = n /\ DOMAIN hits = 1..n
  BY <1>3, <1>4, IsASeq, LenProperties
<1>6. \A i \in 1..n : hits[i] \in all /\ number[hits[i]] \in Nat
  BY <1>2, <1>4, Numbers
<1>7. /\ p \in [1..n -> all] /\ Items(p) = Items(hits)
      /\ \A i, j \in 1..n : i < j => p[i] # p[j] /\ number[p[i]] <= number[p[j]]
  <2>1. CASE type = "forward"
    <3>1. p = hits
      BY <2>1 DEF Answer
    <3> QED
      BY <1>4, <2>1, <3>1 DEF Precedes
  <2>2. CASE type = "backward"
    <3>1. p = [i \in 1..n |-> hits[n + 1 - i]]
      BY <1>5, <2>2 DEF Answer
    <3>2. \A i \in 1..n : n + 1 - i \in 1..n /\ n + 1 - (n + 1 - i) = i
      BY <1>3
    <3>3. p \in [1..n -> all] /\ \A i \in 1..n : p[i] = hits[n + 1 - i]
      BY <1>4, <3>1, <3>2
    <3>4. Items(p) = Items(hits)
      <4>1. ASSUME NEW g \in Items(p) PROVE g \in Items(hits)
        BY <1>5, <3>2, <3>3, <4>1 DEF Items
      <4>2. ASSUME NEW g \in Items(hits) PROVE g \in Items(p)
        <5>1. PICK i \in 1..n : hits[i] = g
          BY <1>5 DEF Items
        <5>2. n + 1 - i \in 1..n /\ p[n + 1 - i] = g
          BY <3>2, <3>3, <5>1
        <5> QED
          BY <3>3, <5>2 DEF Items
      <4> QED
        BY <4>1, <4>2
    <3>5. ASSUME NEW i \in 1..n, NEW j \in 1..n, i < j
          PROVE  p[i] # p[j] /\ number[p[i]] <= number[p[j]]
      <4>1. n + 1 - j < n + 1 - i /\ n + 1 - j \in 1..n /\ n + 1 - i \in 1..n
        BY <1>3, <3>2, <3>5
      <4>2. p[i] = hits[n + 1 - i] /\ p[j] = hits[n + 1 - j]
        BY <3>3
      <4>3. hits[n + 1 - j] # hits[n + 1 - i] /\ Precedes(type, hits[n + 1 - j], hits[n + 1 - i])
        BY <1>4, <4>1
      <4> QED
        BY <1>6, <2>2, <4>1, <4>2, <4>3 DEF Precedes
    <3> QED
      BY <3>3, <3>4, <3>5
  <2> QED
    BY <2>1, <2>2 DEF Directions
<1> HIDE DEF p
<1>8. p \in Seq(all) /\ Len(p) = n /\ DOMAIN p = 1..n
  BY <1>3, <1>7, IsASeq, LenProperties
<1>9. n < Size => Items(p) = all
  BY <1>2, <1>3, <1>7, <1>8, WholePage
<1>10. ASSUME NEW g \in all \ Items(p), NEW h \in Items(p) PROVE Precedes(type, h, g)
  <2>1. g \in all \ Items(hits) /\ h \in Items(hits)
    BY <1>7 DEF Items
  <2>2. PICK i \in 1..n : hits[i] = h
    BY <1>5, <2>1 DEF Items
  <2> QED
    BY <1>4, <2>1, <2>2
<1> QED
  BY <1>3, <1>7, <1>8, <1>9, <1>10 DEF IsPage, Firsts, all, p

(* Where a direction goes on from a page.                                  *)
Edge(type, p) == number[p[IF type = "forward" THEN Len(p) ELSE 1]]

LEMMA EdgeFacts ==
  ASSUME SearchTypeOK, NEW V \in SUBSET visible, NEW type \in Directions, NEW from,
         NEW p, p # <<>>, IsPage(type, from, V, p), NEW d \in Directions
  PROVE  /\ Edge(d, p) \in Nat \ {0}
         /\ \E g \in Items(p) : number[g] = Edge(d, p)
         /\ \A g \in Items(p) : /\ g \in V /\ number[g] \in Nat
                                /\ d = "forward" => number[g] <= Edge(d, p)
                                /\ d = "backward" => number[g] >= Edge(d, p)
<1>1. p \in Seq(V)
  BY SeqMonotonic DEF IsPage, Firsts, Found
<1>2. Len(p) \in Nat /\ DOMAIN p = 1..Len(p) /\ p \in [1..Len(p) -> V] /\ Len(p) # 0
  BY <1>1, LenProperties, EmptySeq
<1>3. \A i \in 1..Len(p) : p[i] \in V /\ p[i] \in Items(p) /\ number[p[i]] \in Nat \ {0}
  BY <1>2, Numbers DEF Items
<1>4. PICK k \in 1..Len(p) : k = IF d = "forward" THEN Len(p) ELSE 1
  <2>1. Len(p) \in 1..Len(p) /\ 1 \in 1..Len(p)
    BY <1>2
  <2> QED
    BY <2>1, Zenon
<1>5. Edge(d, p) = number[p[k]]
  BY <1>4 DEF Edge
<1>6. ASSUME NEW g \in Items(p)
      PROVE  /\ g \in V /\ number[g] \in Nat
             /\ d = "forward" => number[g] <= Edge(d, p)
             /\ d = "backward" => number[g] >= Edge(d, p)
  <2>1. PICK i \in 1..Len(p) : p[i] = g
    BY <1>2 DEF Items
  <2>2. i = k \/ (d = "forward" /\ i < k) \/ (d = "backward" /\ k < i)
    <3>1. CASE d = "forward"
      <4>1. k = Len(p)
        BY <1>4, <3>1
      <4>2. i \in Nat /\ k \in Nat /\ i <= k
        BY <1>2, <4>1
      <4> QED
        BY <3>1, <4>2
    <3>2. CASE d = "backward"
      BY <1>2, <1>4, <3>2
    <3> QED
      BY <3>1, <3>2 DEF Directions
  <2>3. \A j, l \in 1..Len(p) : j < l => number[p[j]] <= number[p[l]]
    BY DEF IsPage, Firsts
  <2> QED
    BY <1>3, <1>5, <2>1, <2>2, <2>3
<1> QED
  BY <1>3, <1>5, <1>6

(* What any step does to the catalog: what is visible stays and keeps its  *)
(* number.                                                                 *)
CatalogKept == /\ UNCHANGED <<price, query>>
               /\ visible \subseteq visible'
               /\ \A g \in visible : number'[g] = number[g]

LEMMA Kept ==
  ASSUME SearchTypeOK, [SearchNext]_searchVars
  PROVE  /\ CatalogKept
         /\ number' \in [Gigs -> Nat] /\ visible' \subseteq Source!Stored'
<1>1. number \in [Gigs -> Nat] /\ visible \subseteq Source!Stored
  BY DEF SearchTypeOK
<1>2. ASSUME NEW g \in Gigs, Source!Store(g), UNCHANGED <<price, query>>
      PROVE  /\ CatalogKept
             /\ number' \in [Gigs -> Nat] /\ visible' \subseteq Source!Stored'
  <2>1. visible \in SUBSET Gigs
    BY <1>1 DEF Source!Stored
  <2>2. Source!Cardinality(visible) \in Nat
    BY <2>1, GigsAssumption, FS_Subset, FS_CardinalityType DEF Source!Cardinality, Cardinality
  <2>3. PICK n \in Nat \ {0} : number' = [number EXCEPT ![g] = n]
    <3>1. PICK n \in 1..(Source!Cardinality(visible) + 1) : number' = [number EXCEPT ![g] = n]
      BY <1>2, Zenon DEF Source!Store
    <3>2. n \in Nat \ {0}
      BY <2>2
    <3> QED
      BY <3>1, <3>2, Zenon
  <2>4. g \notin visible /\ visible' = visible
    BY <1>1, <1>2 DEF Source!Store, Source!Stored
  <2> QED
    BY <1>1, <1>2, <2>1, <2>3, <2>4 DEF Source!Stored, CatalogKept
<1>3. CASE Source!Show /\ UNCHANGED <<price, query>>
  BY <1>1, <1>3 DEF Source!Show, Source!Stored, CatalogKept
<1>4. CASE UNCHANGED <<price, query, number, visible>>
  BY <1>1, <1>4 DEF Source!Stored, CatalogKept
<1> QED
  BY <1>2, <1>3, <1>4 DEF SearchNext, Publish, Source!Next, Start, Continue,
     Request, searchVars, catalog, client

LEMMA PageStays ==
  ASSUME CatalogKept, NEW V \in SUBSET visible, NEW type, NEW from, NEW p, IsPage(type, from, V, p)
  PROVE  IsPage(type, from, V, p)'
<1>1. Size' = Size
  BY DEF CatalogKept, Size
<1>2. \A g \in V : /\ InRange(g)' <=> InRange(g)
                   /\ number'[g] = number[g]
  BY DEF CatalogKept, InRange, Given, EMPTY_NUMBER
<1>3. Found(type, from, V)' = Found(type, from, V)
  BY <1>2 DEF Found, After, NoFrom
<1>4. \A g, h \in V : Precedes(type, h, g)' <=> Precedes(type, h, g)
  BY <1>2 DEF Precedes
<1>5. Items(p)' = Items(p) /\ Items(p) \subseteq Found(type, from, V) /\ Found(type, from, V) \subseteq V
  <2>1. p \in Seq(Found(type, from, V))
    BY DEF IsPage, Firsts
  <2> QED
    BY <2>1, LenProperties DEF Items, Found
<1>6. \A i, j \in 1..Len(p) : /\ i < j => p[i] # p[j] /\ number[p[i]] <= number[p[j]]
                              /\ number'[p[i]] = number[p[i]]
  <2>1. p \in Seq(V)
    BY SeqMonotonic DEF IsPage, Firsts, Found
  <2>2. \A i \in 1..Len(p) : p[i] \in V
    BY <2>1, ElementOfSeq
  <2> QED
    BY <1>2, <2>2 DEF IsPage, Firsts
<1>7. \A i, j \in 1..Len(p) : i < j => p[i] # p[j] /\ number'[p[i]] <= number'[p[j]]
  BY <1>6
<1>8. \A g \in Found(type, from, V) \ Items(p), h \in Items(p) : Precedes(type, h, g)'
  BY <1>4, <1>5 DEF IsPage, Firsts
<1> QED
  BY <1>1, <1>3, <1>5, <1>7, <1>8 DEF IsPage, Firsts

(* A request is answered with a page of what is visible.                   *)
LEMMA Requested ==
  ASSUME SearchTypeOK, NEW type \in Directions, NEW from, Request(type, from)
  PROVE  /\ IsPage(type, from, visible, page')
         /\ page' \in Seq(visible) /\ Len(page') \in Nat
         /\ Items(page') \subseteq Found(type, from, visible)
         /\ IsFiniteSet(Items(page')) /\ Cardinality(Items(page')) = Len(page')
<1>1. IsPage(type, from, visible, page')
  BY Answered DEF Request
<1>2. page' \in Seq(Found(type, from, visible))
  BY <1>1 DEF IsPage, Firsts
<1>3. page' \in Seq(visible)
  BY <1>2, SeqMonotonic DEF Found
<1>4. Len(page') \in Nat
  BY <1>2, LenProperties
<1>5. \A i, j \in 1..Len(page') : i < j => page'[i] # page'[j]
  BY <1>1 DEF IsPage, Firsts
<1> QED
  BY <1>1, <1>2, <1>3, <1>4, <1>5, PageCount

LEMMA Moves ==
  ASSUME [SearchNext]_searchVars
  PROVE  \/ UNCHANGED client
         \/ \E type \in Directions : Start(type) \/ Continue(type)
BY DEF SearchNext, Publish, searchVars, Directions

LEMMA SearchTypeInit == SearchInit => SearchTypeOK
<1> SUFFICES ASSUME SearchInit PROVE SearchTypeOK
  OBVIOUS
<1>1. number \in [Gigs -> Nat] /\ visible = {}
  BY DEF SearchInit, Source!Init
<1>2. page \in Seq(visible) /\ before.page \in Seq(visible) /\ before.at = {} /\ at = {}
  BY EmptySeq DEF SearchInit
<1>3. pages \in 0..MaxPages
  BY PagesAssumption DEF SearchInit
<1> QED
  BY <1>1, <1>2, <1>3 DEF SearchInit, SearchTypeOK

LEMMA SearchTypeStep ==
  ASSUME SearchTypeOK, [SearchNext]_searchVars
  PROVE  SearchTypeOK'
<1>0. /\ CatalogKept /\ number' \in [Gigs -> Nat] /\ visible' \subseteq Source!Stored'
      /\ \A S : S \in Seq(visible) => S \in Seq(visible')
      /\ visible \in SUBSET Gigs
  <2>1. CatalogKept /\ number' \in [Gigs -> Nat] /\ visible' \subseteq Source!Stored'
    BY Kept
  <2>2. \A S : S \in Seq(visible) => S \in Seq(visible')
    BY <2>1, SeqMonotonic DEF CatalogKept
  <2> QED
    BY <2>1, <2>2, Numbers
<1>1. price' \in [Gigs -> Prices] /\ query' \in Queries
  BY <1>0 DEF CatalogKept, SearchTypeOK
<1>2. CASE UNCHANGED client
  BY <1>0, <1>1, <1>2 DEF SearchTypeOK, client, CatalogKept
<1>3. ASSUME NEW type \in Directions, NEW from, Request(type, from)
      PROVE  /\ page' \in Seq(visible') /\ before'.page \in Seq(visible')
             /\ before'.at \subseteq at' /\ at' \subseteq visible'
             /\ dir' \in Directions /\ pages' \in 0..MaxPages
             /\ Items(page') \subseteq Gigs /\ Len(page') \in Nat
  <2>1. /\ page' \in Seq(visible') /\ Len(page') \in Nat /\ Items(page') \subseteq visible
    BY <1>0, <1>3, Requested DEF Found
  <2>2. before'.page = page /\ before'.at = at /\ at' = visible /\ dir' = type
    BY <1>3 DEF Request
  <2>3. pages' \in 0..MaxPages
    BY <1>3, PagesAssumption DEF Request, SearchTypeOK
  <2> QED
    BY <1>0, <2>1, <2>2, <2>3 DEF SearchTypeOK, CatalogKept, Directions
<1>4. ASSUME NEW type \in Directions, Start(type) PROVE SearchTypeOK'
  <2>1. Request(type, NoFrom)
    BY <1>4 DEF Start
  <2>2. walk' \in BOOLEAN /\ start' \subseteq Gigs /\ seen' \subseteq Gigs /\ received' \in Nat
    BY <1>0, <1>3, <1>4, <2>1 DEF Start, Items
  <2> QED
    BY <1>0, <1>1, <1>3, <2>1, <2>2 DEF SearchTypeOK
<1>5. ASSUME NEW type \in Directions, Continue(type) PROVE SearchTypeOK'
  <2>1. Request(type, Cursor(type))
    BY <1>5 DEF Continue
  <2>2. walk' \in BOOLEAN /\ start' \subseteq Gigs /\ seen' \subseteq Gigs /\ received' \in Nat
    BY <1>0, <1>3, <1>5, <2>1 DEF Continue, Items, SearchTypeOK
  <2> QED
    BY <1>0, <1>1, <1>3, <2>1, <2>2 DEF SearchTypeOK
<1> QED
  BY <1>2, <1>4, <1>5, Moves

(* Paging one way, the client got what is not beyond the edge of its page, *)
(* each gig once; of what was there when it began only gigs beyond a full  *)
(* page, or with the number of one it got, are missing.                    *)
Walked ==
    walk => /\ Items(page) \subseteq seen /\ seen \subseteq visible /\ start \subseteq visible
            /\ received = Cardinality(seen)
            /\ page # <<>> => \A g \in seen : ~After(dir, Edge(dir, page), g)
            /\ \A g \in start : InRange(g) =>
                  \/ \E h \in seen : number[h] = number[g]
                  \/ Len(page) = Size /\ After(dir, Edge(dir, page), g)

(* What a page says of the gigs that were found, and of those before it.   *)
LEMMA PageReaches ==
  ASSUME SearchTypeOK, NEW type \in Directions, NEW from \in Nat, NEW p,
         IsPage(type, from, visible, p)
  PROVE  /\ p # <<>> =>
                /\ \A g \in Items(p) : ~After(type, Edge(type, p), g)
                /\ from # 0 => \A g \in visible :
                                  ~After(type, from, g) => ~After(type, Edge(type, p), g)
         /\ \A g \in Found(type, from, visible) :
                \/ \E h \in Items(p) : number[h] = number[g]
                \/ p # <<>> /\ Len(p) = Size /\ After(type, Edge(type, p), g)
<1>1. /\ Len(p) \in Nat /\ Len(p) <= Size /\ Size \in Nat \ {0}
      /\ p = <<>> => Len(p) = 0
      /\ Items(p) \subseteq Found(type, from, visible)
  <2>1. p \in Seq(Found(type, from, visible))
    BY DEF IsPage, Firsts
  <2>2. Len(p) \in Nat /\ DOMAIN p = 1..Len(p) /\ \A i \in 1..Len(p) : p[i] \in Found(type, from, visible)
    BY <2>1, LenProperties, ElementOfSeq
  <2>3. p = <<>> => Len(p) = 0
    BY <2>1, EmptySeq
  <2> QED
    BY <2>2, <2>3, SizeTyped DEF IsPage, Firsts, Items
<1>2. ASSUME p # <<>>
      PROVE  /\ \E e \in Items(p) : number[e] = Edge(type, p)
             /\ \A g \in Items(p) : ~After(type, Edge(type, p), g)
             /\ from # 0 => \A g \in visible :
                               ~After(type, from, g) => ~After(type, Edge(type, p), g)
  <2>1. /\ Edge(type, p) \in Nat \ {0}
        /\ \E g \in Items(p) : number[g] = Edge(type, p)
        /\ \A g \in Items(p) : /\ g \in visible /\ number[g] \in Nat
                               /\ type = "forward" => number[g] <= Edge(type, p)
                               /\ type = "backward" => number[g] >= Edge(type, p)
    BY <1>2, EdgeFacts
  <2>2. ASSUME NEW g \in Items(p) PROVE ~After(type, Edge(type, p), g)
    <3>1. /\ Edge(type, p) # 0 /\ Edge(type, p) \in Nat /\ number[g] \in Nat
          /\ type = "forward" => number[g] <= Edge(type, p)
          /\ type = "backward" => number[g] >= Edge(type, p)
      BY <2>1
    <3>2. ~(type = "forward" /\ number[g] > Edge(type, p))
      BY <3>1
    <3>3. ~(type = "backward" /\ number[g] < Edge(type, p))
      BY <3>1
    <3> QED
      BY <3>1, <3>2, <3>3 DEF After, NoFrom
  <2>3. ASSUME from # 0, NEW g \in visible, ~After(type, from, g)
        PROVE  ~After(type, Edge(type, p), g)
    <3>1. PICK e \in Items(p) : number[e] = Edge(type, p)
      BY <2>1
    <3>2. After(type, from, e)
      BY <1>1 DEF Found
    <3>3. number[g] \in Nat
      BY Numbers
    <3> QED
      BY <2>1, <2>3, <3>1, <3>2, <3>3 DEF After, NoFrom, Directions
  <2> QED
    BY <2>1, <2>2, <2>3
<1>3. ASSUME NEW g \in Found(type, from, visible), \A h \in Items(p) : number[h] # number[g]
      PROVE  p # <<>> /\ Len(p) = Size /\ After(type, Edge(type, p), g)
  <2>1. g \notin Items(p)
    BY <1>3
  <2>2. Len(p) = Size /\ p # <<>>
    BY <1>1, <2>1 DEF IsPage, Firsts
  <2>3. PICK e \in Items(p) : number[e] = Edge(type, p)
    BY <1>2, <2>2
  <2>4. Precedes(type, e, g)
    BY <2>1 DEF IsPage, Firsts
  <2>5. number[e] \in Nat /\ number[g] \in Nat /\ number[e] # number[g]
    BY <1>1, <1>3, Numbers DEF Found
  <2> QED
    BY <2>2, <2>3, <2>4, <2>5 DEF Precedes, After, Directions
<1> QED
  BY <1>2, <1>3

(* A new page leaves the client of a walk with no more missing than that.  *)
LEMMA WalkGoesOn ==
  ASSUME SearchTypeOK, Walked, NEW type \in Directions, Start(type) \/ Continue(type)
  PROVE  Walked'
<1> SUFFICES ASSUME walk' PROVE Walked'
  BY DEF Walked
<1>0. PICK from \in Nat : /\ Request(type, from)
                          /\ \/ Start(type) /\ from = 0
                             \/ Continue(type) /\ from = Edge(type, page) /\ from # 0 /\ page # <<>>
  <2>1. CASE Start(type)
    BY <2>1 DEF Start, NoFrom
  <2>2. CASE Continue(type)
    <3>1. Request(type, Edge(type, page)) /\ page # <<>>
      BY <2>2 DEF Continue, Cursor, Edge
    <3>2. Edge(type, page) \in Nat \ {0}
      <4>1. page \in Seq(visible)
        BY DEF SearchTypeOK
      <4>2. Len(page) \in Nat /\ Len(page) # 0
        BY <3>1, <4>1, LenProperties, EmptySeq
      <4>3. page[Len(page)] \in visible /\ page[1] \in visible
        BY <4>1, <4>2, ElementOfSeq
      <4> QED
        BY <4>3, Numbers DEF Edge
    <3> QED
      BY <2>2, <3>1, <3>2
  <2> QED
    BY <2>1, <2>2
<1> DEFINE far(g) == After(type, Edge(type, page'), g)
<1>1. /\ IsPage(type, from, visible, page')
      /\ Len(page') \in Nat /\ page' \in Seq(visible)
      /\ Items(page') \subseteq Found(type, from, visible) /\ Items(page') \subseteq visible
      /\ IsFiniteSet(Items(page')) /\ Cardinality(Items(page')) = Len(page')
  BY <1>0, Requested DEF Found
<1>2. /\ page' # <<>> => /\ \A g \in Items(page') : ~far(g)
                         /\ from # 0 => \A g \in visible : ~After(type, from, g) => ~far(g)
      /\ \A g \in Found(type, from, visible) :
            (\E h \in Items(page') : number[h] = number[g]) \/ (Len(page') = Size /\ far(g))
  BY <1>1, PageReaches
<1>3. /\ number' = number /\ visible' = visible /\ dir' = type
      /\ Size' = Size /\ Items(page)' = Items(page') /\ Edge(dir, page)' = Edge(type, page')
      /\ \A g \in Gigs : InRange(g)' <=> InRange(g)
  <2>1. number' = number /\ visible' = visible /\ dir' = type /\ UNCHANGED <<price, query>>
    BY <1>0 DEF Request, catalog
  <2> QED
    BY <2>1 DEF Size, Items, Edge, InRange, Given, EMPTY_NUMBER
<1>4. \A g : After(dir, Edge(dir, page), g)' <=> far(g)
  BY <1>3 DEF After, NoFrom
<1>5. CASE Start(type) /\ from = 0
  <2>1. seen' = Items(page') /\ received' = Len(page') /\ start' = visible
    BY <1>5 DEF Start, Items
  <2>2. \A g \in visible : InRange(g) => g \in Found(type, from, visible)
    BY <1>5 DEF Found, After, NoFrom
  <2>3. \A g \in start' : InRange(g)' =>
              (\E h \in seen' : number'[h] = number'[g]) \/ (Len(page') = Size' /\ far(g))
    BY <1>2, <1>3, <2>1, <2>2, Numbers
  <2>4. received' = Cardinality(seen')
    BY <1>1, <2>1
  <2>5. page' # <<>> => \A g \in seen' : ~far(g)
    BY <1>2, <2>1
  <2>6. Items(page') \subseteq seen' /\ seen' \subseteq visible' /\ start' \subseteq visible'
    BY <1>1, <1>3, <2>1
  <2> QED
    BY <1>3, <1>4, <2>3, <2>4, <2>5, <2>6 DEF Walked
<1>6. CASE Continue(type) /\ from = Edge(type, page) /\ from # 0 /\ page # <<>>
  <2>1. /\ walk /\ type = dir /\ seen' = seen \cup Items(page')
        /\ received' = received + Len(page') /\ start' = start
    BY <1>6 DEF Continue, Items
  <2>2. /\ seen \subseteq visible /\ start \subseteq visible /\ received = Cardinality(seen)
        /\ \A g \in seen : ~After(type, from, g)
        /\ \A g \in start : InRange(g) =>
               (\E h \in seen : number[h] = number[g]) \/ After(type, from, g)
    BY <1>6, <2>1 DEF Walked
  <2>3. ASSUME page' # <<>>, NEW g \in seen' PROVE ~far(g)
    <3>1. CASE g \in Items(page')
      BY <1>2, <2>3, <3>1
    <3>2. CASE g \in seen
      <4>1. g \in visible /\ ~After(type, from, g)
        BY <2>2, <3>2
      <4> QED
        BY <1>2, <1>6, <2>3, <4>1
    <3> QED
      BY <2>1, <2>3, <3>1, <3>2
  <2>4. received' = Cardinality(seen')
    <3>1. seen \cap Items(page') = {}
      BY <1>1, <2>2 DEF Found
    <3>2. IsFiniteSet(seen)
      BY <2>2, Numbers, GigsAssumption, FS_Subset
    <3>3. Cardinality(seen \cap Items(page')) = 0
      BY <3>1, FS_EmptySet
    <3>4. Cardinality(seen) \in Nat
      BY <3>2, FS_CardinalityType
    <3>5. Cardinality(seen \cup Items(page')) = Cardinality(seen) + Len(page') - 0
      BY <1>1, <3>2, <3>3, FS_Union
    <3> QED
      BY <1>1, <2>1, <2>2, <3>4, <3>5
  <2>5. ASSUME NEW g \in start', InRange(g)'
        PROVE  (\E h \in seen' : number'[h] = number'[g]) \/ (Len(page') = Size' /\ far(g))
    <3>1. g \in start /\ g \in visible /\ InRange(g)
      BY <1>3, <2>1, <2>2, <2>5, Numbers
    <3>2. CASE \E h \in seen : number[h] = number[g]
      BY <1>3, <2>1, <3>2
    <3>3. CASE After(type, from, g)
      <4>1. g \in Found(type, from, visible)
        BY <3>1, <3>3 DEF Found
      <4> QED
        BY <1>2, <1>3, <2>1, <4>1
    <3> QED
      BY <2>2, <3>1, <3>2, <3>3
  <2>6. Items(page') \subseteq seen' /\ seen' \subseteq visible' /\ start' \subseteq visible'
    BY <1>1, <1>3, <2>1, <2>2
  <2> QED
    BY <1>3, <1>4, <2>3, <2>4, <2>5, <2>6 DEF Walked
<1> QED
  BY <1>0, <1>5, <1>6

LEMMA WalkWaits ==
  ASSUME SearchTypeOK, Walked, CatalogKept, UNCHANGED client
  PROVE  Walked'
<1> SUFFICES ASSUME walk' PROVE Walked'
  BY DEF Walked
<1>0. UNCHANGED <<query, dir, page, walk, start, seen, received>> /\ walk
  BY DEF client
<1>1. /\ Size' = Size /\ visible \subseteq visible' /\ \A g \in visible : number'[g] = number[g]
      /\ \A g \in visible : InRange(g)' <=> InRange(g)
      /\ Items(page)' = Items(page)
  BY <1>0 DEF CatalogKept, Size, Items, InRange, Given, EMPTY_NUMBER
<1>2. page # <<>> => Edge(dir, page)' = Edge(dir, page)
  <2> SUFFICES ASSUME page # <<>> PROVE Edge(dir, page)' = Edge(dir, page)
    OBVIOUS
  <2>1. page \in Seq(visible)
    BY DEF SearchTypeOK
  <2>2. Len(page) \in Nat /\ Len(page) # 0
    BY <2>1, LenProperties, EmptySeq
  <2>3. page[Len(page)] \in visible /\ page[1] \in visible
    BY <2>1, <2>2, ElementOfSeq
  <2> QED
    BY <1>0, <1>1, <2>3 DEF Edge
<1>3. page # <<>> => \A g \in visible : After(dir, Edge(dir, page), g)' <=> After(dir, Edge(dir, page), g)
  BY <1>0, <1>1, <1>2 DEF After, NoFrom
<1>4. Len(page) = Size => page # <<>>
  BY SizeTyped, EmptySeq
<1> QED
  BY <1>0, <1>1, <1>3, <1>4 DEF Walked

LEMMA WalkInv == SearchSpec => [](SearchTypeOK /\ Walked)
<1>1. SearchInit => SearchTypeOK /\ Walked
  BY SearchTypeInit DEF Walked, SearchInit
<1>2. SearchTypeOK /\ Walked /\ [SearchNext]_searchVars => (SearchTypeOK /\ Walked)'
  BY SearchTypeStep, Kept, WalkWaits, WalkGoesOn, Moves
<1> QED
  BY <1>1, <1>2, PTL DEF SearchSpec

LEMMA WantedInRange ==
  ASSUME SearchTypeOK, NEW g \in Gigs, Wanted(g)
  PROVE  InRange(g)
<1>1. price[g] \in Nat \ {0} /\ query.min \in Bounds /\ query.max \in Bounds
  BY PricesAssumption DEF SearchTypeOK, Queries
<1>2. Bounds \subseteq Int
  BY PricesAssumption DEF Bounds, EMPTY_NUMBER
<1>3. \A n \in Bounds : Given(n) >= 0 => n > 0 /\ Given(n) = n
  BY <1>2 DEF Given, EMPTY_NUMBER
<1> QED
  BY <1>1, <1>2, <1>3 DEF Wanted, InRange

(* Every variable of a search keeps its type.                              *)
THEOREM SearchTyped == SearchSpec => []SearchTypeOK
BY WalkInv, PTL

(* A client that keeps to one direction never gets a gig twice.            *)
THEOREM PagedOnce == SearchSpec => []NothingTwice
<1>1. Walked => NothingTwice
  BY DEF Walked, NothingTwice, Cardinality, Cardinality
<1> QED
  BY <1>1, WalkInv, PTL

(* Nor does it miss one that was there when it began.                      *)
THEOREM PagedAll == SearchSpec => []NothingMissed
<1>1. SearchTypeOK /\ Walked => NothingMissed
  <2> SUFFICES ASSUME SearchTypeOK, Walked, walk, Len(page) < Size, NEW g \in start, Wanted(g)
               PROVE  \E h \in seen : number[h] = number[g]
    BY DEF NothingMissed
  <2>1. InRange(g) /\ Len(page) # Size
    <3>1. g \in Gigs /\ Len(page) \in Nat
      BY LenProperties DEF SearchTypeOK
    <3> QED
      BY <3>1, WantedInRange, SizeTyped DEF Size
  <2> QED
    BY <2>1 DEF Walked
<1> QED
  BY <1>1, WalkInv, PTL

(* The last two pages are answers, the last one to a request that went on  *)
(* from the other.                                                         *)
LastPage == \E from \in Nat : IsPage(dir, from, at, page)
PageBefore == /\ before.page # <<>>
              /\ \E type \in Directions, from \in Nat : IsPage(type, from, before.at, before.page)
WentOn == IsPage(dir, Edge(dir, before.page), at, page)

Traced == /\ pages = 0 => page = <<>>
          /\ pages > 0 => LastPage
          /\ pages > 1 => PageBefore /\ WentOn

LEMMA PageEdgeStays ==
  ASSUME SearchTypeOK, CatalogKept, NEW p \in Seq(visible), p # <<>>, NEW type
  PROVE  Edge(type, p) \in Nat \ {0} /\ Edge(type, p)' = Edge(type, p)
<1>1. Len(p) \in Nat /\ Len(p) # 0
  BY LenProperties, EmptySeq
<1>2. p[Len(p)] \in visible /\ p[1] \in visible
  BY <1>1, ElementOfSeq
<1> QED
  BY <1>2, Numbers DEF Edge, CatalogKept

LEMMA TraceWaits ==
  ASSUME SearchTypeOK, Traced, CatalogKept, UNCHANGED client
  PROVE  Traced'
<1>0. UNCHANGED <<dir, page, before, at, pages>>
  BY DEF client
<1>1. at \in SUBSET visible /\ before.at \in SUBSET visible /\ before.page \in Seq(visible)
  BY DEF SearchTypeOK
<1>2. ASSUME LastPage PROVE LastPage'
  <2>1. PICK from \in Nat : IsPage(dir, from, at, page)
    BY <1>2 DEF LastPage
  <2>2. IsPage(dir, from, at, page)'
    BY <1>0, <1>1, <2>1, PageStays
  <2> QED
    BY <2>2 DEF LastPage
<1>3. ASSUME PageBefore PROVE PageBefore'
  <2>1. PICK type \in Directions, from \in Nat : IsPage(type, from, before.at, before.page)
    BY <1>3 DEF PageBefore
  <2>2. IsPage(type, from, before.at, before.page)'
    BY <1>0, <1>1, <2>1, PageStays
  <2> QED
    BY <1>0, <1>3, <2>2 DEF PageBefore
<1>4. ASSUME PageBefore, WentOn PROVE WentOn'
  <2>1. Edge(dir, before.page)' = Edge(dir, before.page)
    BY <1>0, <1>1, <1>4, PageEdgeStays DEF PageBefore
  <2>2. IsPage(dir, Edge(dir, before.page), at, page)'
    BY <1>0, <1>1, <1>4, <2>1, PageStays DEF WentOn
  <2> QED
    BY <2>2 DEF WentOn
<1> QED
  BY <1>0, <1>2, <1>3, <1>4 DEF Traced

LEMMA TraceGoesOn ==
  ASSUME SearchTypeOK, Traced, CatalogKept, NEW type \in Directions,
         Start(type) \/ Continue(type)
  PROVE  Traced'
<1>1. PICK from \in Nat : /\ Request(type, from)
                          /\ pages > 0 => page # <<>> /\ from = Edge(type, page)
  <2>1. CASE Start(type)
    BY <2>1 DEF Start, NoFrom
  <2>2. CASE Continue(type)
    <3>1. Request(type, Edge(type, page)) /\ page # <<>>
      BY <2>2 DEF Continue, Cursor, Edge
    <3>2. Edge(type, page) \in Nat
      BY <3>1, PageEdgeStays DEF SearchTypeOK
    <3> QED
      BY <3>1, <3>2
  <2> QED
    BY <2>1, <2>2
<1>2. /\ pages \in Nat /\ pages' = pages + 1 /\ dir' = type /\ at' = visible
      /\ before'.page = page /\ before'.at = at
  BY <1>1 DEF Request, SearchTypeOK
<1>3. IsPage(type, from, visible, page')
  BY <1>1, Requested
<1>4. LastPage'
  <2>1. IsPage(dir, from, at, page)'
    BY <1>2, <1>3, PageStays
  <2> QED
    BY <2>1 DEF LastPage
<1>5. ASSUME pages > 0 PROVE PageBefore'
  <2>1. PICK d \in Directions, f \in Nat : IsPage(d, f, at, page)
    BY <1>5 DEF Traced, LastPage, SearchTypeOK, Directions
  <2>2. at \in SUBSET visible
    BY DEF SearchTypeOK
  <2>3. IsPage(d, f, before.at, before.page)'
    BY <1>2, <2>1, <2>2, PageStays
  <2> QED
    BY <1>1, <1>2, <1>5, <2>2, <2>3 DEF PageBefore
<1>6. ASSUME pages > 0 PROVE WentOn'
  <2>1. Edge(dir, before.page)' = from
    BY <1>1, <1>2, <1>6, PageEdgeStays DEF SearchTypeOK
  <2> QED
    BY <1>2, <1>3, <2>1, PageStays DEF WentOn
<1> QED
  BY <1>2, <1>4, <1>5, <1>6 DEF Traced

Distinct == \A g, h \in visible : number[g] = number[h] => g = h

(* Where no two gigs share a number there is one such page.                *)
LEMMA OnePage ==
  ASSUME SearchTypeOK, Distinct, NEW type \in Directions, NEW M \in SUBSET visible,
         NEW p, Firsts(type, M, p), NEW q, Firsts(type, M, q)
  PROVE  p = q
<1>1. /\ Size \in Nat /\ IsFiniteSet(M) /\ Cardinality(M) \in Nat
      /\ \A g \in M : g \in Gigs /\ number[g] \in Nat
      /\ \A g, h \in M : number[g] = number[h] => g = h
  <2>1. IsFiniteSet(M)
    BY Numbers, GigsAssumption, FS_Subset
  <2>2. Cardinality(M) \in Nat
    BY <2>1, FS_CardinalityType
  <2> QED
    BY <2>1, <2>2, SizeTyped, Numbers DEF Distinct
<1>2. ASSUME NEW r, Firsts(type, M, r)
      PROVE  /\ r \in Seq(M) /\ Len(r) \in Nat /\ Items(r) \in SUBSET M
             /\ Cardinality(Items(r)) = Len(r) /\ IsFiniteSet(Items(r))
             /\ Len(r) <= Cardinality(M)
             /\ \A i, j \in 1..Len(r) : i < j => number[r[i]] < number[r[j]]
  <2>1. r \in Seq(M) /\ \A i, j \in 1..Len(r) : i < j => r[i] # r[j] /\ number[r[i]] <= number[r[j]]
    BY <1>2 DEF Firsts
  <2>2. Len(r) \in Nat /\ \A i \in 1..Len(r) : r[i] \in M
    BY <2>1, LenProperties, ElementOfSeq
  <2>3. Items(r) \in SUBSET M /\ Cardinality(Items(r)) = Len(r) /\ IsFiniteSet(Items(r))
    BY <2>1, PageCount
  <2>4. Len(r) <= Cardinality(M)
    BY <1>1, <2>3, FS_Subset
  <2>5. ASSUME NEW i \in 1..Len(r), NEW j \in 1..Len(r), i < j PROVE number[r[i]] < number[r[j]]
    <3>1. r[i] \in M /\ r[j] \in M /\ r[i] # r[j] /\ number[r[i]] <= number[r[j]]
      BY <2>1, <2>2, <2>5
    <3> QED
      BY <1>1, <3>1
  <2> QED
    BY <2>1, <2>2, <2>3, <2>4, <2>5
<1>3. ASSUME NEW r, Firsts(type, M, r), NEW s, Firsts(type, M, s), NEW a \in Items(r) \ Items(s)
      PROVE  FALSE
  <2>1. a \in M /\ Items(s) # M /\ Len(s) = Size
    BY <1>1, <1>2, <1>3 DEF Firsts
  <2>2. Len(r) = Size
    <3>1. Len(s) # Cardinality(M)
      BY <1>1, <1>2, <1>3, <2>1, FS_Subset
    <3>2. Len(s) < Cardinality(M)
      BY <1>1, <1>2, <1>3, <3>1
    <3>3. Items(r) = M => Len(r) = Cardinality(M)
      BY <1>2, <1>3
    <3> QED
      BY <1>1, <1>2, <1>3, <2>1, <3>2, <3>3 DEF Firsts
  <2>3. PICK b \in Items(s) : b \notin Items(r)
    <3> SUFFICES ASSUME Items(s) \in SUBSET Items(r) PROVE FALSE
      OBVIOUS
    <3>1. Cardinality(Items(s)) = Cardinality(Items(r)) /\ IsFiniteSet(Items(r))
      BY <1>2, <1>3, <2>1, <2>2
    <3>2. Items(s) = Items(r)
      BY <3>1, FS_Subset
    <3> QED
      BY <1>3, <3>2
  <2>4. b \in M /\ a # b
    BY <1>2, <1>3, <2>3
  <2>5. Precedes(type, b, a) /\ Precedes(type, a, b)
    BY <1>3, <2>1, <2>3, <2>4 DEF Firsts
  <2>6. number[a] = number[b]
    BY <1>1, <2>1, <2>4, <2>5 DEF Precedes
  <2> QED
    BY <1>1, <2>1, <2>4, <2>6
<1>4. Items(p) = Items(q)
  BY <1>3
<1> DEFINE num == [g \in M |-> number[g]]
<1>5. num \in [M -> Nat]
  BY <1>1
<1>6. ASSUME NEW r, Firsts(type, M, r)
      PROVE  \A i, j \in 1..Len(r) : i < j => num[r[i]] < num[r[j]]
  <2>1. \A i \in 1..Len(r) : r[i] \in M
    BY <1>2, <1>6, ElementOfSeq
  <2> QED
    BY <1>2, <1>6, <2>1
<1>7. p \in Seq(M) /\ q \in Seq(M)
  BY <1>2
<1> HIDE DEF num
<1> QED
  BY <1>4, <1>5, <1>6, <1>7, OneOrder

(* Of a page p0 and the page p1 a client went on to, p0 is what is found   *)
(* on turning round.                                                       *)
LEMMA OtherWay ==
  ASSUME SearchTypeOK, Distinct,
         NEW d0 \in Directions, NEW from \in Nat, NEW p0, IsPage(d0, from, visible, p0), p0 # <<>>,
         NEW d1 \in Directions, NEW p1, IsPage(d1, Edge(d1, p0), visible, p1), p1 # <<>>,
         NEW type \in Directions, type # d1
  PROVE  Firsts(type, Found(type, Edge(type, p1), visible), p0)
<1> DEFINE edge == Edge(d1, p0)
           turn == Edge(type, p1)
           M == Found(type, turn, visible)
<1>1. /\ edge \in Nat \ {0} /\ turn \in Nat \ {0}
      /\ \E g \in Items(p0) : number[g] = edge
      /\ \E g \in Items(p1) : number[g] = turn
      /\ \A g \in Items(p0) : /\ g \in visible /\ number[g] \in Nat
                              /\ d1 = "forward" => number[g] <= edge
                              /\ d1 = "backward" => number[g] >= edge
      /\ \A g \in Items(p1) : /\ g \in visible /\ number[g] \in Nat
                              /\ type = "forward" => number[g] <= turn
                              /\ type = "backward" => number[g] >= turn
  <2>1. visible \in SUBSET visible
    OBVIOUS
  <2>2. /\ edge \in Nat \ {0}
        /\ \E g \in Items(p0) : number[g] = edge
        /\ \A g \in Items(p0) : /\ g \in visible /\ number[g] \in Nat
                                /\ d1 = "forward" => number[g] <= edge
                                /\ d1 = "backward" => number[g] >= edge
    BY <2>1, EdgeFacts
  <2>3. /\ turn \in Nat \ {0}
        /\ \E g \in Items(p1) : number[g] = turn
        /\ \A g \in Items(p1) : /\ g \in visible /\ number[g] \in Nat
                                /\ type = "forward" => number[g] <= turn
                                /\ type = "backward" => number[g] >= turn
    BY <2>1, EdgeFacts
  <2> QED
    BY <2>2, <2>3
<1>2. PICK last \in Items(p0) : number[last] = edge
  BY <1>1
<1>3. PICK first \in Items(p1) : number[first] = turn
  BY <1>1
<1>4. /\ \A g \in visible : g \in Gigs /\ number[g] \in Nat \ {0}
      /\ \A g, h \in visible : number[g] = number[h] => g = h
      /\ last \in visible /\ first \in visible
  BY <1>1, Numbers DEF Distinct
<1>5. /\ Items(p0) \subseteq Found(d0, from, visible)
      /\ Items(p1) \subseteq Found(d1, edge, visible)
      /\ Len(p0) \in Nat
  <2>1. p0 \in Seq(Found(d0, from, visible)) /\ p1 \in Seq(Found(d1, edge, visible))
    BY DEF IsPage, Firsts
  <2> QED
    BY <2>1, LenProperties, ElementOfSeq DEF Items
<1> HIDE DEF edge, turn
(* What is found is all that does not lie beyond p0.                       *)
<1>6. ASSUME NEW g \in visible, InRange(g)
      PROVE  After(type, turn, g) <=> ~After(d1, edge, g)
  <2>1. number[first] \in Nat /\ After(d1, edge, first) /\ number[g] \in Nat
    BY <1>4, <1>5, <1>6 DEF Found
  <2>2. ASSUME After(d1, edge, g) PROVE ~After(type, turn, g)
    <3>1. g \in Found(d1, edge, visible)
      BY <1>6, <2>2 DEF Found
    <3>2. CASE g \in Items(p1)
      BY <1>1, <2>1, <3>2 DEF After, NoFrom, Directions
    <3>3. CASE g \notin Items(p1)
      <4>1. Precedes(d1, first, g)
        BY <3>1, <3>3 DEF IsPage, Firsts, edge
      <4> QED
        BY <1>1, <1>3, <2>1, <4>1 DEF Precedes, After, NoFrom, Directions
    <3> QED
      BY <3>2, <3>3
  <2>3. ASSUME ~After(d1, edge, g) PROVE After(type, turn, g)
    BY <1>1, <1>3, <2>1, <2>3 DEF After, NoFrom, Directions
  <2> QED
    BY <2>2, <2>3
<1>7. ASSUME NEW g \in Items(p0) PROVE g \in M /\ ~After(d1, edge, g)
  <2>1. g \in visible /\ InRange(g) /\ number[g] \in Nat
    BY <1>4, <1>5 DEF Found
  <2>2. ~After(d1, edge, g)
    <3>1. (d1 = "forward" => number[g] <= edge) /\ (d1 = "backward" => number[g] >= edge)
      BY <1>1
    <3> QED
      BY <1>1, <2>1, <3>1 DEF After, NoFrom, Directions
  <2> QED
    BY <1>6, <2>1, <2>2 DEF Found
<1>8. ASSUME NEW g \in M \ Items(p0)
      PROVE  Len(p0) = Size /\ \A h \in Items(p0) : Precedes(type, h, g)
  <2>1. /\ g \in visible /\ InRange(g) /\ ~After(d1, edge, g)
        /\ number[g] \in Nat /\ number[g] # edge
    BY <1>2, <1>4, <1>6, <1>8 DEF Found
  <2>2. After(d0, from, last) /\ \A h \in Items(p0) : After(d0, from, h) /\ number[h] \in Nat
    BY <1>4, <1>5 DEF Found
  <2>3. ASSUME g \in Found(d0, from, visible)
        PROVE  Len(p0) = Size /\ \A h \in Items(p0) : Precedes(d0, h, g)
    BY <1>5, <1>8, <2>3, SizeTyped DEF IsPage, Firsts
  <2>4. CASE d0 = d1
    <3>1. ~After(d0, from, g)
      <4> SUFFICES ASSUME After(d0, from, g) PROVE FALSE
        OBVIOUS
      <4>1. Precedes(d0, last, g)
        BY <2>1, <2>3 DEF Found
      <4> QED
        BY <1>1, <1>2, <2>1, <2>4, <4>1 DEF Precedes, After, NoFrom, Directions
    <3>2. ASSUME NEW h \in Items(p0) PROVE Precedes(type, h, g)
      BY <2>1, <2>2, <2>4, <3>1 DEF Precedes, After, NoFrom, Directions
    <3>3. Len(p0) = Size
      <4>1. first \in visible /\ InRange(first) /\ After(d1, edge, first) /\ number[first] \in Nat
        BY <1>4, <1>5 DEF Found
      <4>2. first \notin Items(p0)
        BY <1>7, <4>1
      <4>3. After(d0, from, first)
        BY <1>1, <1>2, <2>2, <2>4, <4>1 DEF After, NoFrom, Directions
      <4>4. first \in Found(d0, from, visible)
        BY <4>1, <4>3 DEF Found
      <4> QED
        BY <1>5, <4>2, <4>4, SizeTyped DEF IsPage, Firsts
    <3> QED
      BY <3>2, <3>3
  <2>5. CASE d0 = type
    <3>1. After(d0, from, g)
      BY <1>1, <1>2, <2>1, <2>2, <2>5 DEF After, NoFrom, Directions
    <3> QED
      BY <2>1, <2>3, <2>5, <3>1 DEF Found
  <2> QED
    BY <2>4, <2>5 DEF Directions
<1>9. p0 \in Seq(M)
  <2>1. p0 \in Seq(Found(d0, from, visible))
    BY DEF IsPage, Firsts
  <2>2. \A i \in 1..Len(p0) : p0[i] \in M
    BY <1>7, <2>1, LenProperties DEF Items
  <2> QED
    BY <2>1, <2>2, LenProperties, IsASeq
<1>10. /\ Len(p0) <= Size
       /\ \A i, j \in 1..Len(p0) : i < j => p0[i] # p0[j] /\ number[p0[i]] <= number[p0[j]]
  BY DEF IsPage, Firsts
<1>11. Firsts(type, M, p0)
  <2> HIDE DEF M
  <2>1. Len(p0) < Size => Items(p0) = M
    <3>1. Items(p0) \subseteq M
      BY <1>7
    <3>2. Len(p0) # Size => M \subseteq Items(p0)
      BY <1>8
    <3>3. Len(p0) < Size => Len(p0) # Size
      BY <1>5, SizeTyped
    <3> QED
      BY <3>1, <3>2, <3>3
  <2>2. \A g \in M \ Items(p0), h \in Items(p0) : Precedes(type, h, g)
    BY <1>8
  <2> QED
    BY <1>9, <1>10, <2>1, <2>2 DEF Firsts
<1> QED
  BY <1>11 DEF turn

(* A client that turns round comes back to the page before.                *)
LEMMA TurnedBack ==
  ASSUME SearchTypeOK, Traced, Distinct, [SearchNext]_searchVars,
         dir' # dir, pages > 1, before.at = visible
  PROVE  page' = before.page
<1>1. PICK type \in Directions : Continue(type)
  <2>1. dir \in Directions /\ pages # 0
    BY DEF SearchTypeOK, Directions
  <2> QED
    BY <2>1, Moves DEF client, Start
<1>2. page # <<>> /\ type # dir /\ Request(type, Edge(type, page))
  BY <1>1 DEF Continue, Request, Cursor, Edge
<1>3. IsPage(type, Edge(type, page), visible, page')
  BY <1>2, Requested
<1>4. at = visible /\ dir \in Directions
  BY DEF SearchTypeOK, Directions
<1>5. before.page # <<>> /\ IsPage(dir, Edge(dir, before.page), visible, page)
  BY <1>4 DEF Traced, PageBefore, WentOn
<1>6. PICK d \in Directions, from \in Nat : IsPage(d, from, visible, before.page)
  BY DEF Traced, PageBefore
<1>7. Firsts(type, Found(type, Edge(type, page), visible), before.page)
  BY <1>2, <1>4, <1>5, <1>6, OtherWay
<1>8. Firsts(type, Found(type, Edge(type, page), visible), page')
  BY <1>3 DEF IsPage
<1>9. Found(type, Edge(type, page), visible) \in SUBSET visible
  BY DEF Found
<1> QED
  BY <1>7, <1>8, <1>9, OnePage

LEMMA TraceInv == SearchSpec => [](SearchTypeOK /\ Traced)
<1>1. SearchInit => SearchTypeOK /\ Traced
  BY SearchTypeInit DEF Traced, SearchInit
<1>2. SearchTypeOK /\ Traced /\ [SearchNext]_searchVars => (SearchTypeOK /\ Traced)'
  BY SearchTypeStep, Kept, TraceWaits, TraceGoesOn, Moves
<1> QED
  BY <1>1, <1>2, PTL DEF SearchSpec

(* Turning round brings back the page before, if nothing was shown between *)
(* and sort numbers are distinct.                                          *)
THEOREM TurningRound == SearchSpec => ReturnTrip
<1>1. SearchTypeOK /\ Traced /\ [SearchNext]_searchVars =>
         [(/\ dir' # dir /\ pages > 1 /\ before.at = visible
           /\ \A g, h \in visible : number[g] = number[h] => g = h)
             => page' = before.page]_searchVars
  BY TurnedBack DEF Distinct
<1> QED
  BY <1>1, TraceInv, PTL DEF SearchSpec, ReturnTrip

-----------------------------------------------------------------------------
(* A client that searches while gigs are created.  A step is one of        *)
(* either; the sort numbers searches go by are those in the documents.     *)
ClientStep == \E type \in Directions : Start(type) \/ Continue(type)

SearchedNext == /\ \/ Next /\ UNCHANGED <<price, client>>
                   \/ ClientStep /\ UNCHANGED vars
                /\ number' = Number'

searchedVars == <<vars, price, number, client>>

Coupled == number = Number

SearchedListing == Init /\ SearchInit /\ [][SearchedNext]_searchedVars

LEMMA SearchedStep ==
  ASSUME IndInv, Coupled, [SearchedNext]_searchedVars
  PROVE  Coupled' /\ [SearchNext]_searchVars
<1> USE DEF Coupled
<1>1. number' = Number'
  <2>1. CASE UNCHANGED searchedVars
    BY <2>1 DEF searchedVars, vars, gigVars, Number, SortId
  <2> QED
    BY <2>1 DEF SearchedNext
<1>2. CASE ClientStep
  BY <1>1, <1>2 DEF ClientStep, SearchNext
<1>3. CASE [Next]_vars /\ UNCHANGED <<price, client>>
  <2>1. Catalog!Next \/ UNCHANGED <<Number, visible>>
    BY <1>3, CatalogStep
  <2>2. Catalog!Next => Source!Next
    <3>1. Catalog!Show => Source!Show
      BY <1>1 DEF Catalog!Show, Source!Show, Catalog!Stored, Source!Stored, Number
    <3>2. \A g \in Gigs : Catalog!Store(g) => Source!Store(g)
      BY <1>1 DEF Catalog!Store, Source!Store, Number, Catalog!Cardinality, Source!Cardinality
    <3> QED
      BY <3>1, <3>2 DEF Catalog!Next, Source!Next
  <2> QED
    BY <1>1, <1>3, <2>1, <2>2 DEF SearchNext, Publish, searchVars, catalog
<1> QED
  BY <1>1, <1>2, <1>3 DEF SearchedNext, searchedVars

(* So what a client gets, page by page, from the gigs as they are really   *)
(* listed, with their calls, events and failures, is each of them once,    *)
(* none that was there at the start passed over but for equal numbers, and *)
(* the page before on turning round.                                       *)
THEOREM SearchedAsListed == SearchedListing => [](NothingTwice /\ NothingMissed) /\ ReturnTrip
<1>1. SearchedListing => Spec
  <2>1. [SearchedNext]_searchedVars => [Next]_vars
    BY DEF SearchedNext, searchedVars
  <2> QED
    BY <2>1, PTL DEF SearchedListing, Spec
<1>2. Init /\ SearchInit => Coupled
  BY DEF Coupled, Init, SearchInit, Source!Init, Number
<1>3. SearchedListing => SearchSpec
  BY <1>1, <1>2, Inductive, SearchedStep, PTL DEF SearchedListing, SearchSpec
<1> QED
  BY <1>3, PagedOnce, PagedAll, TurningRound, PTL

-----------------------------------------------------------------------------
(* Gigs created beside a directory of accounts, which is what Signup       *)
(* implements, and a roster of sellers, which is what SellerJobs does.     *)
CONSTANTS Emails

VARIABLES accounts, buyers

Directory == INSTANCE AccountDirectory WITH Ids <- Users, known <- docs

Roster == INSTANCE SellerRoster WITH docs <- docs["user"]

ByOthers == \E u \in Users : OpenSeller(u) \/ \E s \in Services : CopyArrives(s, u)

ownVars == <<form, gigVars, bus, totalGigs, applied, ignored, faults>>

ServedNext == \/ Next /\ ~ByOthers /\ UNCHANGED <<accounts, buyers>>
              \/ Directory!Next /\ UNCHANGED <<ownVars, sellers>>
              \/ /\ UNCHANGED <<ownVars, docs, accounts, buyers>>
                 /\ \E u \in Users : Roster!Open(u)

servedVars == <<vars, accounts, buyers>>

ServedListing == Init /\ Directory!Init /\ [][ServedNext]_servedVars

(* Of docs and sellers the module's own steps change nothing.              *)
LEMMA OwnStep ==
  ASSUME [Next]_vars, ~ByOthers
  PROVE  UNCHANGED <<docs, sellers>>
BY DEF Next, ByOthers, CallCreate, CreateGig, UploadCover, CountGigs, OwnerMissing, InsertGig, InsertRefused,
       PublishCount, AddDataToIndex, CreateGigFails, CallFails, CountFails, PublishFails, IndexFails,
       UpdateTotalGigsCount, CountGig, CountGigFails, OwnerUnknown, Ack, Deliver, GigCrash, Refresh,
       Subscribe, Disconnect, UserCrash, IncTotalGigs, vars, countVars

LEMMA ServedStep ==
  ASSUME TypeOK, [ServedNext]_servedVars
  PROVE  /\ [Next]_vars
         /\ [Directory!Next]_<<accounts, docs, buyers>>
         /\ [Roster!Next]_<<docs["user"], sellers>>
<1>1. CASE [Next]_vars /\ ~ByOthers /\ UNCHANGED <<accounts, buyers>>
  BY <1>1, OwnStep
<1>2. ASSUME NEW s \in Services, NEW u \in Users, Directory!Learn(s, u), UNCHANGED <<ownVars, sellers>>
      PROVE  CopyArrives(s, u) /\ [Roster!Next]_<<docs["user"], sellers>>
  <2>1. docs' = [docs EXCEPT ![s] = @ \cup {u}] /\ u \notin docs[s]
    BY <1>2 DEF Directory!Learn
  <2>2. CopyArrives(s, u)
    BY <1>2, <2>1 DEF CopyArrives, ownVars, countVars
  <2>3. CASE s = "user"
    <3>1. Roster!Arrive(u)
      BY <1>2, <2>1, <2>3 DEF Roster!Arrive, TypeOK
    <3> QED
      BY <2>2, <3>1 DEF Roster!Next
  <2>4. CASE s # "user"
    BY <1>2, <2>1, <2>2, <2>4
  <2> QED
    BY <2>3, <2>4
<1>3. CASE Directory!Next /\ UNCHANGED <<ownVars, sellers>>
  <2>1. ASSUME NEW a \in Directory!Accounts, Directory!Register(a)
        PROVE  UNCHANGED vars
    BY <1>3, <2>1 DEF Directory!Register, ownVars, vars, countVars
  <2>2. ASSUME NEW u \in Users, Directory!Open(u)
        PROVE  UNCHANGED vars
    BY <1>3, <2>2 DEF Directory!Open, ownVars, vars, countVars
  <2>3. ASSUME NEW s \in Services, NEW u \in Users, Directory!Learn(s, u)
        PROVE  Next /\ [Roster!Next]_<<docs["user"], sellers>>
    BY <1>2, <1>3, <2>3 DEF Next
  <2>4. UNCHANGED vars => UNCHANGED <<docs["user"], sellers>>
    BY DEF vars, countVars
  <2> QED
    BY <1>3, <2>1, <2>2, <2>3, <2>4 DEF Directory!Next
<1>4. ASSUME NEW u \in Users, Roster!Open(u), UNCHANGED <<ownVars, docs, accounts, buyers>>
      PROVE  Next /\ Roster!Next
  <2>1. OpenSeller(u)
    BY <1>4 DEF Roster!Open, OpenSeller, ownVars
  <2> QED
    BY <1>4, <2>1 DEF Next, Roster!Next
<1>5. CASE UNCHANGED servedVars
  BY <1>5 DEF servedVars, vars, countVars
<1> QED
  BY <1>1, <1>3, <1>4, <1>5 DEF ServedNext

(* Accounts that come as in AccountDirectory and sellers that come as in   *)
(* SellerRoster are what GigListing assumes, and it adds to neither: such  *)
(* a behaviour is one of all three, with counts within the failures, gigs  *)
(* that are listed and announced, and numbers that grow.                   *)
THEOREM ListedAsServed ==
  ServedListing => /\ Spec /\ Directory!Spec /\ Roster!Spec
                   /\ [](CountWithinFaults /\ SearchableIsCounted /\ NewestSortsLast)
<1>1. TypeOK /\ [ServedNext]_servedVars
         => /\ TypeOK'
            /\ [Next]_vars
            /\ [Directory!Next]_<<accounts, docs, buyers>>
            /\ [Roster!Next]_<<docs["user"], sellers>>
  BY ServedStep, TypeStep
<1>2. Init => Roster!Init
  BY DEF Init, Roster!Init, Services
<1>3. ServedListing => Spec /\ Directory!Spec /\ Roster!Spec
  BY <1>1, <1>2, InitTyped, PTL DEF ServedListing, Spec, Directory!Spec, Directory!vars, Roster!Spec
<1> QED
  BY <1>3, Safety, PTL
=============================================================================
