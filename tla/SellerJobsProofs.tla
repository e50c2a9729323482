-------------------------- MODULE SellerJobsProofs --------------------------
(***************************************************************************)
(* Proofs about Seller and SellerJobs, for any set of calls, users and     *)
(* orders and any number of failures.                                      *)
(***************************************************************************)
EXTENDS SellerJobs, FiniteSetTheorems, TLAPS

USE DEF Queue!InHandler, Queue!Seen

(* What a step of the whole is to the Seller documents.                    *)
SellerNext == \/ \E c \in Calls : CallCreate(c) \/ Serve(c) \/ CallFails(c)
              \/ \E u \in Users : CopyArrives(u) \/ BuyerOpens(u)
              \/ UserCrash
              \/ UNCHANGED sellerVars /\ (UNCHANGED faults \/ Fault)

LEMMA SellerStep == [JobsNext]_allVars => SellerNext
BY DEF SellerNext, JobsNext, OpenSeller, PlaceOrder, ApproveOrder, CancelOrder, ReviewOrder, Announce,
       Connect, ConnectionLost, UserDies, DeliverEvent, UpdateCounters, UserUnknown, UpdateFails,
       AckEvent, allVars, vars, sellerVars

(* A step on the Seller documents keeps their types.                       *)
LEMMA SellerTypeStep == TypeOK /\ SellerNext => TypeOK'
<1> SUFFICES ASSUME TypeOK, SellerNext PROVE TypeOK'
  OBVIOUS
<1> USE DEF TypeOK, Running, Answers, Goto, Fault
<1>1. ASSUME NEW c \in Calls, CallCreate(c) \/ FindUser(c) \/ CheckSeller(c) \/ Reply(c) PROVE TypeOK'
  BY <1>1 DEF CallCreate, FindUser, CheckSeller, Reply
<1>2. ASSUME NEW c \in Calls, CreateRefused(c) \/ CreateSeller(c) \/ CreateDuplicate(c)
      PROVE  TypeOK'
  BY <1>2 DEF CreateRefused, CreateSeller, CreateDuplicate
<1>3. ASSUME NEW c \in Calls, ReadAgain(c) PROVE TypeOK'
  BY <1>3 DEF ReadAgain, SellersOf
<1>4. ASSUME NEW c \in Calls, MarkBuyer(c) PROVE TypeOK'
  BY <1>4 DEF MarkBuyer, BuyerDocuments
<1>5. ASSUME NEW c \in Calls, CallFails(c) PROVE TypeOK'
  BY <1>5, MaxFaultsAssumption DEF CallFails
<1>6. CASE UserCrash
  BY <1>6, MaxFaultsAssumption DEF UserCrash
<1>7. ASSUME NEW u \in Users, CopyArrives(u) PROVE TypeOK'
  BY <1>7 DEF CopyArrives
<1>8. ASSUME NEW u \in Users, BuyerOpens(u) PROVE TypeOK'
  <2>1. [user |-> u, isSeller |-> FALSE] \in BuyerDocuments
    BY DEF BuyerDocuments
  <2> QED
    BY <1>8, <2>1 DEF BuyerOpens
<1>9. CASE UNCHANGED sellerVars /\ (UNCHANGED faults \/ Fault)
  BY <1>9, MaxFaultsAssumption DEF sellerVars
<1> QED
  BY <1>1, <1>2, <1>3, <1>4, <1>5, <1>6, <1>7, <1>8, <1>9 DEF SellerNext, Serve

-----------------------------------------------------------------------------
(* A user has one Seller, and where each call stands says whether it is    *)
(* the call's own.                                                         *)
OneSeller == \A c, d \in sellers : caller[c] = caller[d] => c = d

Standing(c) ==
    /\ pc[c] \in {"reread", "mark", "reply", "ok"} => c \in sellers
    /\ c \in sellers => \/ pc[c] \in {"reread", "mark", "reply", "ok"}
                        \/ pc[c] = "error" /\ faults > 0
    /\ pc[c] \in {"mark", "reply", "ok"} => reply[c] = {c}
    /\ pc[c] = "exists" => SellersOf(caller[c]) # {}

SellerInv == OneSeller /\ \A c \in Calls : Standing(c)

LEMMA SellerInvStep == TypeOK /\ SellerInv /\ SellerNext => SellerInv'
<1> SUFFICES ASSUME TypeOK, SellerInv, SellerNext PROVE SellerInv'
  OBVIOUS
<1> USE DEF SellerInv, OneSeller, Standing, SellersOf, Goto, Fault
<1>0. /\ pc \in [Calls -> {"idle"} \cup Running \cup Answers] /\ reply \in [Calls -> SUBSET Calls]
      /\ caller \in [Calls -> Users] /\ sellers \subseteq Calls /\ faults \in Nat
  BY MaxFaultsAssumption DEF TypeOK
<1>1. ASSUME NEW c \in Calls, CallCreate(c) PROVE SellerInv'
  BY <1>0, <1>1 DEF CallCreate
<1>2. ASSUME NEW c \in Calls, FindUser(c) PROVE SellerInv'
  BY <1>0, <1>2 DEF FindUser
<1>3. ASSUME NEW c \in Calls, CheckSeller(c) PROVE SellerInv'
  BY <1>0, <1>3 DEF CheckSeller
<1>4. ASSUME NEW c \in Calls, CreateSeller(c) PROVE SellerInv'
  BY <1>0, <1>4 DEF CreateSeller, Creating
<1>5. ASSUME NEW c \in Calls, CreateRefused(c) \/ CreateDuplicate(c) PROVE SellerInv'
  BY <1>0, <1>5 DEF CreateRefused, CreateDuplicate, Creating
<1>6. ASSUME NEW c \in Calls, ReadAgain(c) PROVE SellerInv'
  <2>1. PICK d \in sellers : caller[d] = caller[c] /\ reply' = [reply EXCEPT ![c] = {d}]
    BY <1>6 DEF ReadAgain
  <2>2. d = c
    BY <1>6, <2>1 DEF ReadAgain
  <2> QED
    BY <1>0, <1>6, <2>1, <2>2 DEF ReadAgain
<1>7. ASSUME NEW c \in Calls, MarkBuyer(c) PROVE SellerInv'
  BY <1>0, <1>7 DEF MarkBuyer
<1>8. ASSUME NEW c \in Calls, Reply(c) PROVE SellerInv'
  BY <1>0, <1>8 DEF Reply
<1>9. ASSUME NEW c \in Calls, CallFails(c) PROVE SellerInv'
  <2>1. CASE UNCHANGED sellers
    BY <1>0, <1>9, <2>1 DEF CallFails, Running
  <2>2. CASE Creating(c) /\ SellersOf(caller[c]) = {} /\ sellers' = sellers \cup {c}
    BY <1>0, <1>9, <2>2 DEF CallFails, Creating
  <2> QED
    BY <1>9, <2>1, <2>2 DEF CallFails
<1>10. CASE UserCrash
  BY <1>0, <1>10 DEF UserCrash, Running
<1>11. ASSUME UNCHANGED <<caller, pc, reply, sellers>>, faults' \in {faults, faults + 1}
       PROVE  SellerInv'
  BY <1>0, <1>11
<1>12. ASSUME NEW u \in Users, CopyArrives(u) \/ BuyerOpens(u) PROVE SellerInv'
  BY <1>11, <1>12 DEF CopyArrives, BuyerOpens
<1>13. CASE UNCHANGED sellerVars /\ (UNCHANGED faults \/ Fault)
  BY <1>11, <1>13 DEF sellerVars
<1> QED
  BY <1>1, <1>2, <1>3, <1>4, <1>5, <1>6, <1>7, <1>8, <1>9, <1>10, <1>12, <1>13 DEF SellerNext, Serve

(* A Seller is for ever. *)
LEMMA SellersStay == TypeOK /\ SellerNext => sellers \subseteq sellers' /\ caller' = caller
BY DEF SellerNext, CallCreate, Serve, FindUser, CheckSeller, CreateRefused, CreateSeller,
       CreateDuplicate, ReadAgain, MarkBuyer, Reply, CallFails, CopyArrives, BuyerOpens, UserCrash, sellerVars

-----------------------------------------------------------------------------
(* Every operation on a subscription gives a subscription.                 *)
LEMMA BootTyped ==
  ASSUME NEW b \in BOOLEAN
  PROVE  Queue!AtBoot(b) \in Queue!Subscription
BY DEF Queue!Subscription, Queue!AtBoot

LEMMA ConnectionTyped ==
  ASSUME NEW q \in Queue!Subscription
  PROVE  /\ Queue!Subscribed(q) \in Queue!Subscription
         /\ Queue!Disconnected(q) \in Queue!Subscription
         /\ Queue!Crashed(q) \in Queue!Subscription
BY DEF Queue!Subscription, Queue!AtBoot, Queue!Subscribed, Queue!Disconnected, Queue!Crashed

LEMMA MessageTyped ==
  ASSUME NEW q \in Queue!Subscription, NEW o \in Orders, NEW t \in {"inc", "ack"}
  PROVE  /\ Queue!Published(q, o) \in Queue!Subscription
         /\ Queue!Delivered(q, o, t) \in Queue!Subscription
         /\ Queue!MovedTo(q, o, t) \in Queue!Subscription
         /\ Queue!Acked(q, o) \in Queue!Subscription
         /\ Queue!Requeued(q, o) \in Queue!Subscription
<1> USE DEF Queue!Subscription
<1>1. Queue!Published(q, o) \in Queue!Subscription
  BY DEF Queue!Published
<1>2. Queue!Delivered(q, o, t) \in Queue!Subscription
  BY DEF Queue!Delivered
<1>3. Queue!MovedTo(q, o, t) \in Queue!Subscription
  BY DEF Queue!MovedTo
<1>4. Queue!Acked(q, o) \in Queue!Subscription
  BY DEF Queue!Acked
<1>5. Queue!Requeued(q, o) \in Queue!Subscription
  BY <1>4 DEF Queue!Requeued
<1> QED
  BY <1>1, <1>2, <1>3, <1>4, <1>5

(* The document an event changes: the user's Seller, and none if the event *)
(* is a cancellation.                                                      *)
LEMMA MatchedSellers ==
  ASSUME TypeOK, NEW e \in Events, NEW o \in Orders
  PROVE  Matched(e, o) = IF e = "cancel_order" THEN {} ELSE SellersOf(SellerOf[o])
<1>0. SellerOf[o] \in Users /\ sellers \subseteq Calls
  BY OrdersAssumption DEF TypeOK
<1>1. CASE e = "cancel_order"
  <2>1. \A d \in sellers : ~Selects([_id |-> SellerOf[o]], [_id |-> d, user |-> caller[d]])
    BY <1>0, IdsAssumption DEF Selects
  <2> QED
    BY <1>1, <2>1 DEF Matched, Filter
<1>2. CASE e # "cancel_order"
  <2>1. \A d \in sellers : Selects([user |-> SellerOf[o]], [_id |-> d, user |-> caller[d]])
                              <=> caller[d] = SellerOf[o]
    BY DEF Selects
  <2> QED
    BY <1>2, <2>1 DEF Matched, Filter, SellersOf
<1> QED
  BY <1>1, <1>2

Amount(e, f) == CASE e = "create_order"  /\ f = "ongoingJobs"   -> 1
                  [] e = "approve_order" /\ f = "ongoingJobs"   -> -1
                  [] e = "approve_order" /\ f = "completedJobs" -> 1
                  [] e = "buyer_review"  /\ f = "ratingsCount"  -> 1
                  [] OTHER -> 0

(* What an event adds to the counters of the user it is about.             *)
LEMMA CountStep ==
  ASSUME JobsTypeOK, NEW e \in Events, NEW o \in Orders, Count(e, o)
  PROVE  /\ jobs' \in [Users -> [DOMAIN Counters -> Int]]
         /\ \A u \in Users \ {SellerOf[o]} : jobs'[u] = jobs[u]
         /\ LET u == SellerOf[o] IN
            \/ jobs' = jobs /\ (e = "cancel_order" \/ SellersOf(u) = {})
            \/ /\ SellersOf(u) # {}
               /\ \A f \in DOMAIN Counters : jobs'[u][f] = jobs[u][f] + Amount(e, f)
<1> USE DEF JobsTypeOK
<1>0. SellerOf[o] \in Users
  BY OrdersAssumption
<1>1. CASE Matched(e, o) = {}
  <2>1. jobs' = jobs
    BY <1>1 DEF Count
  <2>2. e = "cancel_order" \/ SellersOf(SellerOf[o]) = {}
    BY <1>1, MatchedSellers
  <2> QED
    BY <2>1, <2>2
<1>2. CASE Matched(e, o) # {}
  <2>1. e # "cancel_order" /\ SellersOf(SellerOf[o]) # {}
    BY <1>2, MatchedSellers
  <2>2. DOMAIN Counters = {"ongoingJobs", "completedJobs", "cancelledJobs", "ratingsCount"}
    BY DEF Counters
  <2>3. \A f \in DOMAIN Counters : Inc(e)[f] = Amount(e, f) /\ Inc(e)[f] \in Int
    <3>1. CASE e = "create_order"
      BY <2>2, <3>1 DEF Inc, Amount, Counters
    <3>2. CASE e = "approve_order"
      <4>1. Inc(e) = [ongoingJobs |-> -1, completedJobs |-> 1, cancelledJobs |-> 0, ratingsCount |-> 0]
        BY <3>2 DEF Inc, Counters
      <4>2. Inc(e).ongoingJobs = -1 /\ -1 \in Int /\ Amount(e, "ongoingJobs") = -1
        BY <3>2, <4>1 DEF Amount
      <4>3. \A f \in DOMAIN Counters \ {"ongoingJobs"} : Inc(e)[f] = Amount(e, f) /\ Inc(e)[f] \in Int
        BY <2>2, <3>2, <4>1 DEF Amount
      <4> QED
        BY <4>2, <4>3
    <3>3. CASE e = "buyer_review"
      BY <2>2, <3>3 DEF Inc, Amount, Counters
    <3> QED
      BY <2>1, <3>1, <3>2, <3>3 DEF Events
  <2>4. jobs' = [jobs EXCEPT ![SellerOf[o]] = [f \in DOMAIN @ |-> @[f] + Inc(e)[f]]]
    BY <1>2 DEF Count
  <2> QED
    BY <1>0, <2>1, <2>3, <2>4
<1> QED
  BY <1>1, <1>2

(* The counters and the subscriptions keep their types.                    *)
LEMMA JobsTypeStep == JobsTypeOK /\ [JobsNext]_allVars => JobsTypeOK'
<1> SUFFICES ASSUME JobsTypeOK, [JobsNext]_allVars PROVE JobsTypeOK'
  OBVIOUS
<1>0. TypeOK'
  BY SellerStep, SellerTypeStep DEF JobsTypeOK
<1> USE <1>0 DEF JobsTypeOK
<1>1. ASSUME NEW o \in Orders, PlaceOrder(o) \/ ApproveOrder(o) \/ CancelOrder(o) \/ ReviewOrder(o)
      PROVE  JobsTypeOK'
  <2>1. \A e \in Events : [bus EXCEPT ![e] = Queue!Published(@, o)] \in [Events -> Queue!Subscription]
    BY MessageTyped
  <2>2. CASE PlaceOrder(o)
    BY <2>1, <2>2 DEF PlaceOrder, Announce, Events
  <2>3. CASE ApproveOrder(o)
    BY <2>1, <2>3 DEF ApproveOrder, Announce, Events
  <2>4. CASE CancelOrder(o)
    BY <2>1, <2>4 DEF CancelOrder, Announce, Events
  <2>5. CASE ReviewOrder(o)
    BY <2>1, <2>5 DEF ReviewOrder, Announce, Events
  <2> QED
    BY <1>1, <2>2, <2>3, <2>4, <2>5
<1>2. CASE Connect
  BY <1>2, ConnectionTyped DEF Connect
<1>3. CASE ConnectionLost
  BY <1>3, ConnectionTyped DEF ConnectionLost
<1>4. CASE UserDies
  BY <1>4, ConnectionTyped DEF UserDies
<1>5. ASSUME NEW e \in Events, NEW o \in Orders,
             DeliverEvent(e, o) \/ UserUnknown(e, o) \/ AckEvent(e, o)
      PROVE  JobsTypeOK'
  <2>1. CASE DeliverEvent(e, o)
    BY <2>1, MessageTyped DEF DeliverEvent
  <2>2. CASE UserUnknown(e, o)
    BY <2>2, MessageTyped DEF UserUnknown
  <2>3. CASE AckEvent(e, o)
    BY <2>3, MessageTyped DEF AckEvent
  <2> QED
    BY <1>5, <2>1, <2>2, <2>3
<1>6. ASSUME NEW e \in Events, NEW o \in Orders, UpdateCounters(e, o) \/ UpdateFails(e, o)
      PROVE  JobsTypeOK'
  <2>1. jobs' \in [Users -> [DOMAIN Counters -> Int]]
    BY <1>6, CountStep DEF UpdateCounters, UpdateFails
  <2>2. bus' \in [Events -> Queue!Subscription]
    <3>1. Queue!MovedTo(bus[e], o, "ack") \in Queue!Subscription
          /\ Queue!Requeued(bus[e], o) \in Queue!Subscription
      BY MessageTyped
    <3> QED
      BY <1>6, <3>1 DEF UpdateCounters, UpdateFails
  <2> QED
    BY <1>6, <2>1, <2>2 DEF UpdateCounters, UpdateFails
<1>7. CASE UNCHANGED jobVars
  BY <1>7 DEF jobVars
<1> QED
  BY <1>1, <1>2, <1>3, <1>4, <1>5, <1>6, <1>7 DEF JobsNext, OpenSeller, allVars

-----------------------------------------------------------------------------
(* The strengthening.  An order is announced once it is far enough; its    *)
(* message is in one place; an order that was not early found the Seller.  *)
After(e) == CASE e = "create_order"  -> {"placed", "approved", "cancelled", "reviewed"}
              [] e = "cancel_order"  -> {"cancelled"}
              [] e = "approve_order" -> {"approved", "reviewed"}
              [] e = "buyer_review"  -> {"reviewed"}

Announced(e, o) == stage[o] \in After(e)

Open(e, o) == o \in bus[e].ready \/ bus[e].step[o] = "inc"

InOnePlace(e, o) ==
    /\ o \in Queue!Seen(bus[e]) \cup bus[e].lost => Announced(e, o)
    /\ o \in bus[e].ready => bus[e].step[o] = "none"
    /\ o \in bus[e].lost => o \notin Queue!Seen(bus[e])

AfterSeller(o) == stage[o] = "none" \/ o \in early \/ SellersOf(SellerOf[o]) # {}

EventInv == /\ \A e \in Events, o \in Orders : InOnePlace(e, o)
            /\ \A o \in Orders : AfterSeller(o)

(* The counters.  What was handled, or lost, bounds them from above; with  *)
(* no failure what was handled and not lost is what they say.              *)
Handled(e, u) == {o \in Orders : SellerOf[o] = u /\ Announced(e, o) /\ ~Open(e, o)}

Counted(e, u) == {o \in Handled(e, u) : o \notin bus[e].lost}

Bounded(u) ==
    /\ jobs[u].ratingsCount <= Cardinality(Handled("buyer_review", u)) + faults
    /\ jobs[u].completedJobs <= Cardinality(Handled("approve_order", u)) + faults

Exact(u) ==
    /\ jobs[u].ongoingJobs = Cardinality(Counted("create_order", u))
                                - Cardinality(Counted("approve_order", u))
    /\ jobs[u].completedJobs = Cardinality(Counted("approve_order", u))
    /\ jobs[u].cancelledJobs = 0
    /\ jobs[u].ratingsCount = Cardinality(Counted("buyer_review", u))

OnTime(u) == faults = 0 /\ \A o \in early : SellerOf[o] # u

CountInv == \A u \in Users : Bounded(u) /\ (OnTime(u) => Exact(u))

IndInv == JobsTypeOK /\ SellerInv /\ EventInv /\ CountInv

(* What a step that handles nothing does to the message of an order.       *)
Kept(e, o) ==
    /\ InOnePlace(e, o)'
    /\ Announced(e, o) /\ ~Open(e, o) => (Announced(e, o) /\ ~Open(e, o))'
    /\ faults' = 0 => /\ (Announced(e, o) /\ ~Open(e, o) /\ o \notin bus[e].lost)'
                            <=> Announced(e, o) /\ ~Open(e, o) /\ o \notin bus[e].lost

(* An order becomes placed, approved, cancelled or reviewed, and one       *)
(* exchange is told.                                                       *)
LEMMA AnnounceKeeps ==
  ASSUME JobsTypeOK, EventInv, NEW o \in Orders,
         PlaceOrder(o) \/ ApproveOrder(o) \/ CancelOrder(o) \/ ReviewOrder(o)
  PROVE  \A f \in Events, p \in Orders : Kept(f, p)
<1>1. PICK e \in Events : /\ ~Announced(e, o) /\ Announced(e, o)'
                          /\ bus' = [bus EXCEPT ![e] = Queue!Published(@, o)]
                          /\ \A f \in Events, p \in Orders :
                                f # e \/ p # o => (Announced(f, p)' <=> Announced(f, p))
  <2> USE DEF Announce, Announced, After, Events, JobsTypeOK
  <2>1. CASE PlaceOrder(o)
    <3> WITNESS "create_order" \in Events
    <3> QED
      BY <2>1 DEF PlaceOrder
  <2>2. CASE ApproveOrder(o)
    <3> WITNESS "approve_order" \in Events
    <3> QED
      BY <2>2 DEF ApproveOrder
  <2>3. CASE CancelOrder(o)
    <3> WITNESS "cancel_order" \in Events
    <3> QED
      BY <2>3 DEF CancelOrder
  <2>4. CASE ReviewOrder(o)
    <3> WITNESS "buyer_review" \in Events
    <3> QED
      BY <2>4 DEF ReviewOrder
  <2> QED
    BY <2>1, <2>2, <2>3, <2>4
<1> SUFFICES ASSUME NEW f \in Events, NEW p \in Orders PROVE Kept(f, p)
  OBVIOUS
<1> USE DEF EventInv, InOnePlace, Open, Kept
<1>2. CASE f = e /\ p = o
  BY <1>1, <1>2 DEF JobsTypeOK, Queue!Published, Queue!Subscription
<1>3. CASE f # e \/ p # o
  <2>1. UNCHANGED <<bus[f].step, bus[f].ready \cap {p}, bus[f].lost \cap {p}>>
    BY <1>1, <1>3 DEF JobsTypeOK, Queue!Published, Queue!Subscription
  <2> QED
    BY <1>1, <1>3, <2>1
<1> QED
  BY <1>2, <1>3

(* A connection that comes or goes moves waiting messages to the lost.     *)
LEMMA ConnectionKeeps ==
  ASSUME JobsTypeOK, EventInv, Connect \/ ConnectionLost \/ UserDies
  PROVE  \A f \in Events, p \in Orders : Kept(f, p)
<1> SUFFICES ASSUME NEW f \in Events, NEW p \in Orders PROVE Kept(f, p)
  OBVIOUS
<1> USE DEF EventInv, InOnePlace, Announced, Open, Kept, Fault
<1>0. bus \in [Events -> Queue!Subscription] /\ faults \in Nat
  BY MaxFaultsAssumption DEF JobsTypeOK, TypeOK
<1>1. CASE Connect
  BY <1>0, <1>1 DEF Connect, Queue!Subscribed, Queue!Subscription
<1>2. CASE ConnectionLost
  <2>1. faults' # 0 /\ UNCHANGED stage /\ bus'[f] = Queue!Disconnected(bus[f])
    BY <1>0, <1>2 DEF ConnectionLost
  <2> QED
    BY <1>0, <2>1 DEF Queue!Disconnected, Queue!Subscription
<1>3. CASE UserDies
  <2>1. faults' # 0 /\ UNCHANGED stage /\ bus'[f] = Queue!Crashed(bus[f])
    BY <1>0, <1>3 DEF UserDies, UserCrash
  <2> QED
    BY <1>0, <2>1 DEF Queue!Crashed, Queue!AtBoot, Queue!Subscription
<1> QED
  BY <1>1, <1>2, <1>3

(* A message delivered, acknowledged or put back stays what it was: to be  *)
(* handled or not.                                                         *)
LEMMA MessageKeeps ==
  ASSUME JobsTypeOK, EventInv, NEW e \in Events, NEW o \in Orders,
         DeliverEvent(e, o) \/ UserUnknown(e, o) \/ UpdateFails(e, o) \/ AckEvent(e, o)
  PROVE  \A f \in Events, p \in Orders : Kept(f, p)
<1> SUFFICES ASSUME NEW f \in Events, NEW p \in Orders PROVE Kept(f, p)
  OBVIOUS
<1> USE DEF EventInv, InOnePlace, Announced, Open, Kept, Fault
<1>0. bus \in [Events -> Queue!Subscription] /\ faults \in Nat
  BY MaxFaultsAssumption DEF JobsTypeOK, TypeOK
<1>1. CASE DeliverEvent(e, o)
  BY <1>0, <1>1 DEF DeliverEvent, Queue!Delivered, Queue!Subscription
<1>2. CASE AckEvent(e, o)
  BY <1>0, <1>2 DEF AckEvent, Queue!Acked, Queue!Subscription
<1>3. CASE /\ bus[e].step[o] = "inc" /\ UNCHANGED stage
           /\ bus' = [bus EXCEPT ![e] = Queue!Requeued(@, o)]
  <2>1. CASE o \in bus[e].stale
    BY <1>0, <1>3, <2>1 DEF Queue!Requeued, Queue!Acked, Queue!Subscription
  <2>2. CASE o \notin bus[e].stale
    BY <1>0, <1>3, <2>2 DEF Queue!Requeued, Queue!Acked, Queue!Subscription
  <2> QED
    BY <2>1, <2>2
<1> QED
  BY <1>1, <1>2, <1>3 DEF UserUnknown, UpdateFails

(* A handler that did its update has handled its message, and no other.    *)
LEMMA UpdateHandles ==
  ASSUME JobsTypeOK, EventInv, NEW e \in Events, NEW o \in Orders, UpdateCounters(e, o)
  PROVE  /\ \A f \in Events, p \in Orders : f # e \/ p # o => Kept(f, p)
         /\ InOnePlace(e, o)'
         /\ Announced(e, o) /\ Open(e, o) /\ o \notin bus[e].lost
         /\ (Announced(e, o) /\ ~Open(e, o) /\ o \notin bus[e].lost)'
<1> USE DEF EventInv, InOnePlace, Announced, Open, Kept
<1>0. bus \in [Events -> Queue!Subscription]
  BY DEF JobsTypeOK
<1>1. ASSUME NEW f \in Events, NEW p \in Orders, f # e \/ p # o
      PROVE  Kept(f, p)
  BY <1>0, <1>1 DEF UpdateCounters, vars, Queue!MovedTo, Queue!Subscription
<1>2. /\ InOnePlace(e, o)'
      /\ Announced(e, o) /\ Open(e, o) /\ o \notin bus[e].lost
      /\ (Announced(e, o) /\ ~Open(e, o) /\ o \notin bus[e].lost)'
  BY <1>0 DEF UpdateCounters, vars, Queue!MovedTo, Queue!Subscription
<1> QED
  BY <1>1, <1>2

LEMMA EventStep == JobsTypeOK /\ EventInv /\ [JobsNext]_allVars => EventInv'
<1> SUFFICES ASSUME JobsTypeOK, EventInv, [JobsNext]_allVars PROVE EventInv'
  OBVIOUS
<1>1. \A f \in Events, p \in Orders : InOnePlace(f, p)'
  <2>1. CASE UNCHANGED jobVars
    BY <2>1 DEF jobVars, EventInv, InOnePlace, Announced
  <2>2. ASSUME NEW e \in Events, NEW o \in Orders, UpdateCounters(e, o)
        PROVE  \A f \in Events, p \in Orders : InOnePlace(f, p)'
    BY <2>2, UpdateHandles DEF Kept
  <2> QED
    BY <2>1, <2>2, AnnounceKeeps, ConnectionKeeps, MessageKeeps
    DEF JobsNext, OpenSeller, allVars, Kept
<1>2. ASSUME NEW o \in Orders PROVE AfterSeller(o)'
  <2>1. SellersOf(SellerOf[o]) # {} => SellersOf(SellerOf[o])' # {}
    BY SellerStep, SellersStay DEF JobsTypeOK, SellersOf
  <2>2. stage'[o] = stage[o] \/ o \in early' \/ SellersOf(SellerOf[o]) # {} \/ stage[o] # "none"
    BY DEF JobsTypeOK, JobsNext, OpenSeller, PlaceOrder, ApproveOrder, CancelOrder, ReviewOrder, Announce,
       Connect, ConnectionLost, UserDies, DeliverEvent, UpdateCounters, UserUnknown, UpdateFails,
       AckEvent, allVars, jobVars
  <2>3. early \subseteq early'
    BY DEF JobsTypeOK, JobsNext, OpenSeller, PlaceOrder, ApproveOrder, CancelOrder, ReviewOrder, Announce,
       Connect, ConnectionLost, UserDies, DeliverEvent, UpdateCounters, UserUnknown, UpdateFails,
       AckEvent, allVars, jobVars
  <2> QED
    BY <2>1, <2>2, <2>3 DEF EventInv, AfterSeller
<1> QED
  BY <1>1, <1>2 DEF EventInv

-----------------------------------------------------------------------------
(* The sets of orders that were handled are finite, and their cardinality  *)
(* grows with them.                                                        *)
LEMMA FiniteSets ==
  ASSUME NEW e \in Events, NEW u \in Users
  PROVE  /\ IsFiniteSet(Handled(e, u)) /\ Cardinality(Handled(e, u)) \in Nat
         /\ IsFiniteSet(Counted(e, u)) /\ Cardinality(Counted(e, u)) \in Nat
         /\ IsFiniteSet(Handled(e, u)') /\ Cardinality(Handled(e, u)') \in Nat
         /\ IsFiniteSet(Counted(e, u)') /\ Cardinality(Counted(e, u)') \in Nat
<1>1. ASSUME NEW S \in SUBSET Orders
      PROVE  IsFiniteSet(S) /\ Cardinality(S) \in Nat
  BY <1>1, FS_Subset, FS_CardinalityType, OrdersAssumption
<1>2. /\ Handled(e, u) \in SUBSET Orders /\ Counted(e, u) \in SUBSET Orders
      /\ Handled(e, u)' \in SUBSET Orders /\ Counted(e, u)' \in SUBSET Orders
  BY DEF Handled, Counted
<1> QED
  BY <1>1, <1>2

LEMMA SetsKept ==
  ASSUME NEW e \in Events, NEW u \in Users, \A o \in Orders : SellerOf[o] = u => Kept(e, o)
  PROVE  /\ Cardinality(Handled(e, u)) <= Cardinality(Handled(e, u)')
         /\ faults' = 0 => Counted(e, u)' = Counted(e, u)
<1>1. Handled(e, u) \in SUBSET (Handled(e, u)')
  BY DEF Handled, Kept
<1>2. Cardinality(Handled(e, u)) <= Cardinality(Handled(e, u)')
  BY <1>1, FS_Subset, FiniteSets
<1>3. faults' = 0 => Counted(e, u)' = Counted(e, u)
  BY DEF Handled, Counted, Kept
<1> QED
  BY <1>2, <1>3

LEMMA SetsGrow ==
  ASSUME JobsTypeOK, EventInv, NEW e \in Events, NEW o \in Orders, UpdateCounters(e, o)
  PROVE  LET u == SellerOf[o] IN
         /\ Cardinality(Handled(e, u)') = Cardinality(Handled(e, u)) + 1
         /\ UNCHANGED faults
         /\ faults' = 0 => Cardinality(Counted(e, u)') = Cardinality(Counted(e, u)) + 1
<1> DEFINE u == SellerOf[o]
<1>0. u \in Users /\ faults' = faults
  BY OrdersAssumption DEF UpdateCounters, vars
<1>1. ASSUME NEW p \in Orders, p # o
      PROVE  /\ (Announced(e, p) /\ ~Open(e, p))' <=> Announced(e, p) /\ ~Open(e, p)
             /\ (p \notin bus[e].lost)' <=> p \notin bus[e].lost
  BY <1>1 DEF UpdateCounters, Announced, Open, JobsTypeOK, vars, Queue!MovedTo, Queue!Subscription
<1>2. /\ Handled(e, u)' = Handled(e, u) \cup {o} /\ o \notin Handled(e, u)
      /\ Counted(e, u)' = Counted(e, u) \cup {o} /\ o \notin Counted(e, u)
  BY <1>1, UpdateHandles DEF Handled, Counted
<1> QED
  BY <1>0, <1>2, FS_AddElement, FiniteSets

(* A step that counts nothing.                                             *)
LEMMA NothingCounted ==
  ASSUME JobsTypeOK, JobsTypeOK', CountInv, NEW u \in Users, jobs'[u] = jobs[u],
         early \subseteq early', faults' >= faults,
         \A e \in Events, o \in Orders : SellerOf[o] = u => Kept(e, o)
  PROVE  Bounded(u)' /\ (OnTime(u)' => Exact(u)')
<1>0. faults \in Nat /\ faults' \in Nat /\ jobs[u] \in [DOMAIN Counters -> Int]
  BY MaxFaultsAssumption DEF JobsTypeOK, TypeOK
<1>1. jobs[u].ratingsCount \in Int /\ jobs[u].completedJobs \in Int
  BY <1>0 DEF Counters
<1>2. Bounded(u) /\ (OnTime(u) => Exact(u))
  BY DEF CountInv
<1>3. \A e \in Events : Cardinality(Handled(e, u)) \in Nat /\ Cardinality(Handled(e, u)') \in Nat
  BY FiniteSets
<1>4. \A e \in Events : Cardinality(Handled(e, u)) <= Cardinality(Handled(e, u)')
  BY SetsKept
<1>5. Bounded(u)'
  BY <1>0, <1>1, <1>2, <1>3, <1>4 DEF Bounded, Events
<1>6. ASSUME OnTime(u)' PROVE Exact(u)'
  <2>1. OnTime(u)
    BY <1>0, <1>6 DEF OnTime
  <2>2. \A e \in Events : Counted(e, u)' = Counted(e, u)
    BY <1>6, SetsKept DEF OnTime
  <2> QED
    BY <1>2, <2>1, <2>2 DEF Exact, Events
<1> QED
  BY <1>5, <1>6

(* A handler that counts an event and says so.                             *)
LEMMA EventCounted ==
  ASSUME JobsTypeOK, JobsTypeOK', EventInv, CountInv,
         NEW e \in Events, NEW o \in Orders, UpdateCounters(e, o)
  PROVE  Bounded(SellerOf[o])' /\ (OnTime(SellerOf[o])' => Exact(SellerOf[o])')
<1> DEFINE u == SellerOf[o]
<1>0. /\ u \in Users /\ faults \in Nat /\ faults' = faults /\ early' = early
      /\ DOMAIN Counters = {"ongoingJobs", "completedJobs", "cancelledJobs", "ratingsCount"}
  BY MaxFaultsAssumption, OrdersAssumption DEF JobsTypeOK, TypeOK, UpdateCounters, vars, Counters
<1>1. /\ \A f \in DOMAIN Counters : jobs[u][f] \in Int
      /\ Bounded(u) /\ (OnTime(u) => Exact(u)) /\ OnTime(u)' = OnTime(u)
  BY <1>0 DEF JobsTypeOK, CountInv, OnTime
<1>2. \A f \in Events : /\ Cardinality(Handled(f, u)) \in Nat /\ Cardinality(Handled(f, u)') \in Nat
                        /\ Cardinality(Counted(f, u)) \in Nat /\ Cardinality(Counted(f, u)') \in Nat
  BY <1>0, FiniteSets
<1>3. \A f \in Events \ {e} : /\ Cardinality(Handled(f, u)) <= Cardinality(Handled(f, u)')
                              /\ faults = 0 => Counted(f, u)' = Counted(f, u)
  BY <1>0, SetsKept, UpdateHandles
<1>4. /\ Cardinality(Handled(e, u)') = Cardinality(Handled(e, u)) + 1
      /\ faults = 0 => Cardinality(Counted(e, u)') = Cardinality(Counted(e, u)) + 1
  BY <1>0, SetsGrow
<1>5. CASE jobs' = jobs /\ (e = "cancel_order" \/ SellersOf(u) = {})
  <2>1. Bounded(u)'
    BY <1>0, <1>1, <1>2, <1>3, <1>4, <1>5 DEF Bounded, Events
  <2>2. ASSUME OnTime(u) PROVE Exact(u)'
    <3>1. SellersOf(u) # {}
      <4>1. stage[o] # "none"
        BY UpdateHandles DEF Announced, After, Events
      <4> QED
        BY <2>2, <4>1 DEF EventInv, AfterSeller, OnTime
    <3>2. e = "cancel_order" /\ faults = 0
      BY <1>5, <2>2, <3>1 DEF OnTime
    <3> QED
      BY <1>1, <1>3, <1>5, <2>2, <3>2 DEF Exact, Events
  <2> QED
    BY <1>1, <2>1, <2>2
<1>6. CASE \A f \in DOMAIN Counters : jobs'[u][f] = jobs[u][f] + Amount(e, f)
  <2>1. /\ jobs'[u].ratingsCount = jobs[u].ratingsCount + Amount(e, "ratingsCount")
        /\ jobs'[u].completedJobs = jobs[u].completedJobs + Amount(e, "completedJobs")
        /\ jobs'[u].cancelledJobs = jobs[u].cancelledJobs + Amount(e, "cancelledJobs")
        /\ jobs'[u].ongoingJobs = jobs[u].ongoingJobs + Amount(e, "ongoingJobs")
        /\ jobs[u].ratingsCount \in Int /\ jobs[u].completedJobs \in Int
        /\ jobs[u].cancelledJobs \in Int /\ jobs[u].ongoingJobs \in Int
    BY <1>0, <1>1, <1>6
  <2>2. Bounded(u)'
    BY <1>0, <1>1, <1>2, <1>3, <1>4, <2>1 DEF Bounded, Events, Amount
  <2>3. ASSUME OnTime(u) PROVE Exact(u)'
    <3>1. faults = 0
      BY <2>3 DEF OnTime
    <3>2. CASE e = "create_order"
      BY <1>1, <1>2, <1>3, <1>4, <2>1, <2>3, <3>1, <3>2 DEF Exact, Events, Amount
    <3>3. CASE e = "cancel_order"
      BY <1>1, <1>2, <1>3, <1>4, <2>1, <2>3, <3>1, <3>3 DEF Exact, Events, Amount
    <3>4. CASE e = "approve_order"
      <4>1. /\ Amount(e, "ratingsCount") = 0 /\ Amount(e, "completedJobs") = 1
            /\ Amount(e, "cancelledJobs") = 0 /\ Amount(e, "ongoingJobs") = -1
        BY <3>4 DEF Amount
      <4>2. /\ jobs[u].ongoingJobs = Cardinality(Counted("create_order", u))
                                        - Cardinality(Counted("approve_order", u))
            /\ jobs[u].completedJobs = Cardinality(Counted("approve_order", u))
            /\ jobs[u].cancelledJobs = 0
            /\ jobs[u].ratingsCount = Cardinality(Counted("buyer_review", u))
        BY <1>1, <2>3 DEF Exact
      <4>3. /\ Counted("create_order", u)' = Counted("create_order", u)
            /\ Counted("buyer_review", u)' = Counted("buyer_review", u)
            /\ Cardinality(Counted("approve_order", u)')
                  = Cardinality(Counted("approve_order", u)) + 1
            /\ Cardinality(Counted("approve_order", u)) \in Nat
            /\ Cardinality(Counted("create_order", u)) \in Nat
        BY <1>2, <1>3, <1>4, <3>1, <3>4 DEF Events
      <4> HIDE DEF u
      <4> QED
        BY <2>1, <4>1, <4>2, <4>3 DEF Exact
    <3>5. CASE e = "buyer_review"
      BY <1>1, <1>2, <1>3, <1>4, <2>1, <2>3, <3>1, <3>5 DEF Exact, Events, Amount
    <3> QED
      BY <3>2, <3>3, <3>4, <3>5 DEF Events
  <2> QED
    BY <1>1, <2>2, <2>3
<1> QED
  BY <1>5, <1>6, CountStep DEF UpdateCounters

(* A handler that fails, counting the event or not, is a failure.          *)
LEMMA UpdateFailed ==
  ASSUME JobsTypeOK, JobsTypeOK', EventInv, CountInv,
         NEW e \in Events, NEW o \in Orders, UpdateFails(e, o), NEW u \in Users
  PROVE  Bounded(u)' /\ (OnTime(u)' => Exact(u)')
<1>0. /\ faults \in Nat /\ faults' = faults + 1
      /\ DOMAIN Counters = {"ongoingJobs", "completedJobs", "cancelledJobs", "ratingsCount"}
  BY MaxFaultsAssumption DEF JobsTypeOK, TypeOK, UpdateFails, Fault, Counters
<1>1. /\ jobs[u].ratingsCount \in Int /\ jobs[u].completedJobs \in Int /\ Bounded(u)
  BY <1>0 DEF JobsTypeOK, CountInv
<1>2. /\ jobs'[u].ratingsCount \in {jobs[u].ratingsCount, jobs[u].ratingsCount + 1}
      /\ jobs'[u].completedJobs \in {jobs[u].completedJobs, jobs[u].completedJobs + 1}
  <2>1. CASE UNCHANGED jobs
    BY <2>1
  <2>2. CASE Count(e, o)
    <3>1. CASE u # SellerOf[o]
      BY <2>2, <3>1, CountStep
    <3>2. CASE u = SellerOf[o] /\ jobs' # jobs
      <4>1. \A f \in DOMAIN Counters : jobs'[u][f] = jobs[u][f] + Amount(e, f)
        BY <2>2, <3>2, CountStep
      <4> QED
        BY <1>0, <1>1, <4>1 DEF Amount
    <3> QED
      BY <2>1, <3>1, <3>2
  <2> QED
    BY <2>1, <2>2 DEF UpdateFails
<1>3. \A f \in Events : /\ Cardinality(Handled(f, u)) \in Nat /\ Cardinality(Handled(f, u)') \in Nat
                        /\ Cardinality(Handled(f, u)) <= Cardinality(Handled(f, u)')
  BY FiniteSets, SetsKept, MessageKeeps
<1> QED
  BY <1>0, <1>1, <1>2, <1>3 DEF Bounded, OnTime, Events

LEMMA CountInvStep == IndInv /\ [JobsNext]_allVars => CountInv'
<1> SUFFICES ASSUME IndInv, [JobsNext]_allVars, NEW u \in Users
             PROVE  Bounded(u)' /\ (OnTime(u)' => Exact(u)')
  BY DEF CountInv
<1>0. JobsTypeOK /\ JobsTypeOK' /\ EventInv /\ CountInv
  BY JobsTypeStep DEF IndInv
<1>1. early \subseteq early' /\ faults' >= faults /\ faults \in Nat
  <2>1. early \subseteq early'
    BY <1>0 DEF JobsTypeOK, JobsNext, OpenSeller, PlaceOrder, ApproveOrder, CancelOrder, ReviewOrder,
       Announce, Connect, ConnectionLost, UserDies, DeliverEvent, UpdateCounters, UserUnknown,
       UpdateFails, AckEvent, allVars, jobVars
  <2>2. faults' = faults \/ faults' = faults + 1
    BY SellerStep DEF SellerNext, CallCreate, Serve, FindUser, CheckSeller, CreateRefused, CreateSeller,
       CreateDuplicate, ReadAgain, MarkBuyer, Reply, CallFails, CopyArrives, BuyerOpens, UserCrash, Fault
  <2> QED
    BY <1>0, <2>1, <2>2, MaxFaultsAssumption DEF JobsTypeOK, TypeOK
<1>2. ASSUME jobs'[u] = jobs[u], \A e \in Events, o \in Orders : SellerOf[o] = u => Kept(e, o)
      PROVE  Bounded(u)' /\ (OnTime(u)' => Exact(u)')
  BY <1>0, <1>1, <1>2, NothingCounted
<1>3. ASSUME NEW o \in Orders, PlaceOrder(o) \/ ApproveOrder(o) \/ CancelOrder(o) \/ ReviewOrder(o)
      PROVE  Bounded(u)' /\ (OnTime(u)' => Exact(u)')
  <2>1. UNCHANGED jobs
    BY <1>3 DEF PlaceOrder, ApproveOrder, CancelOrder, ReviewOrder, Announce
  <2> QED
    BY <1>0, <1>2, <1>3, <2>1, AnnounceKeeps
<1>4. CASE Connect \/ ConnectionLost \/ UserDies
  <2>1. UNCHANGED jobs
    BY <1>4 DEF Connect, ConnectionLost, UserDies
  <2> QED
    BY <1>0, <1>2, <1>4, <2>1, ConnectionKeeps
<1>5. ASSUME NEW e \in Events, NEW o \in Orders,
             DeliverEvent(e, o) \/ UserUnknown(e, o) \/ AckEvent(e, o)
      PROVE  Bounded(u)' /\ (OnTime(u)' => Exact(u)')
  <2>1. UNCHANGED jobs
    BY <1>5 DEF DeliverEvent, UserUnknown, AckEvent
  <2> QED
    BY <1>0, <1>2, <1>5, <2>1, MessageKeeps
<1>6. ASSUME NEW e \in Events, NEW o \in Orders, UpdateCounters(e, o)
      PROVE  Bounded(u)' /\ (OnTime(u)' => Exact(u)')
  <2>1. CASE u = SellerOf[o]
    BY <1>0, <1>6, <2>1, EventCounted
  <2>2. CASE u # SellerOf[o]
    <3>1. jobs'[u] = jobs[u]
      BY <1>0, <1>6, <2>2, CountStep DEF UpdateCounters
    <3>2. \A f \in Events, p \in Orders : SellerOf[p] = u => Kept(f, p)
      BY <1>0, <1>6, <2>2, UpdateHandles
    <3> QED
      BY <1>2, <3>1, <3>2
  <2> QED
    BY <2>1, <2>2
<1>7. ASSUME NEW e \in Events, NEW o \in Orders, UpdateFails(e, o)
      PROVE  Bounded(u)' /\ (OnTime(u)' => Exact(u)')
  BY <1>0, <1>7, UpdateFailed
<1>8. CASE UNCHANGED jobVars
  <2>1. \A e \in Events, o \in Orders : Kept(e, o)
    BY <1>0, <1>8 DEF jobVars, Kept, EventInv, InOnePlace, Announced, Open
  <2> QED
    BY <1>2, <1>8, <2>1 DEF jobVars
<1> QED
  BY <1>3, <1>4, <1>5, <1>6, <1>7, <1>8 DEF JobsNext, OpenSeller, allVars

LEMMA InitInv == JobsInit => IndInv
<1> SUFFICES ASSUME JobsInit PROVE IndInv
  OBVIOUS
<1>1. TypeOK
  BY MaxFaultsAssumption DEF JobsInit, Init, TypeOK, Running, Answers
<1>2. JobsTypeOK
  <2>1. bus \in [Events -> Queue!Subscription]
    BY BootTyped DEF JobsInit
  <2>2. jobs \in [Users -> [DOMAIN Counters -> Int]]
    BY DEF JobsInit, Counters
  <2> QED
    BY <1>1, <2>1, <2>2 DEF JobsInit, JobsTypeOK
<1>3. SellerInv
  BY DEF JobsInit, Init, SellerInv, OneSeller, Standing
<1>4. EventInv
  BY DEF JobsInit, EventInv, InOnePlace, AfterSeller, Queue!AtBoot
<1>5. CountInv
  <2> SUFFICES ASSUME NEW u \in Users PROVE Bounded(u) /\ Exact(u)
    BY DEF CountInv
  <2>1. \A e \in Events : Handled(e, u) = {} /\ Counted(e, u) = {}
    BY DEF JobsInit, Handled, Counted, Announced, After, Events
  <2>2. /\ jobs[u].ratingsCount = 0 /\ jobs[u].completedJobs = 0
        /\ jobs[u].cancelledJobs = 0 /\ jobs[u].ongoingJobs = 0 /\ faults = 0
    BY DEF JobsInit, Init, Counters
  <2> QED
    BY <2>1, <2>2, FS_EmptySet DEF Bounded, Exact, Events
<1> QED
  BY <1>2, <1>3, <1>4, <1>5 DEF IndInv

LEMMA Inductive == JobsSpec => []IndInv
<1>1. IndInv /\ [JobsNext]_allVars => IndInv'
  <2> SUFFICES ASSUME IndInv, [JobsNext]_allVars PROVE IndInv'
    OBVIOUS
  <2>1. SellerInv'
    BY SellerStep, SellerInvStep DEF IndInv, JobsTypeOK
  <2> QED
    BY <2>1, JobsTypeStep, EventStep, CountInvStep DEF IndInv
<1> QED
  BY InitInv, <1>1, PTL DEF JobsSpec

(* Every variable keeps its type, whatever fails and in whatever order.    *)
THEOREM TypeCorrect == JobsSpec => []JobsTypeOK
<1>1. IndInv => JobsTypeOK
  BY DEF IndInv
<1> QED
  BY <1>1, Inductive, PTL

(* Whatever calls of createSeller race and whatever fails, ok shows the    *)
(* Seller the call created, ALREADY_EXISTS is the truth about another's,   *)
(* and an error left no Seller unless something failed.                    *)
THEOREM Truthful == JobsSpec => []AnswersAreTruthful
<1>1. ASSUME IndInv, NEW c \in Calls
      PROVE  /\ pc[c] = "ok" => reply[c] = {c}
             /\ pc[c] = "exists" => c \notin sellers /\ SellersOf(caller[c]) # {}
             /\ pc[c] = "error" /\ faults = 0 => c \notin sellers
  <2>1. Standing(c)
    BY <1>1 DEF IndInv, SellerInv
  <2> QED
    BY <2>1 DEF Standing
<1>2. IndInv => AnswersAreTruthful
  BY <1>1 DEF AnswersAreTruthful
<1> QED
  BY <1>2, Inductive, PTL

(* Once no event of an order of the user is left, what was counted is what *)
(* the orders say.                                                         *)
LEMMA AllCounted ==
  ASSUME JobsTypeOK, NEW u \in Users, Pending(u) = {}, NEW e \in Events
  PROVE  Counted(e, u) = {o \in Orders : SellerOf[o] = u /\ stage[o] \in After(e)}
<1>1. \A o \in Orders : SellerOf[o] = u => o \notin Queue!Seen(bus[e]) \cup bus[e].lost
  BY DEF Pending
<1>2. \A o \in Orders : SellerOf[o] = u => ~Open(e, o) /\ o \notin bus[e].lost
  BY <1>1 DEF Open
<1> QED
  BY <1>2 DEF Counted, Handled, Announced

(* Reviews and completed orders are counted once, and once more for each   *)
(* failure at most, however the events are delivered; and when every event *)
(* was handled and nothing failed, all counters of a seller whose orders   *)
(* came after his account are the numbers of those orders, cancelled ones  *)
(* still counted as ongoing.                                               *)
THEOREM CountersAddUp == JobsSpec => []JobsAddUp
<1>1. ASSUME IndInv, NEW u \in Users
      PROVE  /\ jobs[u].ratingsCount <= OrdersOf(u, {"reviewed"}) + faults
             /\ jobs[u].completedJobs <= OrdersOf(u, {"approved", "reviewed"}) + faults
  <2>1. ASSUME NEW e \in Events
        PROVE  /\ Cardinality(Handled(e, u)) \in Nat /\ OrdersOf(u, After(e)) \in Nat
               /\ Cardinality(Handled(e, u)) <= OrdersOf(u, After(e))
    <3> DEFINE all == {o \in Orders : SellerOf[o] = u /\ stage[o] \in After(e)}
    <3>1. all \in SUBSET Orders /\ Handled(e, u) \in SUBSET all
      BY DEF Handled, Announced
    <3>2. IsFiniteSet(all)
      BY <3>1, FS_Subset, OrdersAssumption
    <3>3. Cardinality(Handled(e, u)) <= Cardinality(all) /\ Cardinality(all) \in Nat
      BY <3>1, <3>2, FS_Subset, FS_CardinalityType
    <3> QED
      BY <3>3, FiniteSets DEF OrdersOf
  <2>2. /\ Bounded(u) /\ faults \in Nat
        /\ jobs[u].ratingsCount \in Int /\ jobs[u].completedJobs \in Int
    BY <1>1, MaxFaultsAssumption DEF IndInv, CountInv, JobsTypeOK, TypeOK, Counters
  <2>3. /\ OrdersOf(u, After("buyer_review")) = OrdersOf(u, {"reviewed"})
        /\ OrdersOf(u, After("approve_order")) = OrdersOf(u, {"approved", "reviewed"})
    <3>1. After("buyer_review") = {"reviewed"} /\ After("approve_order") = {"approved", "reviewed"}
      BY DEF After
    <3> QED
      BY <3>1, Zenon
  <2> QED
    BY <2>1, <2>2, <2>3 DEF Bounded, Events
<1>2. ASSUME IndInv, NEW u \in Users, faults = 0, Pending(u) = {}, \A o \in early : SellerOf[o] # u
      PROVE  jobs[u] = [ongoingJobs   |-> OrdersOf(u, {"placed", "cancelled"}),
                        completedJobs |-> OrdersOf(u, {"approved", "reviewed"}),
                        cancelledJobs |-> 0,
                        ratingsCount  |-> OrdersOf(u, {"reviewed"})]
  <2>0. JobsTypeOK /\ Exact(u)
    BY <1>2 DEF IndInv, CountInv, OnTime
  <2>1. \A e \in Events : Cardinality(Counted(e, u)) = OrdersOf(u, After(e))
    BY <1>2, <2>0, AllCounted DEF OrdersOf
  <2>2. OrdersOf(u, After("create_order"))
           = OrdersOf(u, {"placed", "cancelled"}) + OrdersOf(u, {"approved", "reviewed"})
        /\ OrdersOf(u, {"placed", "cancelled"}) \in Nat
        /\ OrdersOf(u, {"approved", "reviewed"}) \in Nat
    <3> DEFINE within(s) == {o \in Orders : SellerOf[o] = u /\ stage[o] \in s}
               open == within({"placed", "cancelled"})
               done == within({"approved", "reviewed"})
    <3>1. IsFiniteSet(open) /\ IsFiniteSet(done)
      <4>1. open \in SUBSET Orders /\ done \in SUBSET Orders
        OBVIOUS
      <4> QED
        BY <4>1, FS_Subset, OrdersAssumption
    <3>2. open \cap done = {} /\ open \cup done = within(After("create_order"))
      BY DEF After
    <3>3. Cardinality(open \cup done) = Cardinality(open) + Cardinality(done)
          /\ Cardinality(open) \in Nat /\ Cardinality(done) \in Nat
      <4> HIDE DEF open, done
      <4>1. Cardinality(open) \in Nat /\ Cardinality(done) \in Nat
        BY <3>1, FS_CardinalityType
      <4>2. Cardinality(open \cup done) = Cardinality(open) + Cardinality(done) - Cardinality({})
        BY <3>1, <3>2, FS_Union
      <4> QED
        BY <4>1, <4>2, FS_EmptySet
    <3> QED
      BY <3>2, <3>3 DEF OrdersOf
  <2>3. /\ OrdersOf(u, After("buyer_review")) = OrdersOf(u, {"reviewed"})
        /\ OrdersOf(u, After("approve_order")) = OrdersOf(u, {"approved", "reviewed"})
    <3>1. After("buyer_review") = {"reviewed"} /\ After("approve_order") = {"approved", "reviewed"}
      BY DEF After
    <3> QED
      BY <3>1, Zenon
  <2>4. /\ jobs[u].ongoingJobs = OrdersOf(u, {"placed", "cancelled"})
        /\ jobs[u].completedJobs = OrdersOf(u, {"approved", "reviewed"})
        /\ jobs[u].cancelledJobs = 0
        /\ jobs[u].ratingsCount = OrdersOf(u, {"reviewed"})
    BY <2>0, <2>1, <2>2, <2>3 DEF Exact, Events
  <2>5. jobs[u] \in [DOMAIN Counters -> Int]
    BY <2>0 DEF JobsTypeOK
  <2> QED
    BY <2>4, <2>5 DEF Counters
<1>3. IndInv => JobsAddUp
  BY <1>1, <1>2 DEF JobsAddUp
<1> QED
  BY <1>3, Inductive, PTL

-----------------------------------------------------------------------------
(* A call past the lookup of its user has found his copy, which stays.     *)
DocsKnown == \A c \in Calls : pc[c] \in {"check", "create"} => caller[c] \in docs

LEMMA DocsKnownStep == TypeOK /\ DocsKnown /\ SellerNext => DocsKnown'
BY DEF TypeOK, DocsKnown, SellerNext, CallCreate, Serve, FindUser, CheckSeller, CreateRefused,
       CreateSeller, CreateDuplicate, ReadAgain, MarkBuyer, Reply, CallFails, CopyArrives, BuyerOpens, UserCrash,
       sellerVars, Goto, Running

(* What the calls of createSeller make of the users.                       *)
SellerUsers == {u \in Users : SellersOf(u) # {}}

Roster == INSTANCE SellerRoster WITH sellers <- SellerUsers

(* A new Seller is the first of its user.                                  *)
LEMMA Opens ==
  ASSUME TypeOK, NEW c \in Calls, SellersOf(caller[c]) = {}, caller[c] \in docs,
         sellers' = sellers \cup {c}, UNCHANGED <<caller, docs>>
  PROVE  Roster!Open(caller[c])
<1>1. caller[c] \in Users \ SellerUsers
  BY DEF TypeOK, SellerUsers
<1>2. SellerUsers' = SellerUsers \cup {caller[c]}
  BY DEF TypeOK, SellerUsers, SellersOf
<1> QED
  BY <1>1, <1>2 DEF Roster!Open

LEMMA RosterStep ==
  ASSUME TypeOK, DocsKnown, SellerNext
  PROVE  Roster!Next \/ UNCHANGED <<docs, SellerUsers>>
<1>1. ASSUME UNCHANGED <<caller, sellers, docs>> PROVE UNCHANGED <<docs, SellerUsers>>
  BY <1>1 DEF SellerUsers, SellersOf
<1>2. ASSUME NEW c \in Calls, CreateSeller(c) PROVE Roster!Next
  <2>1. Roster!Open(caller[c]) /\ caller[c] \in Users
    BY <1>2, Opens DEF CreateSeller, Creating, DocsKnown, TypeOK
  <2> QED
    BY <2>1 DEF Roster!Next
<1>3. ASSUME NEW c \in Calls, CallFails(c) PROVE Roster!Next \/ UNCHANGED <<docs, SellerUsers>>
  <2>1. CASE UNCHANGED sellers
    BY <1>1, <1>3, <2>1 DEF CallFails
  <2>2. CASE Creating(c) /\ SellersOf(caller[c]) = {} /\ sellers' = sellers \cup {c}
    <3>1. Roster!Open(caller[c]) /\ caller[c] \in Users
      BY <1>3, <2>2, Opens DEF CallFails, Creating, DocsKnown, TypeOK
    <3> QED
      BY <3>1 DEF Roster!Next
  <2> QED
    BY <1>3, <2>1, <2>2 DEF CallFails
<1>4. ASSUME NEW u \in Users, CopyArrives(u) PROVE Roster!Next
  <2>1. Roster!Arrive(u)
    BY <1>4 DEF CopyArrives, Roster!Arrive, SellerUsers, SellersOf
  <2> QED
    BY <2>1 DEF Roster!Next
<1>5. ASSUME NEW c \in Calls, CallCreate(c) \/ (Serve(c) /\ ~CreateSeller(c))
      PROVE  UNCHANGED <<docs, SellerUsers>>
  BY <1>1, <1>5 DEF CallCreate, Serve, FindUser, CheckSeller, CreateRefused, CreateDuplicate, ReadAgain,
                    MarkBuyer, Reply
<1>6. ASSUME \/ \E u \in Users : BuyerOpens(u)
             \/ UserCrash
             \/ UNCHANGED sellerVars
      PROVE  UNCHANGED <<docs, SellerUsers>>
  BY <1>1, <1>6 DEF BuyerOpens, UserCrash, sellerVars
<1> QED
  BY <1>2, <1>3, <1>4, <1>5, <1>6 DEF SellerNext

(* Whatever calls of createSeller race, and whatever fails, is lost or     *)
(* goes unconfirmed, the users become sellers as in SellerRoster: each     *)
(* once, with his copy there, and for good.                                *)
THEOREM Refinement == JobsSpec => Roster!Spec
<1>1. JobsInit => Roster!Init /\ DocsKnown
  BY DEF JobsInit, Init, Roster!Init, DocsKnown, SellerUsers, SellersOf
<1>2. IndInv /\ DocsKnown /\ [JobsNext]_allVars => /\ DocsKnown'
                                                 /\ [Roster!Next]_<<docs, SellerUsers>>
  <2> SUFFICES ASSUME IndInv, DocsKnown, [JobsNext]_allVars
               PROVE  DocsKnown' /\ [Roster!Next]_<<docs, SellerUsers>>
    OBVIOUS
  <2>1. TypeOK /\ SellerNext
    BY SellerStep DEF IndInv, JobsTypeOK
  <2> QED
    BY <2>1, DocsKnownStep, RosterStep
<1> QED
  BY <1>1, <1>2, Inductive, PTL DEF JobsSpec, Roster!Spec

-----------------------------------------------------------------------------
(* Sellers beside a directory of accounts, which is what Signup implements.*)
(* The copies in the user service and the Buyers are the directory's.      *)
CONSTANTS Emails

VARIABLES accounts, known

Services == {"user", "gig"}

BuyerUsers == {b.user : b \in buyers}

Directory == INSTANCE AccountDirectory WITH Ids <- Users, buyers <- BuyerUsers

ByDirectory == \E u \in Users : CopyArrives(u) \/ BuyerOpens(u)

callVars == <<caller, filled, pc, reply, sellers, faults, jobVars>>

Learnt(s, u) == /\ UNCHANGED <<callVars, buyers>>
                /\ Directory!Learn(s, u)
                /\ docs' = known'["user"]

Opened(u) == /\ buyers' = buyers \cup {[user |-> u, isSeller |-> FALSE]}
             /\ Directory!Open(u)
             /\ UNCHANGED <<callVars, docs>>

RegisteredNext == \/ JobsNext /\ ~ByDirectory /\ UNCHANGED <<accounts, known>>
                  \/ UNCHANGED allVars /\ \E a \in Directory!Accounts : Directory!Register(a)
                  \/ \E s \in Services, u \in Users : Learnt(s, u)
                  \/ \E u \in Users : Opened(u)

registeredVars == <<allVars, accounts, known>>

RegisteredJobs == /\ JobsInit /\ Directory!Init /\ [][RegisteredNext]_registeredVars
                  /\ \A c \in Calls : WF_vars(Serve(c))

Coupled == known \in [Services -> SUBSET Users] /\ docs = known["user"]

(* A step of the module's own opens or drops no Buyer and copies nobody.   *)
LEMMA OwnStep ==
  ASSUME TypeOK, [JobsNext]_allVars, ~ByDirectory
  PROVE  UNCHANGED <<docs, BuyerUsers>>
<1>1. SellerNext
  BY SellerStep
<1>2. ASSUME NEW c \in Calls, MarkBuyer(c) PROVE UNCHANGED <<docs, BuyerUsers>>
  <2> DEFINE chosen == {b \in buyers : Selects([email |-> caller[c]], b)}
             marked == {[b EXCEPT !.isSeller = TRUE] : b \in chosen}
  <2>1. docs' = docs /\ buyers' = (buyers \ chosen) \cup marked
    BY <1>2 DEF MarkBuyer
  <2>2. \A b \in buyers : [b EXCEPT !.isSeller = TRUE].user = b.user
    BY DEF TypeOK, BuyerDocuments
  <2>3. \A b \in buyers' : \E a \in buyers : a.user = b.user
    BY <2>1, <2>2
  <2>4. \A b \in buyers : \E a \in buyers' : a.user = b.user
    <3> SUFFICES ASSUME NEW b \in buyers PROVE \E a \in buyers' : a.user = b.user
      OBVIOUS
    <3>1. CASE b \in chosen
      <4>1. [b EXCEPT !.isSeller = TRUE] \in buyers'
        BY <2>1, <3>1
      <4> QED
        BY <2>2, <4>1
    <3>2. CASE b \notin chosen
      BY <2>1, <3>2
    <3> QED
      BY <3>1, <3>2
  <2>5. BuyerUsers' = BuyerUsers
    BY <2>3, <2>4 DEF BuyerUsers
  <2> QED
    BY <2>1, <2>5
<1>3. ASSUME NEW c \in Calls, CallCreate(c) \/ CallFails(c) \/ (Serve(c) /\ ~MarkBuyer(c))
      PROVE  UNCHANGED <<docs, buyers>>
  BY <1>3 DEF CallCreate, Serve, FindUser, CheckSeller, CreateRefused, CreateSeller, CreateDuplicate,
              ReadAgain, Reply, CallFails
<1>4. CASE UserCrash \/ UNCHANGED sellerVars
  BY <1>4 DEF UserCrash, sellerVars, BuyerUsers
<1> QED
  BY <1>1, <1>2, <1>3, <1>4 DEF SellerNext, ByDirectory, BuyerUsers

(* What the directory does is what SellerJobs expects of it.               *)
LEMMA RegisteredStep ==
  ASSUME TypeOK, Coupled, [RegisteredNext]_registeredVars
  PROVE  /\ [JobsNext]_allVars
         /\ [Directory!Next]_<<accounts, known, BuyerUsers>>
         /\ Coupled'
<1>1. CASE [JobsNext]_allVars /\ ~ByDirectory /\ UNCHANGED <<accounts, known>>
  BY <1>1, OwnStep DEF Coupled
<1>2. ASSUME NEW a \in Directory!Accounts, Directory!Register(a), UNCHANGED allVars
      PROVE  Directory!Next /\ Coupled'
  BY <1>2 DEF Directory!Next, Directory!Register, Coupled, allVars, vars
<1>3. ASSUME NEW s \in Services, NEW u \in Users, Learnt(s, u)
      PROVE  [JobsNext]_allVars /\ Directory!Next /\ Coupled'
  <2>1. known' = [known EXCEPT ![s] = @ \cup {u}] /\ u \notin known[s]
    BY <1>3 DEF Learnt, Directory!Learn
  <2>2. Coupled'
    BY <1>3, <2>1 DEF Learnt, Coupled
  <2>3. Directory!Next
    BY <1>3 DEF Learnt, Directory!Next
  <2>4. CASE s = "user"
    <3>1. CopyArrives(u)
      BY <1>3, <2>1, <2>4 DEF Learnt, CopyArrives, Coupled, callVars
    <3> QED
      BY <1>3, <2>2, <2>3, <3>1 DEF JobsNext, OpenSeller, Learnt, callVars
  <2>5. CASE s # "user"
    <3>1. UNCHANGED allVars
      BY <1>3, <2>1, <2>5 DEF Services, Learnt, Coupled, callVars, allVars, vars, jobVars
    <3> QED
      BY <2>2, <2>3, <3>1
  <2> QED
    BY <2>4, <2>5
<1>4. ASSUME NEW u \in Users, Opened(u)
      PROVE  JobsNext /\ Directory!Next /\ Coupled'
  <2>1. BuyerOpens(u)
    BY <1>4 DEF Opened, Directory!Open, BuyerOpens, Coupled, BuyerUsers, callVars
  <2>2. Coupled'
    BY <1>4 DEF Opened, Directory!Open, Coupled
  <2> QED
    BY <1>4, <2>1, <2>2 DEF JobsNext, OpenSeller, Directory!Next, Opened, callVars
<1>5. CASE UNCHANGED registeredVars
  BY <1>5 DEF registeredVars, allVars, vars, BuyerUsers, Coupled
<1>6. ASSUME NEW a \in Directory!Accounts, Directory!Register(a), UNCHANGED allVars
      PROVE  [JobsNext]_allVars
  BY <1>6
<1> QED
  BY <1>1, <1>2, <1>3, <1>4, <1>5, <1>6 DEF RegisteredNext

(* Users who sign up as AccountDirectory has it meet the calls and events  *)
(* of SellerJobs exactly as SellerJobs assumes, and nothing SellerJobs     *)
(* does to their copies or Buyers departs from the directory.              *)
THEOREM SoldAsRegistered == RegisteredJobs => JobsSpec /\ Directory!Spec
<1>1. JobsInit /\ Directory!Init => Coupled
  BY DEF JobsInit, Init, Directory!Init, Coupled, Services
<1>2. JobsInit => TypeOK
  BY InitInv DEF IndInv, JobsTypeOK
<1>3. TypeOK /\ Coupled /\ [RegisteredNext]_registeredVars
         => /\ (TypeOK /\ Coupled)'
            /\ [JobsNext]_allVars
            /\ [Directory!Next]_<<accounts, known, BuyerUsers>>
  BY RegisteredStep, SellerStep, SellerTypeStep
<1> QED
  BY <1>1, <1>2, <1>3, PTL DEF RegisteredJobs, JobsSpec, Directory!Spec, Directory!vars
=============================================================================
