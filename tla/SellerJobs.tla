----------------------------- MODULE SellerJobs -----------------------------
(***************************************************************************)
(* The counters of a Seller document: what becomes of an order's events in *)
(* the user service, while the seller's own account is still being opened  *)
(* (module Seller).                                                        *)
(*                                                                         *)
(* An order is placed, approved or cancelled, and an approved one may be   *)
(* reviewed; each is announced to the user service, which has one handler  *)
(* and one subscription for each.  Every handler looks for the user's copy *)
(* and adds to his Seller, if there is one.                                *)
(*                                                                         *)
(* Abstractions.  The services that place, settle and review orders are    *)
(* not in the repository; what they publish is what the handlers take.  A  *)
(* copy and a Seller never go away, so the lookup and the $inc that        *)
(* follows it are one step.  Earnings, the delivery date and the marks of  *)
(* a review are written by the same $inc and not kept.  A handled review   *)
(* is announced to the exchange update_gig, which nobody listens to.       *)
(***************************************************************************)
EXTENDS Seller, Integers, FiniteSets

CONSTANTS Orders,      \* orders that may be placed
          SellerOf     \* the user each order is placed with

ASSUME OrdersAssumption == IsFiniteSet(Orders) /\ SellerOf \in [Orders -> Users]

(* The _id of a Seller is an ObjectId of its own, never that of a user. *)
ASSUME IdsAssumption == Calls \cap Users = {}

VARIABLES stage,       \* how far each order has come
          early,       \* history: orders placed before the Seller was there
          bus,         \* the subscription of each handler
          jobs         \* the counters of each user's Seller

sellerVars == <<caller, filled, pc, reply, docs, buyers, sellers>>
jobVars    == <<stage, early, bus, jobs>>
allVars    == <<vars, jobVars>>

Events == {"create_order", "cancel_order", "approve_order", "buyer_review"}

Queue == INSTANCE AnonymousQueue WITH Messages <- Orders, Steps <- {"inc", "ack"}

Counters == [ongoingJobs |-> 0, completedJobs |-> 0, cancelledJobs |-> 0, ratingsCount |-> 0]

(* What each handler adds to the Seller. *)
Inc(e) == CASE e = "create_order"  -> [Counters EXCEPT !.ongoingJobs = 1]
            [] e = "cancel_order"  -> [Counters EXCEPT !.ongoingJobs = -1, !.cancelledJobs = 1]
            [] e = "approve_order" -> [Counters EXCEPT !.ongoingJobs = -1, !.completedJobs = 1]
            [] e = "buyer_review"  -> [Counters EXCEPT !.ratingsCount = 1]

(* A cancelled order's Seller is asked for by the id of the user. *)
Filter(e, u) == IF e = "cancel_order" THEN [_id |-> u] ELSE [user |-> u]

Matched(e, o) == {d \in sellers : Selects(Filter(e, SellerOf[o]), [_id |-> d, user |-> caller[d]])}

-----------------------------------------------------------------------------
JobsInit == /\ Init
            /\ stage = [o \in Orders |-> "none"]
            /\ early = {}
            /\ \E found \in BOOLEAN :
                  bus = [e \in Events |-> Queue!AtBoot(e # "approve_order" \/ found)]
            /\ jobs = [u \in Users |-> Counters]

Announce(o, before, after, e) ==
    /\ stage[o] = before
    /\ stage' = [stage EXCEPT ![o] = after]
    /\ bus' = [bus EXCEPT ![e] = Queue!Published(@, o)]
    /\ UNCHANGED <<jobs, vars>>

PlaceOrder(o) == /\ Announce(o, "none", "placed", "create_order")
                 /\ early' = IF SellersOf(SellerOf[o]) = {} THEN early \cup {o} ELSE early

ApproveOrder(o) == Announce(o, "placed", "approved", "approve_order") /\ UNCHANGED early

CancelOrder(o) == Announce(o, "placed", "cancelled", "cancel_order") /\ UNCHANGED early

ReviewOrder(o) == Announce(o, "approved", "reviewed", "buyer_review") /\ UNCHANGED early

-----------------------------------------------------------------------------
(* The subscriptions.  All are of one connection.  The handler of          *)
(* approve_order is a property, which the library may not find.            *)

Connect == /\ \E e \in Events : ~bus[e].bound
           /\ \E found \in SUBSET {"approve_order"} :
                 bus' = [e \in Events |-> IF e # "approve_order" \/ e \in found
                                          THEN Queue!Subscribed(bus[e]) ELSE bus[e]]
           /\ UNCHANGED <<stage, early, jobs, vars>>

DeliverEvent(e, o) == /\ bus[e].bound /\ o \in bus[e].ready
                      /\ bus' = [bus EXCEPT ![e] = Queue!Delivered(@, o, "inc")]
                      /\ UNCHANGED <<stage, early, jobs, vars>>

ConnectionLost == /\ \E e \in Events : bus[e].bound
                  /\ Fault
                  /\ bus' = [e \in Events |-> Queue!Disconnected(bus[e])]
                  /\ UNCHANGED <<stage, early, jobs, sellerVars>>

(* The user service dies, with its calls and its handlers. *)
UserDies == /\ \/ UserCrash
               \/ Fault /\ (\A c \in Calls : pc[c] \notin Running) /\ UNCHANGED sellerVars
            /\ bus' = [e \in Events |-> Queue!Crashed(bus[e])]
            /\ UNCHANGED <<stage, early, jobs>>

-----------------------------------------------------------------------------
(* The handlers updateSellerOngoingJobsProp, updateSellerCancelledJobsProp,*)
(* updateSellerCompletedJobsProp and updateSellerWhenBuyerReview.          *)

(* updateOne with $inc; no match is no error. *)
Count(e, o) ==
    jobs' = IF Matched(e, o) = {} THEN jobs
            ELSE [jobs EXCEPT ![SellerOf[o]] = [f \in DOMAIN @ |-> @[f] + Inc(e)[f]]]

(* Mutant: the handler throws after the write. *)
CountThenThrow(e, o) == /\ bus[e].step[o] = "inc" /\ SellerOf[o] \in docs
                        /\ Count(e, o)
                        /\ bus' = [bus EXCEPT ![e] = Queue!Requeued(@, o)]
                        /\ UNCHANGED <<stage, early, vars>>

UpdateCounters(e, o) == /\ bus[e].step[o] = "inc" /\ SellerOf[o] \in docs
                        /\ Count(e, o)
                        /\ bus' = [bus EXCEPT ![e] = Queue!MovedTo(@, o, "ack")]
                        /\ UNCHANGED <<stage, early, vars>>

(* toJSON() of null throws and the event goes back. *)
UserUnknown(e, o) == /\ bus[e].step[o] = "inc" /\ SellerOf[o] \notin docs
                     /\ bus' = [bus EXCEPT ![e] = Queue!Requeued(@, o)]
                     /\ UNCHANGED <<stage, early, jobs, vars>>

(* MongoDB fails; an $inc it did may go unconfirmed. *)
UpdateFails(e, o) == /\ bus[e].step[o] = "inc"
                     /\ Fault
                     /\ \/ UNCHANGED jobs
                        \/ SellerOf[o] \in docs /\ Count(e, o)
                     /\ bus' = [bus EXCEPT ![e] = Queue!Requeued(@, o)]
                     /\ UNCHANGED <<stage, early, sellerVars>>

AckEvent(e, o) == /\ bus[e].step[o] = "ack"
                  /\ bus' = [bus EXCEPT ![e] = Queue!Acked(@, o)]
                  /\ UNCHANGED <<stage, early, jobs, vars>>

-----------------------------------------------------------------------------
(* What module Seller does, but for the crash. *)
OpenSeller == /\ \/ \E c \in Calls : CallCreate(c) \/ Serve(c) \/ CallFails(c)
                 \/ \E u \in Users : CopyArrives(u) \/ BuyerOpens(u)
              /\ UNCHANGED jobVars

JobsNext == \/ OpenSeller
            \/ \E o \in Orders : PlaceOrder(o) \/ ApproveOrder(o) \/ CancelOrder(o) \/ ReviewOrder(o)
            \/ Connect \/ ConnectionLost \/ UserDies
            \/ \E e \in Events, o \in Orders : \/ DeliverEvent(e, o) \/ UpdateCounters(e, o)
                                               \/ UserUnknown(e, o) \/ UpdateFails(e, o)
                                               \/ AckEvent(e, o)

(* The fairness of Seller; nothing is owed to the events. *)
JobsSpec == /\ JobsInit /\ [][JobsNext]_allVars
            /\ \A c \in Calls : WF_vars(Serve(c))
-----------------------------------------------------------------------------
JobsTypeOK == /\ TypeOK
              /\ stage \in [Orders -> {"none", "placed", "approved", "cancelled", "reviewed"}]
              /\ early \subseteq Orders
              /\ bus \in [Events -> Queue!Subscription]
              /\ jobs \in [Users -> [DOMAIN Counters -> Int]]

OrdersOf(u, stages) == Cardinality({o \in Orders : SellerOf[o] = u /\ stage[o] \in stages})

(* The events of the orders of u that no handler has finished with. *)
Pending(u) == {o \in Orders : SellerOf[o] = u /\ \E e \in Events : o \in Queue!Seen(bus[e]) \cup bus[e].lost}

(* Once the events of a seller's orders have all been handled, his         *)
(* counters agree with the orders, whatever order the events came in,      *)
(* unless something failed or an order was placed before he was a seller;  *)
(* a cancelled order is never taken off.  At any moment a review and a     *)
(* completed order count once, and once more for each failure at most.     *)
JobsAddUp ==
    \A u \in Users :
        /\ jobs[u].ratingsCount <= OrdersOf(u, {"reviewed"}) + faults
        /\ jobs[u].completedJobs <= OrdersOf(u, {"approved", "reviewed"}) + faults
        /\ faults = 0 /\ Pending(u) = {} /\ (\A o \in early : SellerOf[o] # u)
               => jobs[u] = [ongoingJobs   |-> OrdersOf(u, {"placed", "cancelled"}),
                             completedJobs |-> OrdersOf(u, {"approved", "reviewed"}),
                             cancelledJobs |-> 0,
                             ratingsCount  |-> OrdersOf(u, {"reviewed"})]
=============================================================================
