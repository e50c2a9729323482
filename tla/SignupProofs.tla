---------------------------- MODULE SignupProofs ----------------------------
(***************************************************************************)
(* Proofs about Signup, for any set of requests and addresses and any      *)
(* number of failures.                                                     *)
(***************************************************************************)
EXTENDS Signup, TLAPS

USE DEF Queue!InHandler, Queue!Seen

(* Every operation on a subscription gives a subscription. *)
LEMMA BootTyped ==
  ASSUME NEW b \in BOOLEAN
  PROVE  Queue!AtBoot(b) \in Queue!Subscription
BY DEF Queue!Subscription, Queue!AtBoot

LEMMA ConnectionTyped ==
  ASSUME NEW q \in Queue!Subscription
  PROVE  /\ Queue!Subscribed(q) \in Queue!Subscription
         /\ Queue!Disconnected(q) \in Queue!Subscription
         /\ Queue!Crashed(q) \in Queue!Subscription
BY DEF Queue!Subscription, Queue!AtBoot, Queue!Subscribed, Queue!Disconnected, Queue!Crashed

LEMMA MessageTyped ==
  ASSUME NEW q \in Queue!Subscription, NEW r \in Requests,
         NEW t \in {"save", "open", "ack"}
  PROVE  /\ Queue!Published(q, r) \in Queue!Subscription
         /\ Queue!Delivered(q, r, t) \in Queue!Subscription
         /\ Queue!MovedTo(q, r, t) \in Queue!Subscription
         /\ Queue!Acked(q, r) \in Queue!Subscription
         /\ Queue!Requeued(q, r) \in Queue!Subscription
<1> USE DEF Queue!Subscription
<1>1. Queue!Published(q, r) \in Queue!Subscription
  BY DEF Queue!Published
<1>2. Queue!Delivered(q, r, t) \in Queue!Subscription
  BY DEF Queue!Delivered
<1>3. Queue!MovedTo(q, r, t) \in Queue!Subscription
  BY DEF Queue!MovedTo
<1>4. Queue!Acked(q, r) \in Queue!Subscription
  BY DEF Queue!Acked
<1>5. Queue!Requeued(q, r) \in Queue!Subscription
  BY <1>4 DEF Queue!Requeued
<1> QED
  BY <1>1, <1>2, <1>3, <1>4, <1>5

LEMMA TypeStep == TypeOK /\ [Next]_vars => TypeOK'
<1> SUFFICES ASSUME TypeOK, [Next]_vars PROVE TypeOK'
  OBVIOUS
<1> USE DEF TypeOK, Running, Answers, authVars, dataVars, Goto, Fault
<1>1. ASSUME NEW r \in Requests, CreateUser(r) PROVE TypeOK'
  <2>1. CASE PublishUser(r)
    BY <2>1, MessageTyped DEF PublishUser
  <2>2. CASE UploadFails(r) \/ InsertFails(r) \/ PublishFails(r)
    BY <2>2, MaxFaultsAssumption DEF UploadFails, InsertFails, PublishFails
  <2>3. CASE Submit(r) \/ UploadAvatar(r) \/ InsertAuth(r)
    BY <2>3 DEF Submit, UploadAvatar, InsertAuth
  <2>4. CASE InsertDuplicate(r) \/ InsertRefused(r) \/ Reply(r)
    BY <2>4 DEF InsertDuplicate, InsertRefused, Reply
  <2> QED
    BY <1>1, <2>1, <2>2, <2>3, <2>4 DEF CreateUser
<1>2. CASE AuthCrash
  BY <1>2, MaxFaultsAssumption DEF AuthCrash
<1>3. ASSUME NEW s \in Services,
             Subscribe(s) \/ Disconnect(s) \/ ServiceCrash(s)
      PROVE  TypeOK'
  <2>1. bus' \in [Services -> Queue!Subscription]
    BY <1>3, ConnectionTyped DEF Subscribe, Disconnect, ServiceCrash
  <2> QED
    BY <1>3, <2>1, MaxFaultsAssumption DEF Subscribe, Disconnect, ServiceCrash
<1>4. ASSUME NEW s \in Services, NEW r \in Requests,
             Deliver(s, r) \/ Handle(s, r) \/ StoreFails(s, r) \/ StoreUnconfirmed(s, r)
      PROVE  TypeOK'
  <2>1. CASE Deliver(s, r)
    BY <2>1, MessageTyped DEF Deliver
  <2>2. CASE SaveUser(s, r)
    BY <2>2, MessageTyped DEF SaveUser, AfterSave
  <2>3. CASE SaveRefused(s, r)
    BY <2>3, MessageTyped DEF SaveRefused, Requeue
  <2>4. CASE s = "user" /\ OpenBuyer(r)
    BY <2>4, MessageTyped DEF OpenBuyer
  <2>5. CASE Ack(s, r)
    BY <2>5, MessageTyped DEF Ack
  <2>6. CASE StoreFails(s, r)
    <3>1. bus' \in [Services -> Queue!Subscription]
      BY <2>6, MessageTyped DEF StoreFails, Requeue
    <3> QED
      BY <2>6, <3>1, MaxFaultsAssumption DEF StoreFails, Requeue
  <2>7. CASE StoreUnconfirmed(s, r)
    <3>1. bus' \in [Services -> Queue!Subscription]
      BY <2>7, MessageTyped DEF StoreUnconfirmed
    <3> QED
      BY <2>7, <3>1, MaxFaultsAssumption DEF StoreUnconfirmed
  <2> QED
    BY <1>4, <2>1, <2>2, <2>3, <2>4, <2>5, <2>6, <2>7 DEF Handle
<1>5. CASE UNCHANGED vars
  BY <1>5 DEF vars
<1> QED
  BY <1>1, <1>2, <1>3, <1>4, <1>5 DEF Next

(* Every variable keeps its type, whatever fails and in whatever order.    *)
THEOREM TypeCorrect == Spec => []TypeOK
<1>1. Init => TypeOK
  BY BootTyped, MaxFaultsAssumption DEF Init, TypeOK, Running, Answers
<1> QED
  BY <1>1, TypeStep, PTL DEF Spec

-----------------------------------------------------------------------------
(* The strengthening.  Of the auth table: addresses are unique, a row is    *)
(* there exactly from its insert on, its avatar was stored before it.       *)
RowsUnique == \A q, r \in auth : q # r => ~SameEmail(q, r)

RowsAnswered == \A r \in Requests :
    /\ r \in auth => pc[r] \in {"publish", "reply", "ok", "error"}
    /\ pc[r] \in {"publish", "reply", "ok"} => r \in auth

AvatarFirst == \A r \in Requests :
    form[r].picture /\ (pc[r] = "insert" \/ r \in auth) => r \in avatars

RowsInv == /\ RowsUnique /\ RowsAnswered /\ AvatarFirst
           /\ ExistsIsTruthful /\ OrphanOnlyAfterFault

(* Of the message of r in the service s: it exists once published; it is    *)
(* nowhere, waiting, or at one place of one handler; what the handler's     *)
(* next step says of the documents is so.                                   *)
Follows(s, r) == r \in Queue!Seen(bus[s]) \cup docs[s]
                    => r \in auth /\ pc[r] \in {"reply", "ok", "error"}

Placed(s, r) ==
    LET step == bus[s].step[r] IN
    /\ r \in bus[s].ready => step = "none"
    /\ r \in Queue!Seen(bus[s]) /\ Done(s, r) /\ step # "ack" => faults > 0
    /\ step = "open" => s = "user" /\ r \in docs[s] \ buyers
    /\ step = "ack" => Done(s, r)

Accounted(s, r) ==
    pc[r] \in {"reply", "ok"} => Queue!Accounts(bus[s], r, Done(s, r))

MessageInv == /\ \A s \in Services, r \in Requests :
                     Follows(s, r) /\ Placed(s, r) /\ Accounted(s, r)
              /\ buyers \subseteq docs["user"]
              /\ HalfAppliedOnlyAfterFault

IndInv == TypeOK /\ RowsInv /\ MessageInv

LEMMA InitInv == Init => IndInv
<1> SUFFICES ASSUME Init PROVE IndInv
  OBVIOUS
<1>1. TypeOK
  BY BootTyped, MaxFaultsAssumption DEF Init, TypeOK, Running, Answers
<1>2. RowsInv
  BY DEF Init, RowsInv, RowsUnique, RowsAnswered, AvatarFirst, ExistsIsTruthful,
     OrphanOnlyAfterFault
<1>3. MessageInv
  BY DEF Init, MessageInv, Follows, Placed, Accounted, Done, HalfAppliedOnlyAfterFault,
     Stuck, Services, Queue!AtBoot
<1> QED
  BY <1>1, <1>2, <1>3 DEF IndInv

(* The table changes only with a call of createUser. *)
LEMMA RowsStep == TypeOK /\ RowsInv /\ [Next]_vars => RowsInv'
<1> SUFFICES ASSUME TypeOK, RowsInv, [Next]_vars PROVE RowsInv'
  OBVIOUS
<1> USE DEF RowsInv, RowsUnique, RowsAnswered, AvatarFirst, ExistsIsTruthful,
            OrphanOnlyAfterFault, SameEmail, authVars, Goto, Fault
<1>0. pc \in [Requests -> {"idle"} \cup Running \cup Answers] /\ faults \in Nat
      /\ auth \subseteq Requests
  BY MaxFaultsAssumption DEF TypeOK
<1>1. ASSUME NEW r \in Requests, CreateUser(r) PROVE RowsInv'
  <2>1. CASE Submit(r)
    BY <1>0, <2>1 DEF Submit
  <2>2. CASE UploadAvatar(r)
    BY <1>0, <2>2 DEF UploadAvatar
  <2>3. CASE UploadFails(r)
    BY <1>0, <2>3 DEF UploadFails
  <2>4. CASE InsertAuth(r)
    BY <1>0, <2>4 DEF InsertAuth
  <2>5. CASE InsertDuplicate(r)
    BY <1>0, <2>5 DEF InsertDuplicate
  <2>6. CASE InsertFails(r)
    BY <1>0, <2>6 DEF InsertFails
  <2>7. CASE PublishUser(r)
    BY <1>0, <2>7 DEF PublishUser
  <2>8. CASE PublishFails(r)
    BY <1>0, <2>8 DEF PublishFails
  <2>9. CASE Reply(r)
    BY <1>0, <2>9 DEF Reply
  <2>10. CASE InsertRefused(r)
    BY <1>0, <2>10 DEF InsertRefused
  <2> QED
    BY <1>1, <2>1, <2>2, <2>3, <2>4, <2>5, <2>6, <2>7, <2>8, <2>9, <2>10 DEF CreateUser
<1>2. CASE AuthCrash
  BY <1>0, <1>2 DEF AuthCrash, Running
<1>3. ASSUME UNCHANGED <<form, authVars>>, faults' \in {faults, faults + 1}
      PROVE  RowsInv'
  BY <1>0, <1>3
<1>4. ASSUME NEW s \in Services, Subscribe(s) \/ Disconnect(s) \/ ServiceCrash(s)
      PROVE  RowsInv'
  BY <1>3, <1>4 DEF Subscribe, Disconnect, ServiceCrash
<1>5. ASSUME NEW s \in Services, NEW r \in Requests,
             Deliver(s, r) \/ Handle(s, r) \/ StoreFails(s, r) \/ StoreUnconfirmed(s, r)
      PROVE  RowsInv'
  BY <1>3, <1>5 DEF Deliver, Handle, StoreFails, StoreUnconfirmed, SaveUser, SaveRefused, OpenBuyer,
     Ack, Requeue
<1>6. CASE UNCHANGED vars
  BY <1>3, <1>6 DEF vars
<1> QED
  BY <1>1, <1>2, <1>4, <1>5, <1>6 DEF Next

(* A call of createUser touches the messages only where it publishes, and   *)
(* there the request cannot have a message yet.                             *)
LEMMA CreateUserKeepsMessages ==
  ASSUME IndInv, NEW r \in Requests, CreateUser(r)
  PROVE  MessageInv'
<1> USE DEF IndInv, MessageInv, Follows, Placed, Accounted, Done, Queue!Accounts, Stuck,
            HalfAppliedOnlyAfterFault, dataVars, Goto, Fault
<1>0. pc \in [Requests -> {"idle"} \cup Running \cup Answers] /\ faults \in Nat
  BY MaxFaultsAssumption DEF TypeOK
<1>1. CASE Submit(r)
  BY <1>0, <1>1 DEF Submit
<1>2. CASE UploadAvatar(r)
  BY <1>0, <1>2 DEF UploadAvatar
<1>3. CASE UploadFails(r)
  BY <1>0, <1>3 DEF UploadFails
<1>4. CASE InsertAuth(r)
  BY <1>0, <1>4 DEF InsertAuth
<1>5. CASE InsertDuplicate(r)
  BY <1>0, <1>5 DEF InsertDuplicate
<1>6. CASE InsertFails(r)
  BY <1>0, <1>6 DEF InsertFails
<1>7. CASE PublishUser(r)
  <2>1. r \in auth
    BY <1>7 DEF PublishUser, RowsInv, RowsAnswered
  <2> QED
    BY <1>0, <1>7, <2>1 DEF PublishUser, Services, TypeOK, Queue!Published, Queue!Subscription
<1>8. CASE PublishFails(r)
  BY <1>0, <1>8 DEF PublishFails
<1>9. CASE Reply(r)
  BY <1>0, <1>9 DEF Reply
<1>10. CASE InsertRefused(r)
  BY <1>0, <1>10 DEF InsertRefused
<1> QED
  BY <1>1, <1>2, <1>3, <1>4, <1>5, <1>6, <1>7, <1>8, <1>9, <1>10 DEF CreateUser

(* Losing a connection or a process moves messages to lost, nothing else.   *)
LEMMA ConnectionKeepsMessages ==
  ASSUME IndInv, NEW s \in Services, Subscribe(s) \/ Disconnect(s) \/ ServiceCrash(s)
  PROVE  MessageInv'
<1> USE DEF IndInv, MessageInv, Follows, Placed, Accounted, Done, Queue!Accounts, Stuck,
            HalfAppliedOnlyAfterFault, authVars, dataVars, Fault
<1>0. TypeOK /\ faults \in Nat
  BY MaxFaultsAssumption DEF TypeOK
<1>1. CASE Subscribe(s)
  BY <1>0, <1>1 DEF Subscribe, TypeOK, Queue!Subscribed, Queue!Subscription
<1>2. CASE Disconnect(s)
  BY <1>0, <1>2 DEF Disconnect, TypeOK, Queue!Disconnected, Queue!Subscription
<1>3. CASE ServiceCrash(s)
  BY <1>0, <1>3 DEF ServiceCrash, TypeOK, Queue!Crashed, Queue!AtBoot, Queue!Subscription
<1> QED
  BY <1>1, <1>2, <1>3

(* A rejected message goes back or is lost; its documents stay as they were.*)
LEMMA RequeueKeepsMessages ==
  ASSUME IndInv, NEW s \in Services, NEW r \in Requests, Requeue(s, r),
         bus[s].step[r] \in {"save", "open"},
         \/ UNCHANGED faults /\ bus[s].step[r] = "save"
         \/ faults' = faults + 1
  PROVE  MessageInv'
<1> USE DEF IndInv, MessageInv, Follows, Placed, Accounted, Done, Queue!Accounts, authVars, dataVars, Requeue
<1>0. TypeOK /\ faults \in Nat
  BY MaxFaultsAssumption DEF TypeOK
<1>1. \A t \in Services, q \in Requests : Follows(t, q)' /\ Placed(t, q)' /\ Accounted(t, q)'
  <2> SUFFICES ASSUME NEW t \in Services, NEW q \in Requests
               PROVE  Follows(t, q)' /\ Placed(t, q)' /\ Accounted(t, q)'
    OBVIOUS
  <2>1. CASE r \in bus[s].stale
    BY <1>0, <2>1 DEF TypeOK, Queue!Subscription, Queue!Requeued, Queue!Acked
  <2>2. CASE r \notin bus[s].stale
    BY <1>0, <2>2 DEF TypeOK, Queue!Subscription, Queue!Requeued, Queue!Acked
  <2> QED
    BY <2>1, <2>2
<1>2. HalfAppliedOnlyAfterFault'
  BY <1>0 DEF HalfAppliedOnlyAfterFault, Stuck, TypeOK, Services, Queue!Subscription,
     Queue!Requeued, Queue!Acked
<1> QED
  BY <1>1, <1>2

(* A handler's step moves one message of one service.                       *)
LEMMA HandlerKeepsMessages ==
  ASSUME IndInv, NEW s \in Services, NEW r \in Requests,
         Deliver(s, r) \/ Handle(s, r) \/ StoreFails(s, r) \/ StoreUnconfirmed(s, r)
  PROVE  MessageInv'
<1> USE DEF IndInv, MessageInv, Follows, Placed, Accounted, Done, Queue!Accounts, Stuck, authVars,
            dataVars, HalfAppliedOnlyAfterFault
<1>0. TypeOK /\ faults \in Nat
  BY MaxFaultsAssumption DEF TypeOK
<1>1. CASE Deliver(s, r)
  BY <1>0, <1>1 DEF Deliver, TypeOK, Queue!Delivered, Queue!Subscription
<1>2. CASE SaveUser(s, r)
  BY <1>0, <1>2 DEF SaveUser, Acceptable, AfterSave, TypeOK, Services, Queue!MovedTo,
     Queue!Subscription
<1>3. CASE SaveRefused(s, r)
  BY <1>3, RequeueKeepsMessages DEF SaveRefused
<1>4. CASE s = "user" /\ OpenBuyer(r)
  BY <1>0, <1>4 DEF OpenBuyer, TypeOK, Services, Queue!MovedTo, Queue!Subscription
<1>5. CASE Ack(s, r)
  BY <1>0, <1>5 DEF Ack, TypeOK, Services, Queue!Acked, Queue!Subscription
<1>6. CASE StoreFails(s, r)
  BY <1>6, RequeueKeepsMessages DEF StoreFails, Fault
<1>7. CASE StoreUnconfirmed(s, r)
  <2> USE DEF StoreUnconfirmed, Acceptable, Fault, TypeOK, Services, Queue!Requeued,
              Queue!Acked, Queue!Subscription
  <2>1. CASE r \in bus[s].stale
    BY <1>0, <1>7, <2>1
  <2>2. CASE r \notin bus[s].stale
    BY <1>0, <1>7, <2>2
  <2> QED
    BY <2>1, <2>2
<1> QED
  BY <1>1, <1>2, <1>3, <1>4, <1>5, <1>6, <1>7 DEF Handle

LEMMA MessageStep == IndInv /\ [Next]_vars => MessageInv'
<1> SUFFICES ASSUME IndInv, [Next]_vars PROVE MessageInv'
  OBVIOUS
<1>1. CASE AuthCrash
  BY <1>1, MaxFaultsAssumption
  DEF AuthCrash, IndInv, TypeOK, MessageInv, Follows, Placed, Accounted, Done, Queue!Accounts, Stuck,
      Running, HalfAppliedOnlyAfterFault, dataVars, Fault
<1>2. CASE UNCHANGED vars
  BY <1>2
  DEF vars, IndInv, MessageInv, Follows, Placed, Accounted, Done, Queue!Accounts, Stuck,
      HalfAppliedOnlyAfterFault, authVars, dataVars
<1> QED
  BY <1>1, <1>2, CreateUserKeepsMessages, ConnectionKeepsMessages, HandlerKeepsMessages
  DEF Next

(* What the strengthening says of the properties checked by the runs. *)
LEMMA InvImplies ==
  IndInv => /\ ReplicaBacked /\ EventAccounted /\ HandledOnce /\ NoEmailClash
            /\ ExistsIsTruthful /\ DamageOnlyAfterFault
<1> SUFFICES ASSUME IndInv
             PROVE  /\ ReplicaBacked /\ EventAccounted /\ HandledOnce /\ NoEmailClash
                    /\ ExistsIsTruthful /\ DamageOnlyAfterFault
  OBVIOUS
<1> USE DEF IndInv, MessageInv
<1>1. \A s \in Services : Queue!Seen(bus[s]) \cup docs[s] \subseteq auth
  BY DEF TypeOK, Follows, Queue!Subscription
<1>2. ReplicaBacked
  BY <1>1 DEF ReplicaBacked, RowsInv, AvatarFirst, TypeOK
<1>3. NoEmailClash
  BY <1>1 DEF NoEmailClash, RowsInv, RowsUnique
<1>4. EventAccounted
  BY DEF EventAccounted, Accounted
<1>5. HandledOnce
  BY DEF HandledOnce, Placed
<1> QED
  BY <1>2, <1>3, <1>4, <1>5 DEF RowsInv, DamageOnlyAfterFault

(* Spec keeps the strengthening. *)
LEMMA Inductive == Spec => []IndInv
<1>1. IndInv /\ [Next]_vars => IndInv'
  BY TypeStep, RowsStep, MessageStep DEF IndInv
<1> QED
  BY InitInv, <1>1, PTL DEF Spec

(* Whatever fails, and in whatever order the calls, the broker and the two *)
(* services move: a copy comes from a committed row whose avatar is        *)
(* stored; an answered sign-up is waiting, in a handler, handled           *)
(* completely or stranded in a queue without consumer; no message is       *)
(* handled twice at once or again after it was handled completely; no two  *)
(* copies share an address; a User without Buyer and a row without event   *)
(* are there only after a failure; ALREADY_EXISTS is the truth.            *)
THEOREM Safety ==
  Spec => [](/\ ReplicaBacked /\ EventAccounted /\ HandledOnce /\ NoEmailClash
             /\ ExistsIsTruthful /\ DamageOnlyAfterFault)
BY Inductive, InvImplies, PTL

-----------------------------------------------------------------------------
(* A User document left without its Buyer stays so: the handler of a       *)
(* redelivered message can only be refused by the unique userId.           *)
THEOREM HalfAppliedForEver == Spec => HalfAppliedIsFinal
<1>1. IndInv /\ [Next]_vars => \A r \in Requests : Stuck(r) => Stuck(r)'
  <2> SUFFICES ASSUME IndInv, [Next]_vars, NEW r \in Requests, Stuck(r)
               PROVE  Stuck(r)'
    OBVIOUS
  <2> USE DEF Stuck
  <2>0. TypeOK
    BY DEF IndInv
  <2>1. ASSUME NEW q \in Requests, CreateUser(q) PROVE Stuck(r)'
    <3>1. CASE PublishUser(q)
      BY <2>0, <3>1 DEF PublishUser, dataVars, Services, TypeOK, Queue!Published,
         Queue!Subscription
    <3>2. CASE ~PublishUser(q)
      BY <2>1, <3>2 DEF CreateUser, Submit, UploadAvatar, UploadFails, InsertAuth,
         InsertDuplicate, InsertRefused, InsertFails, PublishFails, Reply, dataVars
    <3> QED
      BY <3>1, <3>2
  <2>2. CASE AuthCrash
    BY <2>2 DEF AuthCrash, dataVars
  <2>3. ASSUME NEW s \in Services, Subscribe(s) \/ Disconnect(s) \/ ServiceCrash(s)
        PROVE  Stuck(r)'
    <3> USE DEF dataVars, TypeOK, Services, Queue!Subscription
    <3>1. CASE Subscribe(s)
      BY <2>0, <3>1 DEF Subscribe, Queue!Subscribed
    <3>2. CASE Disconnect(s)
      BY <2>0, <3>2 DEF Disconnect, Queue!Disconnected
    <3>3. CASE ServiceCrash(s)
      BY <2>0, <3>3 DEF ServiceCrash, Queue!Crashed, Queue!AtBoot
    <3> QED
      BY <2>3, <3>1, <3>2, <3>3
  <2>4. ASSUME NEW s \in Services, NEW q \in Requests,
               Deliver(s, q) \/ Handle(s, q) \/ StoreFails(s, q) \/ StoreUnconfirmed(s, q)
        PROVE  Stuck(r)'
    <3>1. CASE SaveUser(s, q)
      BY <2>0, <3>1 DEF SaveUser, Acceptable, TypeOK, Services, Queue!Subscription, Queue!MovedTo
    <3>2. CASE s = "user" /\ OpenBuyer(q)
      BY <2>0, <3>2 DEF OpenBuyer, TypeOK, Services, Queue!Subscription, Queue!MovedTo
    <3>3. CASE Deliver(s, q)
      BY <2>0, <3>3 DEF Deliver, dataVars, TypeOK, Services, Queue!Subscription,
         Queue!Delivered
    <3>4. CASE Ack(s, q)
      BY <2>0, <3>4 DEF Ack, dataVars, TypeOK, Services, Queue!Subscription, Queue!Acked
    <3>5. CASE SaveRefused(s, q) \/ StoreFails(s, q)
      <4>1. Requeue(s, q)
        BY <3>5 DEF SaveRefused, StoreFails
      <4>2. bus'["user"].step[r] \in {"none", bus["user"].step[r]}
        <5>1. CASE q \in bus[s].stale
          BY <2>0, <4>1, <5>1 DEF Requeue, TypeOK, Services, Queue!Subscription,
             Queue!Acked, Queue!Requeued
        <5>2. CASE q \notin bus[s].stale
          BY <2>0, <4>1, <5>2 DEF Requeue, TypeOK, Services, Queue!Subscription,
             Queue!Acked, Queue!Requeued
        <5> QED
          BY <5>1, <5>2
      <4> QED
        BY <4>1, <4>2 DEF Requeue, dataVars
    <3>6. CASE StoreUnconfirmed(s, q)
      <4>1. r \in docs'["user"] \ buyers'
        BY <2>0, <3>6 DEF StoreUnconfirmed, Acceptable, TypeOK, Services
      <4>2. bus'["user"].step[r] \in {"none", bus["user"].step[r]}
        <5>1. CASE q \in bus[s].stale
          BY <2>0, <3>6, <5>1 DEF StoreUnconfirmed, TypeOK, Services, Queue!Subscription,
             Queue!Acked, Queue!Requeued
        <5>2. CASE q \notin bus[s].stale
          BY <2>0, <3>6, <5>2 DEF StoreUnconfirmed, TypeOK, Services, Queue!Subscription,
             Queue!Acked, Queue!Requeued
        <5> QED
          BY <5>1, <5>2
      <4> QED
        BY <2>0, <3>6, <4>1, <4>2 DEF StoreUnconfirmed, TypeOK, Services
    <3> QED
      BY <2>4, <3>1, <3>2, <3>3, <3>4, <3>5, <3>6 DEF Handle
  <2>5. CASE UNCHANGED vars
    BY <2>5 DEF vars, dataVars
  <2> QED
    BY <2>1, <2>2, <2>3, <2>4, <2>5 DEF Next
<1> QED
  BY <1>1, Inductive, PTL DEF Spec, HalfAppliedIsFinal

-----------------------------------------------------------------------------
(* A row is an account of the directory. *)
LEMMA Registered == \A r \in auth : r \in Directory!RegisteredIds
<1> SUFFICES ASSUME NEW r \in auth PROVE r \in Directory!RegisteredIds
  OBVIOUS
<1> DEFINE a == [id |-> r, email |-> form[r].email]
<1>1. a \in {[id |-> q, email |-> form[q].email] : q \in auth} /\ a.id = r
  OBVIOUS
<1> QED
  BY <1>1 DEF Directory!RegisteredIds

(* Sign-up with its queues, retries and failures implements the directory: *)
(* one account per address, copies only of registered accounts, a buyer    *)
(* opened once.                                                            *)
THEOREM Refinement == Spec => ImplementsDirectory
<1> USE DEF Directory!vars
<1>1. Init => Directory!Init
  BY DEF Init, Directory!Init
<1>2. IndInv /\ [Next]_vars => [Directory!Next]_(Directory!vars)
  <2> SUFFICES ASSUME IndInv, [Next]_vars PROVE [Directory!Next]_(Directory!vars)
    OBVIOUS
  <2>0. TypeOK /\ RowsInv /\ MessageInv
    BY DEF IndInv
  <2>1. ASSUME UNCHANGED <<form, auth, docs, buyers>>
        PROVE  UNCHANGED Directory!vars
    BY <2>1
  <2>2. ASSUME NEW r \in Requests, CreateUser(r)
        PROVE  [Directory!Next]_(Directory!vars)
    <3>1. CASE InsertAuth(r)
      <4>1. r \notin auth
        BY <2>0, <3>1 DEF InsertAuth, RowsInv, RowsAnswered
      <4>2. PICK a \in Directory!Accounts : a = [id |-> r, email |-> form[r].email]
        BY <2>0 DEF Directory!Accounts, TypeOK, Forms
      <4>3. Directory!Register(a)
        BY <3>1, <4>1, <4>2 DEF InsertAuth, Directory!Register, SameEmail, dataVars
      <4> QED
        BY <4>3 DEF Directory!Next
    <3>2. CASE ~InsertAuth(r)
      BY <2>1, <2>2, <3>2 DEF CreateUser, Submit, UploadAvatar, UploadFails,
         InsertDuplicate, InsertRefused, InsertFails, PublishUser, PublishFails, Reply, dataVars
    <3> QED
      BY <3>1, <3>2
  <2>3. CASE AuthCrash
    BY <2>1, <2>3 DEF AuthCrash, dataVars
  <2>4. ASSUME NEW s \in Services, Subscribe(s) \/ Disconnect(s) \/ ServiceCrash(s)
        PROVE  UNCHANGED Directory!vars
    BY <2>1, <2>4 DEF Subscribe, Disconnect, ServiceCrash, authVars, dataVars
  <2>5. ASSUME NEW s \in Services, NEW r \in Requests,
               Deliver(s, r) \/ Handle(s, r) \/ StoreFails(s, r) \/ StoreUnconfirmed(s, r)
        PROVE  [Directory!Next]_(Directory!vars)
    <3>1. CASE SaveUser(s, r)
      <4>1. r \in auth \ docs[s]
        BY <2>0, <3>1 DEF SaveUser, Acceptable, MessageInv, Follows
      <4>2. Directory!Learn(s, r)
        BY <3>1, <4>1, Registered DEF SaveUser, Directory!Learn, authVars
      <4> QED
        BY <4>2 DEF Directory!Next
    <3>2. CASE s = "user" /\ OpenBuyer(r)
      <4>1. r \in docs["user"]
        BY <2>0, <3>2 DEF OpenBuyer, MessageInv, Placed
      <4>2. Directory!Open(r)
        BY <3>2, <4>1 DEF OpenBuyer, Directory!Open, authVars
      <4> QED
        BY <4>2 DEF Directory!Next
    <3>3. CASE Deliver(s, r) \/ SaveRefused(s, r) \/ Ack(s, r) \/ StoreFails(s, r)
      BY <2>1, <3>3 DEF Deliver, SaveRefused, Ack, StoreFails, Requeue, authVars, dataVars
    <3>4. CASE StoreUnconfirmed(s, r)
      <4>1. CASE bus[s].step[r] = "save"
        <5>1. r \in auth \ docs[s]
          BY <2>0, <3>4, <4>1 DEF StoreUnconfirmed, Acceptable, MessageInv, Follows
        <5>2. Directory!Learn(s, r)
          BY <3>4, <4>1, <5>1, Registered DEF StoreUnconfirmed, Directory!Learn, authVars
        <5> QED
          BY <5>2 DEF Directory!Next
      <4>2. CASE bus[s].step[r] # "save"
        <5>1. s = "user" /\ r \in docs["user"] \ buyers
          BY <2>0, <3>4, <4>2 DEF StoreUnconfirmed, MessageInv, Placed
        <5>2. Directory!Open(r)
          BY <3>4, <4>2, <5>1 DEF StoreUnconfirmed, Directory!Open, authVars
        <5> QED
          BY <5>2 DEF Directory!Next
      <4> QED
        BY <4>1, <4>2
    <3> QED
      BY <2>5, <3>1, <3>2, <3>3, <3>4 DEF Handle
  <2>6. CASE UNCHANGED vars
    BY <2>1, <2>6 DEF vars, authVars, dataVars
  <2> QED
    BY <2>2, <2>3, <2>4, <2>5, <2>6 DEF Next
<1> QED
  BY <1>1, <1>2, Inductive, PTL DEF Spec, ImplementsDirectory, Directory!Spec
=============================================================================
