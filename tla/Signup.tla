------------------------------- MODULE Signup -------------------------------
(***************************************************************************)
(* From POST /auth/signup to the buyer account.                            *)
(*                                                                         *)
(* The auth service inserts the row of the new account in PostgreSQL and   *)
(* publishes it on the topic exchange create_user.  The user service and   *)
(* the gig service subscribe with @RabbitSubscribe and no queue name, so   *)
(* each holds a queue of its own that the broker names anew at every       *)
(* (re)connection.  Each saves a copy of the account (a User document) in  *)
(* its own MongoDB; the user service then creates the Buyer.  A handler    *)
(* that throws has its message put back in the queue (the library's        *)
(* default), one that returns has it acknowledged.                         *)
(*                                                                         *)
(* Abstractions.  A request stands for the row it inserts, whose number    *)
(* the database draws; form[r] is what the client typed.  The message of r *)
(* carries that row.  faults counts the injected failures (a broker, S3 or *)
(* MongoDB call that fails, a process that dies, a lost connection) and is *)
(* bounded by MaxFaults.  The verification mail is in module AccountMail.  *)
(***************************************************************************)
EXTENDS Naturals

CONSTANTS Requests,   \* sign-up requests, each sent at most once
          Emails,     \* addresses the clients type
          MaxFaults   \* bound on the failures injected in a behaviour

ASSUME MaxFaultsAssumption == MaxFaults \in Nat

VARIABLES form,     \* what each request carries
          pc,       \* where auth's createUser stands for each request
          avatars,  \* pictures stored in S3
          auth,     \* rows of the auth table
          bus,      \* each service's subscription to create_user
          docs,     \* User documents of each service's database
          buyers,   \* users that have a Buyer document
          faults

authVars == <<pc, avatars, auth>>
dataVars == <<docs, buyers>>
vars     == <<form, authVars, bus, dataVars, faults>>

Services == {"user", "gig"}

(* Handlers save the User, then open the Buyer; "ack" is after the last    *)
(* write, before the acknowledgement.                                      *)
Queue == INSTANCE AnonymousQueue WITH Messages <- Requests,
                                      Steps <- {"save", "open", "ack"}

(* A form always has an address; the picture and the names of the browser  *)
(* and the device are optional.                                            *)
Forms == [email : Emails, picture : BOOLEAN, device : BOOLEAN]

(* Two requests for one address. *)
SameEmail(q, r) == form[q].email = form[r].email

(* createUser: idle, the awaits it passes, then how it was answered. *)
Running == {"upload", "insert", "publish", "reply"}
Answers == {"ok", "exists", "error"}

(* The copies of r that service s has to make are made. *)
Done(s, r) == r \in (IF s = "user" THEN buyers ELSE docs[s])

-----------------------------------------------------------------------------
(* Services may boot in any order: a queue may be missing at the start.    *)
Init == /\ form \in [Requests -> Forms]
        /\ pc = [r \in Requests |-> "idle"]
        /\ avatars = {} /\ auth = {} /\ buyers = {}
        /\ bus \in [Services -> {Queue!AtBoot(b) : b \in BOOLEAN}]
        /\ docs = [s \in Services |-> {}]
        /\ faults = 0

Goto(r, label) == pc' = [pc EXCEPT ![r] = label]

Fault == faults < MaxFaults /\ faults' = faults + 1

-----------------------------------------------------------------------------
(* auth service: createUser                                                *)

(* The gateway forwards the form; the password is hashed. *)
Submit(r) == /\ pc[r] = "idle"
             /\ Goto(r, "upload")
             /\ UNCHANGED <<form, avatars, auth, bus, dataVars, faults>>

(* uploadAuthAvatar returns null at once when no picture was sent. *)
UploadAvatar(r) == /\ pc[r] = "upload"
                   /\ avatars' = avatars \cup (IF form[r].picture THEN {r} ELSE {})
                   /\ Goto(r, "insert")
                   /\ UNCHANGED <<form, auth, bus, dataVars, faults>>

UploadFails(r) == /\ pc[r] = "upload" /\ form[r].picture
                  /\ Fault
                  /\ Goto(r, "error")
                  /\ UNCHANGED <<form, avatars, auth, bus, dataVars>>

(* Mutant: no unique index on email. *)
InsertUnchecked(r) == /\ pc[r] = "insert" /\ form[r].device
                      /\ auth' = auth \cup {r}
                      /\ Goto(r, "publish")
                      /\ UNCHANGED <<form, avatars, bus, dataVars, faults>>

InsertAuth(r) == /\ pc[r] = "insert" /\ form[r].device
                 /\ \A q \in auth : ~SameEmail(q, r)
                 /\ auth' = auth \cup {r}
                 /\ Goto(r, "publish")
                 /\ UNCHANGED <<form, avatars, bus, dataVars, faults>>

(* Mutant: the error is answered with a code of its own. *)
DuplicateUnmapped(r) == /\ pc[r] = "insert" /\ form[r].device
                        /\ \E q \in auth : SameEmail(q, r)
                        /\ Goto(r, "conflict")
                        /\ UNCHANGED <<form, avatars, auth, bus, dataVars, faults>>

(* P2002: the unique index on email answers ALREADY_EXISTS. *)
InsertDuplicate(r) == /\ pc[r] = "insert" /\ form[r].device
                      /\ \E q \in auth : SameEmail(q, r)
                      /\ Goto(r, "exists")
                      /\ UNCHANGED <<form, avatars, auth, bus, dataVars, faults>>

(* browserName and deviceType are columns without a default: INTERNAL. *)
InsertRefused(r) == /\ pc[r] = "insert" /\ ~form[r].device
                    /\ Goto(r, "error")
                    /\ UNCHANGED <<form, avatars, auth, bus, dataVars, faults>>

(* Mutant: every database error is taken for a duplicate. *)
FailureAsDuplicate(r) == /\ pc[r] = "insert"
                         /\ Fault
                         /\ Goto(r, "exists")
                         /\ UNCHANGED <<form, avatars, auth, bus, dataVars>>

InsertFails(r) == /\ pc[r] = "insert"
                  /\ Fault
                  /\ Goto(r, "error")
                  /\ UNCHANGED <<form, avatars, auth, bus, dataVars>>

(* The exchange copies the message to every queue bound to it; for a       *)
(* service that holds none the message goes nowhere, and publish succeeds. *)
PublishUser(r) == /\ pc[r] = "publish"
                  /\ bus' = [s \in Services |-> Queue!Published(bus[s], r)]
                  /\ Goto(r, "reply")
                  /\ UNCHANGED <<form, avatars, auth, dataVars, faults>>

(* No connection to the broker: INTERNAL, and the row stays. *)
PublishFails(r) == /\ pc[r] = "publish"
                   /\ Fault
                   /\ Goto(r, "error")
                   /\ UNCHANGED <<form, avatars, auth, bus, dataVars>>

(* Mutant: making the tokens throws. *)
ReplyThrows(r) == /\ pc[r] = "reply"
                  /\ Goto(r, "error")
                  /\ UNCHANGED <<form, avatars, auth, bus, dataVars, faults>>

(* The broker confirmed: the tokens are made and returned. *)
Reply(r) == /\ pc[r] = "reply"
            /\ Goto(r, "ok")
            /\ UNCHANGED <<form, avatars, auth, bus, dataVars, faults>>

(* The auth process dies: every call in progress fails at the gateway. *)
AuthCrash == /\ \E r \in Requests : pc[r] \in Running
             /\ Fault
             /\ pc' = [r \in Requests |-> IF pc[r] \in Running THEN "error" ELSE pc[r]]
             /\ UNCHANGED <<form, avatars, auth, bus, dataVars>>

-----------------------------------------------------------------------------
(* The broker and the subscriptions                                        *)

Subscribe(s) == /\ ~bus[s].bound
                /\ bus' = [bus EXCEPT ![s] = Queue!Subscribed(@)]
                /\ UNCHANGED <<form, authVars, dataVars, faults>>

Deliver(s, r) == /\ bus[s].bound /\ r \in bus[s].ready
                 /\ bus' = [bus EXCEPT ![s] = Queue!Delivered(@, r, "save")]
                 /\ UNCHANGED <<form, authVars, dataVars, faults>>

Disconnect(s) == /\ bus[s].bound
                 /\ Fault
                 /\ bus' = [bus EXCEPT ![s] = Queue!Disconnected(@)]
                 /\ UNCHANGED <<form, authVars, dataVars>>

ServiceCrash(s) == /\ Fault
                   /\ bus' = [bus EXCEPT ![s] = Queue!Crashed(@)]
                   /\ UNCHANGED <<form, authVars, dataVars>>

(* The handler returned. *)
Ack(s, r) == /\ bus[s].step[r] = "ack"
             /\ bus' = [bus EXCEPT ![s] = Queue!Acked(@, r)]
             /\ UNCHANGED <<form, authVars, dataVars, faults>>

(* The handler threw. *)
Requeue(s, r) == /\ bus' = [bus EXCEPT ![s] = Queue!Requeued(@, r)]
                 /\ UNCHANGED <<form, authVars, dataVars>>

-----------------------------------------------------------------------------
(* user service: createBuyer; gig service: UserService.create              *)

(* Mutant: saving twice is accepted. *)
AcceptableAgain(s, r) == /\ form[r].picture
                         /\ \A q \in docs[s] \ {r} : ~SameEmail(q, r)

(* What the User schema accepts: profilePublicId is required, userId and   *)
(* email are unique.                                                       *)
Acceptable(s, r) == /\ form[r].picture
                    /\ \A q \in docs[s] : q # r /\ ~SameEmail(q, r)

(* Mutant: no service goes on to the Buyer. *)
AfterSaveNothing(s) == "ack"

(* Only the user service has a second write to make. *)
AfterSave(s) == IF s = "user" THEN "open" ELSE "ack"

SaveUser(s, r) == /\ bus[s].step[r] = "save" /\ Acceptable(s, r)
                  /\ docs' = [docs EXCEPT ![s] = @ \cup {r}]
                  /\ bus' = [bus EXCEPT ![s] = Queue!MovedTo(@, r, AfterSave(s))]
                  /\ UNCHANGED <<form, authVars, buyers, faults>>

(* A validation or duplicate key error; nothing catches it. *)
SaveRefused(s, r) == /\ bus[s].step[r] = "save" /\ ~Acceptable(s, r)
                     /\ Requeue(s, r)
                     /\ UNCHANGED faults

(* Buyer.user is unique: see HandledOnce. *)
OpenBuyer(r) == /\ bus["user"].step[r] = "open" /\ r \notin buyers
                /\ buyers' = buyers \cup {r}
                /\ bus' = [bus EXCEPT !["user"] = Queue!MovedTo(@, r, "ack")]
                /\ UNCHANGED <<form, authVars, docs, faults>>

(* Mutant: the error is caught, so the handler returns. *)
StoreSwallowed(s, r) == /\ bus[s].step[r] \in {"save", "open"}
                        /\ Fault
                        /\ bus' = [bus EXCEPT ![s] = Queue!Acked(@, r)]
                        /\ UNCHANGED <<form, authVars, dataVars>>

(* MongoDB fails before either write. *)
StoreFails(s, r) == /\ bus[s].step[r] \in {"save", "open"}
                    /\ Fault
                    /\ Requeue(s, r)

(* It fails after the write, which it never confirms: the handler throws.  *)
StoreUnconfirmed(s, r) ==
    /\ Fault
    /\ \/ /\ bus[s].step[r] = "save" /\ Acceptable(s, r)
          /\ docs' = [docs EXCEPT ![s] = @ \cup {r}]
          /\ UNCHANGED buyers
       \/ /\ s = "user" /\ bus[s].step[r] = "open"
          /\ buyers' = buyers \cup {r}
          /\ UNCHANGED docs
    /\ bus' = [bus EXCEPT ![s] = Queue!Requeued(@, r)]
    /\ UNCHANGED <<form, authVars>>

-----------------------------------------------------------------------------
CreateUser(r) == \/ Submit(r)
                 \/ UploadAvatar(r) \/ UploadFails(r)
                 \/ InsertAuth(r) \/ InsertDuplicate(r) \/ InsertRefused(r) \/ InsertFails(r)
                 \/ PublishUser(r) \/ PublishFails(r) \/ Reply(r)

Handle(s, r) == \/ SaveUser(s, r) \/ SaveRefused(s, r)
                \/ s = "user" /\ OpenBuyer(r)
                \/ Ack(s, r)

Next == \/ \E r \in Requests : CreateUser(r)
        \/ AuthCrash
        \/ \E s \in Services : Subscribe(s) \/ Disconnect(s) \/ ServiceCrash(s)
        \/ \E s \in Services, r \in Requests :
               Deliver(s, r) \/ Handle(s, r) \/ StoreFails(s, r) \/ StoreUnconfirmed(s, r)

Spec == Init /\ [][Next]_vars

(* A call that has started is carried on by the event loop and the broker  *)
(* delivers what a queue with a consumer holds.  Submitting, connecting,   *)
(* restarting and failing are never owed.                                  *)
Fairness ==
    /\ \A r \in Requests : WF_vars(UploadAvatar(r) \/ InsertAuth(r) \/ InsertDuplicate(r)
                                   \/ InsertRefused(r) \/ PublishUser(r) \/ Reply(r))
    /\ \A s \in Services, r \in Requests :
           WF_vars(Deliver(s, r)) /\ WF_vars(Handle(s, r))

FairSpec == Spec /\ Fairness
-----------------------------------------------------------------------------
TypeOK == /\ form \in [Requests -> Forms]
          /\ pc \in [Requests -> {"idle"} \cup Running \cup Answers]
          /\ avatars \subseteq Requests
          /\ auth \subseteq Requests
          /\ bus \in [Services -> Queue!Subscription]
          /\ docs \in [Services -> SUBSET Requests]
          /\ buyers \subseteq Requests
          /\ faults \in 0..MaxFaults

(* Whatever circulates or is replicated comes from a row of the auth table *)
(* whose avatar, if any, had been stored first: no interleaving of the     *)
(* two services and the retries ever invents an account.                   *)
ReplicaBacked ==
    /\ \A s \in Services : Queue!Seen(bus[s]) \cup docs[s] \subseteq auth
    /\ buyers \subseteq docs["user"]
    /\ \A r \in auth : form[r].picture => r \in avatars

(* An account answered with tokens is accounted for in every service: its  *)
(* event waits, is being handled, was handled completely, or is in a queue *)
(* nobody consumes.  Rejecting a message must never drop it.               *)
EventAccounted ==
    \A r \in Requests, s \in Services :
        pc[r] = "ok" => Queue!Accounts(bus[s], r, Done(s, r))

(* One delivery at a time: a message is not at once in the queue and in a  *)
(* handler; no second Buyer of a user is ever attempted, however often the *)
(* message comes again; and a sign-up handled completely is seen again     *)
(* only after a failure.                                                   *)
HandledOnce ==
    \A s \in Services, r \in Requests :
        /\ r \in bus[s].ready => bus[s].step[r] = "none"
        /\ bus[s].step[r] = "open" => r \notin buyers
        /\ r \in Queue!Seen(bus[s]) /\ Done(s, r) /\ bus[s].step[r] # "ack" => faults > 0

(* The unique index on email in a copy never bites: of two accounts whose  *)
(* events can meet in one service no two share an address.                 *)
NoEmailClash ==
    \A s \in Services : \A q, r \in Queue!Seen(bus[s]) \cup docs[s] :
        q # r => ~SameEmail(q, r)

(* A User document without its Buyer, outside the handler that is about to *)
(* write it.                                                               *)
Stuck(r) == r \in docs["user"] \ buyers /\ bus["user"].step[r] # "open"

(* A half-applied sign-up is only there after a failure.                   *)
HalfAppliedOnlyAfterFault == \A r \in Requests : Stuck(r) => faults > 0

(* ALREADY_EXISTS is the truth: another request's row holds the address.   *)
(* A request refused for its address never left a row of its own.          *)
ExistsIsTruthful ==
    \A r \in Requests : pc[r] = "exists" =>
        r \notin auth /\ \E q \in auth : SameEmail(q, r)

(* An account in the auth table whose sign-up was answered with an error,  *)
(* the one no retry can repair, is only there after a failure.             *)
OrphanOnlyAfterFault ==
    \A r \in auth : pc[r] \notin {"publish", "reply", "ok"} => pc[r] = "error" /\ faults > 0

(* What nothing can repair is damage a failure did: no race of requests,   *)
(* services and redeliveries alone leaves a User without its Buyer or a    *)
(* row whose owner was told that sign-up failed.                           *)
DamageOnlyAfterFault == HalfAppliedOnlyAfterFault /\ OrphanOnlyAfterFault

(* Once the User document is there and its handler is gone, the redelivered*)
(* message is refused for ever: a half-applied sign-up has no repair.      *)
HalfAppliedIsFinal == [][\A r \in Requests : Stuck(r) => Stuck(r)']_vars
-----------------------------------------------------------------------------
(* A sign-up with a picture whose event is never stranded reaches both     *)
(* copies, however often MongoDB failed before the write.                  *)
CopiedUnlessLost ==
    \A r \in Requests, s \in Services :
        (pc[r] = "ok" /\ form[r].picture) ~> (r \in docs[s] \/ r \in bus[s].lost)

(* With no failure at all it ends as a buyer. *)
BecomesBuyer ==
    \A r \in Requests :
        (pc[r] = "ok" /\ form[r].picture) ~>
            (r \in buyers \/ r \in bus["user"].lost \/ faults > 0)
-----------------------------------------------------------------------------
(* What a reader of the three databases sees. *)
Directory == INSTANCE AccountDirectory WITH
                 Ids <- Requests,
                 accounts <- {[id |-> r, email |-> form[r].email] : r \in auth},
                 known <- docs

(* Signup implements AccountDirectory: every step registers one account,   *)
(* adds one copy, opens one buyer or changes nothing a reader sees.        *)
ImplementsDirectory == Directory!Spec
=============================================================================
