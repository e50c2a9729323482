------------------------- MODULE AccountMailProofs -------------------------
(***************************************************************************)
(* Proofs about AccountMail, for any set of calls about an account and any *)
(* number of failures.                                                     *)
(***************************************************************************)
EXTENDS AccountMail, TLAPS

USE DEF Queue!InHandler, Queue!Seen

Known(l) == l \in Queue!Seen(bus) \cup bus.lost

(* The steps of the subscription of the notifications service.             *)
BrokerStep == \/ \E l \in Links : Deliver(l) \/ SendEmail(l) \/ SendFails(l) \/ Ack(l)
              \/ Subscribe \/ Disconnect \/ NotificationsCrash

(* Every operation on the subscription gives a subscription.               *)
LEMMA BootTyped ==
  ASSUME NEW b \in BOOLEAN
  PROVE  Queue!AtBoot(b) \in Queue!Subscription
BY DEF Queue!Subscription, Queue!AtBoot

LEMMA MessageTyped ==
  ASSUME NEW q \in Queue!Subscription, NEW l \in Links, NEW t \in {"send", "ack"}
  PROVE  /\ Queue!Published(q, l) \in Queue!Subscription
         /\ Queue!Delivered(q, l, t) \in Queue!Subscription
         /\ Queue!MovedTo(q, l, t) \in Queue!Subscription
         /\ Queue!Acked(q, l) \in Queue!Subscription
<1> USE DEF Queue!Subscription
<1>1. Queue!Published(q, l) \in Queue!Subscription
  BY DEF Queue!Published
<1>2. Queue!Delivered(q, l, t) \in Queue!Subscription
  BY DEF Queue!Delivered
<1>3. Queue!MovedTo(q, l, t) \in Queue!Subscription
  BY DEF Queue!MovedTo
<1>4. Queue!Acked(q, l) \in Queue!Subscription
  BY DEF Queue!Acked
<1> QED
  BY <1>1, <1>2, <1>3, <1>4

LEMMA ConnectionTyped ==
  ASSUME NEW q \in Queue!Subscription
  PROVE  /\ Queue!Subscribed(q) \in Queue!Subscription
         /\ Queue!Disconnected(q) \in Queue!Subscription
         /\ Queue!Crashed(q) \in Queue!Subscription
BY DEF Queue!Subscription, Queue!AtBoot, Queue!Subscribed, Queue!Disconnected, Queue!Crashed

(* The subscription and the inbox change with a mail or a broker's step.   *)
LEMMA CallStep ==
  [Next]_vars => \/ BrokerStep
                 \/ \E c \in Calls : Mail(c)
                 \/ UNCHANGED <<bus, inbox>> /\ faults' \in {faults, faults + 1}
BY DEF Next, BrokerStep, Call, Serve, Find, VerifyEmail, ResendEmail, ForgotPassword, ResetPassword,
       ResetPasswordWithToken, MailFails, CallFails, AuthCrash, Expire, HandleCreateAuthEmail,
       Fault, vars

LEMMA BusTyped == TypeOK /\ [Next]_vars => bus' \in Queue!Subscription
<1> SUFFICES ASSUME TypeOK, [Next]_vars PROVE bus' \in Queue!Subscription
  OBVIOUS
<1>0. bus \in Queue!Subscription
  BY DEF TypeOK
<1>1. ASSUME NEW c \in Calls, Mail(c) PROVE bus' \in Queue!Subscription
  BY <1>0, <1>1, MessageTyped DEF Mail, Links
<1>2. ASSUME NEW l \in Links, Deliver(l) \/ SendEmail(l) \/ SendFails(l) \/ Ack(l)
      PROVE  bus' \in Queue!Subscription
  BY <1>0, <1>2, MessageTyped DEF Deliver, SendEmail, SendFails, Ack
<1>3. CASE Subscribe \/ Disconnect \/ NotificationsCrash
  BY <1>0, <1>3, ConnectionTyped DEF Subscribe, Disconnect, NotificationsCrash
<1>4. CASE UNCHANGED bus
  BY <1>0, <1>4
<1> QED
  BY <1>1, <1>2, <1>3, <1>4, CallStep DEF BrokerStep

LEMMA TypeStep == TypeOK /\ [Next]_vars => TypeOK'
<1> SUFFICES ASSUME TypeOK, [Next]_vars PROVE TypeOK'
  OBVIOUS
<1>0. bus' \in Queue!Subscription
  BY BusTyped
<1> USE <1>0 DEF TypeOK, Running, Answers, rowVars, Goto, Fault
<1>1. ASSUME NEW c \in Calls, Call(c) \/ Find(c) \/ ResetPasswordWithToken(c) PROVE TypeOK'
  BY <1>1 DEF Call, Find, ResetPasswordWithToken
<1>2. ASSUME NEW c \in Calls, VerifyEmail(c) \/ ResendEmail(c) PROVE TypeOK'
  BY <1>2 DEF VerifyEmail, ResendEmail, Links
<1>3. ASSUME NEW c \in Calls, ForgotPassword(c) \/ ResetPassword(c) PROVE TypeOK'
  BY <1>3 DEF ForgotPassword, ResetPassword, Links
<1>4. ASSUME NEW c \in Calls, Mail(c) \/ MailFails(c) \/ CallFails(c) PROVE TypeOK'
  BY <1>4, MaxFaultsAssumption DEF Mail, MailFails, CallFails
<1>5. CASE BrokerStep
  BY <1>5, MaxFaultsAssumption DEF BrokerStep, Deliver, SendEmail, SendFails, Ack, Subscribe,
     Disconnect, NotificationsCrash
<1>6. CASE AuthCrash
  BY <1>6, MaxFaultsAssumption DEF AuthCrash
<1>7. CASE Expire
  BY <1>7 DEF Expire
<1>8. CASE UNCHANGED vars
  BY <1>8 DEF vars
<1> QED
  BY <1>1, <1>2, <1>3, <1>4, <1>5, <1>6, <1>7, <1>8 DEF Next, Serve, HandleCreateAuthEmail, BrokerStep

LEMMA InitTyped == Init => TypeOK
<1> SUFFICES ASSUME Init PROVE TypeOK
  OBVIOUS
<1>1. bus \in Queue!Subscription
  BY BootTyped, MessageTyped DEF Init, Links
<1>2. faults \in 0..MaxFaults
  BY MaxFaultsAssumption DEF Init
<1> QED
  BY <1>1, <1>2 DEF Init, TypeOK, Links, Running, Answers

(* Every variable keeps its type, whatever fails and in whatever order.    *)
THEOREM TypeCorrect == Spec => []TypeOK
BY InitTyped, TypeStep, PTL DEF Spec

-----------------------------------------------------------------------------
(* The strengthening: a handler acknowledges a mail it sent, unless        *)
(* something failed, and the link of a call is unknown outside the auth    *)
(* service until the call has mailed it.                                   *)
AckedAfterSend == \A l \in Links : bus.step[l] = "ack" => inbox[l] > 0 \/ faults > 0

Unmailed == \A c \in Calls : pc[c] \in {"idle"} \cup Running => inbox[c] = 0 /\ ~Known(c)

IndInv == TypeOK /\ AckedAfterSend /\ Unmailed /\ LinksAreMailed

LEMMA InitInv == Init => IndInv
<1> SUFFICES ASSUME Init PROVE IndInv
  OBVIOUS
<1>1. TypeOK
  BY InitTyped
<1>2. PICK b \in BOOLEAN : bus = Queue!Published(Queue!AtBoot(b), FirstLink)
  BY DEF Init
<1>3. AckedAfterSend /\ Unmailed /\ Known(FirstLink)
  BY <1>2, LinksAssumption
  DEF Init, AckedAfterSend, Unmailed, Known, Links, Queue!Published, Queue!AtBoot
<1>4. LinksAreMailed
  BY <1>3 DEF Init, LinksAreMailed, OnItsWay, Known, Links
<1> QED
  BY <1>1, <1>3, <1>4 DEF IndInv

(* A message is put in the queue, or lost, by its mail alone; it leaves    *)
(* only when it is acknowledged.                                           *)
LEMMA KnownStep ==
  ASSUME TypeOK, [Next]_vars, NEW l \in Links
  PROVE  /\ Known(l)' => Known(l) \/ (l \in Calls /\ Mail(l))
         /\ Known(l) => Known(l)' \/ Ack(l)
<1> USE DEF Known
<1>0. bus \in Queue!Subscription
  BY DEF TypeOK
<1>1. ASSUME NEW c \in Calls, Mail(c)
      PROVE  /\ Known(l)' => Known(l) \/ l = c
             /\ Known(l) => Known(l)'
  BY <1>0, <1>1 DEF Mail, Queue!Published, Queue!Subscription
<1>2. ASSUME NEW m \in Links, Deliver(m) \/ SendEmail(m) \/ SendFails(m)
      PROVE  Known(l)' <=> Known(l)
  <2>1. CASE Deliver(m)
    BY <1>0, <2>1 DEF Deliver, Queue!Delivered, Queue!Subscription
  <2>2. CASE SendEmail(m)
    BY <1>0, <2>2 DEF SendEmail, Queue!MovedTo, Queue!Subscription
  <2>3. CASE SendFails(m)
    BY <1>0, <2>3 DEF SendFails, Queue!MovedTo, Queue!Subscription
  <2> QED
    BY <1>2, <2>1, <2>2, <2>3
<1>3. ASSUME NEW m \in Links, Ack(m)
      PROVE  /\ Known(l)' => Known(l)
             /\ Known(l) => Known(l)' \/ l = m
  BY <1>0, <1>3 DEF Ack, Queue!Acked, Queue!Subscription
<1>4. CASE Subscribe
  BY <1>0, <1>4 DEF Subscribe, Queue!Subscribed, Queue!Subscription
<1>5. CASE Disconnect
  BY <1>0, <1>5 DEF Disconnect, Queue!Disconnected, Queue!Subscription
<1>6. CASE NotificationsCrash
  BY <1>0, <1>6 DEF NotificationsCrash, Queue!Crashed, Queue!AtBoot, Queue!Subscription
<1>7. CASE UNCHANGED bus
  BY <1>7
<1> QED
  BY <1>1, <1>2, <1>3, <1>4, <1>5, <1>6, <1>7, CallStep DEF BrokerStep

(* What a step does to the inbox and to the handlers.                      *)
LEMMA InboxStep ==
  ASSUME TypeOK, [Next]_vars, NEW l \in Links
  PROVE  /\ inbox'[l] >= inbox[l]
         /\ inbox'[l] # inbox[l] => Known(l)
         /\ faults' >= faults
         /\ bus'.step[l] = "ack" => \/ bus.step[l] = "ack"
                                    \/ inbox'[l] > 0 \/ faults' > 0
<1> USE DEF Known, Fault, TypeOK
<1>0. bus \in Queue!Subscription /\ inbox \in [Links -> Nat] /\ faults \in Nat
  BY MaxFaultsAssumption
<1>1. ASSUME NEW m \in Links, SendEmail(m) \/ SendFails(m)
      PROVE  /\ inbox'[l] >= inbox[l]
             /\ inbox'[l] # inbox[l] => Known(l)
             /\ faults' >= faults
             /\ bus'.step[l] = "ack" => \/ bus.step[l] = "ack"
                                        \/ inbox'[l] > 0 \/ faults' > 0
  BY <1>0, <1>1 DEF SendEmail, SendFails, Queue!MovedTo, Queue!Subscription
<1>2. ASSUME NEW m \in Links, Deliver(m) \/ Ack(m)
      PROVE  UNCHANGED <<inbox, faults>> /\ (bus'.step[l] = "ack" => bus.step[l] = "ack")
  <2>1. CASE Deliver(m)
    BY <1>0, <2>1 DEF Deliver, Queue!Delivered, Queue!Subscription
  <2>2. CASE Ack(m)
    BY <1>0, <2>2 DEF Ack, Queue!Acked, Queue!Subscription
  <2> QED
    BY <1>2, <2>1, <2>2
<1>3. CASE Subscribe \/ Disconnect \/ NotificationsCrash
  BY <1>0, <1>3 DEF Subscribe, Disconnect, NotificationsCrash, Queue!Subscribed,
     Queue!Disconnected, Queue!Crashed, Queue!AtBoot, Queue!Subscription
<1>4. ASSUME NEW c \in Calls, Mail(c)
      PROVE  UNCHANGED <<inbox, faults>> /\ bus'.step = bus.step
  BY <1>0, <1>4 DEF Mail, Queue!Published, Queue!Subscription
<1>5. CASE UNCHANGED <<bus, inbox>> /\ faults' \in {faults, faults + 1}
  BY <1>0, <1>5
<1> QED
  BY <1>0, <1>1, <1>2, <1>3, <1>4, <1>5, CallStep DEF BrokerStep

LEMMA AckedAfterSendStep == TypeOK /\ AckedAfterSend /\ [Next]_vars => AckedAfterSend'
<1> SUFFICES ASSUME TypeOK, AckedAfterSend, [Next]_vars, NEW l \in Links, bus'.step[l] = "ack"
             PROVE  inbox'[l] > 0 \/ faults' > 0
  BY DEF AckedAfterSend
<1>1. inbox[l] \in Nat /\ inbox'[l] \in Nat /\ faults \in Nat /\ faults' \in Nat
  BY TypeStep, MaxFaultsAssumption DEF TypeOK
<1> QED
  BY <1>1, InboxStep DEF AckedAfterSend

(* Only Mail makes the link of a call known, and it answers the call.      *)
LEMMA UnmailedStep == TypeOK /\ Unmailed /\ [Next]_vars => Unmailed'
<1> SUFFICES ASSUME TypeOK, Unmailed, [Next]_vars,
                    NEW c \in Calls, pc'[c] \in {"idle"} \cup Running
             PROVE  inbox'[c] = 0 /\ ~Known(c)'
  BY DEF Unmailed
<1>1. pc[c] \in {"idle"} \cup Running /\ ~Mail(c)
  <2> USE DEF TypeOK, Running, Goto, rowVars
  <2>1. CASE BrokerStep
    BY <2>1 DEF BrokerStep, Deliver, SendEmail, SendFails, Ack, Subscribe, Disconnect,
       NotificationsCrash, Mail
  <2>2. CASE AuthCrash \/ Expire \/ UNCHANGED vars
    BY <2>2 DEF AuthCrash, Expire, Mail, vars
  <2>3. ASSUME NEW d \in Calls, Call(d) \/ Serve(d) \/ MailFails(d) \/ CallFails(d)
        PROVE  pc[c] \in {"idle"} \cup Running /\ ~Mail(c)
    BY <2>3 DEF Call, Serve, Find, VerifyEmail, ResendEmail, ForgotPassword, ResetPassword,
       ResetPasswordWithToken, Mail, MailFails, CallFails
  <2> QED
    BY <2>1, <2>2, <2>3 DEF Next, BrokerStep, HandleCreateAuthEmail
<1>2. inbox[c] = 0 /\ ~Known(c)
  BY <1>1 DEF Unmailed
<1> QED
  BY <1>1, <1>2, KnownStep, InboxStep DEF Links

(* A mail known to be sent stays on its way.                               *)
LEMMA StaysOnItsWay ==
  ASSUME TypeOK, AckedAfterSend, [Next]_vars, NEW l \in Links, OnItsWay(l)
  PROVE  OnItsWay(l)'
<1> USE DEF OnItsWay
<1>0. faults \in Nat /\ faults' \in Nat /\ inbox[l] \in Nat /\ inbox'[l] \in Nat
  BY TypeStep, MaxFaultsAssumption DEF TypeOK
<1>1. CASE inbox[l] > 0 \/ faults > 0
  BY <1>0, <1>1, InboxStep
<1>2. CASE Known(l)
  <2>1. Ack(l) => inbox[l] > 0 \/ faults > 0
    BY DEF Ack, AckedAfterSend
  <2> QED
    BY <1>1, <1>2, <2>1, KnownStep DEF Known
<1>3. CASE l \in Calls /\ pc[l] = "mail"
  <2> USE DEF TypeOK, Running, Goto, rowVars
  <2>1. CASE BrokerStep
    BY <1>3, <2>1 DEF BrokerStep, Deliver, SendEmail, SendFails, Ack, Subscribe, Disconnect,
       NotificationsCrash
  <2>2. CASE Expire \/ UNCHANGED vars
    BY <1>3, <2>2 DEF Expire, vars
  <2>3. CASE Fault
    BY <1>0, <2>3 DEF Fault
  <2>4. CASE Mail(l)
    BY <2>4 DEF Mail, Queue!Published, Queue!Subscription
  <2>5. ASSUME NEW d \in Calls, Call(d) \/ Serve(d), ~Mail(l)
        PROVE  pc'[l] = "mail"
    BY <1>3, <2>5 DEF Call, Serve, Find, VerifyEmail, ResendEmail, ForgotPassword, ResetPassword,
       ResetPasswordWithToken, Mail
  <2> QED
    BY <1>3, <2>1, <2>2, <2>3, <2>4, <2>5
    DEF Next, BrokerStep, HandleCreateAuthEmail, MailFails, CallFails, AuthCrash
<1> QED
  BY <1>1, <1>2, <1>3 DEF Known

(* Which steps change the links of the row.                                *)
LEMMA RowStep ==
  ASSUME TypeOK, [Next]_vars
  PROVE  \/ \E c \in Calls : \/ pc[c] = "store" /\ pc'[c] = "mail"
                                /\ vlink' = c /\ UNCHANGED <<verified, rlink, fresh>>
                             \/ pc[c] = "store" /\ pc'[c] = "mail"
                                /\ rlink' = c /\ UNCHANGED <<verified, vlink>>
         \/ verified' /\ vlink' = NoLink /\ UNCHANGED <<rlink, fresh>>
         \/ ~fresh' /\ rlink' \in {NoLink, rlink} /\ UNCHANGED <<verified, vlink>>
         \/ UNCHANGED <<verified, vlink, rlink, fresh>>
<1> USE DEF TypeOK, Goto, rowVars
<1>1. ASSUME NEW c \in Calls, ResendEmail(c)
      PROVE  pc[c] = "store" /\ pc'[c] = "mail" /\ vlink' = c /\ UNCHANGED <<verified, rlink, fresh>>
  BY <1>1 DEF ResendEmail
<1>2. ASSUME NEW c \in Calls, ForgotPassword(c)
      PROVE  pc[c] = "store" /\ pc'[c] = "mail" /\ rlink' = c /\ UNCHANGED <<verified, vlink>>
  BY <1>2 DEF ForgotPassword
<1>3. ASSUME NEW c \in Calls, VerifyEmail(c)
      PROVE  verified' /\ vlink' = NoLink /\ UNCHANGED <<rlink, fresh>>
  BY <1>3 DEF VerifyEmail
<1>4. ASSUME NEW c \in Calls, ResetPassword(c)
      PROVE  ~fresh' /\ rlink' \in {NoLink, rlink} /\ UNCHANGED <<verified, vlink>>
  BY <1>4 DEF ResetPassword
<1>5. CASE Expire
  BY <1>5 DEF Expire
<1>6. CASE UNCHANGED <<verified, vlink, rlink, fresh>>
  BY <1>6
<1> QED
  BY <1>1, <1>2, <1>3, <1>4, <1>5, <1>6
  DEF Next, Call, Serve, Find, ResetPasswordWithToken, Mail, MailFails, CallFails, AuthCrash, Deliver,
      SendEmail, SendFails, Ack, HandleCreateAuthEmail, Subscribe, Disconnect, NotificationsCrash, vars

LEMMA LinksStep == IndInv /\ [Next]_vars => LinksAreMailed'
<1> SUFFICES ASSUME IndInv, [Next]_vars PROVE LinksAreMailed'
  OBVIOUS
<1> USE DEF IndInv, LinksAreMailed
<1>1. \A l \in Links : OnItsWay(l) => OnItsWay(l)'
  BY StaysOnItsWay
<1>2. \A c \in Calls : pc'[c] = "mail" => OnItsWay(c)'
  BY DEF OnItsWay
<1>3. Calls \subseteq Links
  BY DEF Links
<1>4. ~verified' => vlink' \in Links /\ OnItsWay(vlink)'
  BY <1>1, <1>2, <1>3, RowStep
<1>5. fresh' => rlink' \in Calls /\ OnItsWay(rlink)'
  BY <1>1, <1>2, <1>3, RowStep
<1> QED
  BY <1>4, <1>5

LEMMA Inductive == Spec => []IndInv
<1>1. IndInv /\ [Next]_vars => IndInv'
  BY TypeStep, AckedAfterSendStep, UnmailedStep, LinksStep DEF IndInv
<1> QED
  BY InitInv, <1>1, PTL DEF Spec

(* Whatever calls race and whatever fails, an account that is not verified *)
(* holds a link whose mail was received or is under way, or lost with its  *)
(* queue or to a failure; so does a reset link that can be redeemed.       *)
THEOREM LinksMailed == Spec => []LinksAreMailed
<1>1. IndInv => LinksAreMailed
  BY DEF IndInv
<1> QED
  BY <1>1, Inductive, PTL

(* A link becomes the one the row holds before anyone can have received    *)
(* it: no link that arrived becomes valid later.                           *)
THEOREM StoredFirst == Spec => StoredBeforeMailed
<1>1. IndInv /\ [Next]_vars
        => [\A l \in Links : (l = vlink' /\ l # vlink) \/ (l = rlink' /\ l # rlink)
               => inbox[l] = 0 /\ l \notin Queue!Seen(bus) \cup bus.lost]_vars
  <2> SUFFICES ASSUME IndInv, [Next]_vars, NEW l \in Links,
                      (l = vlink' /\ l # vlink) \/ (l = rlink' /\ l # rlink)
               PROVE  inbox[l] = 0 /\ l \notin Queue!Seen(bus) \cup bus.lost
    OBVIOUS
  <2>1. l \in Calls /\ pc[l] = "store"
    BY RowStep, LinksAssumption DEF IndInv
  <2> QED
    BY <2>1 DEF IndInv, Unmailed, Known, Running
<1> QED
  BY <1>1, Inductive, PTL DEF Spec, StoredBeforeMailed
=============================================================================
