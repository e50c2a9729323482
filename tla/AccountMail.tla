---------------------------- MODULE AccountMail ----------------------------
(***************************************************************************)
(* The links mailed to the holder of one account: verification links       *)
(* (drawn at sign-up and by resendEmail, followed by verifyEmail) and      *)
(* reset links (drawn by forgotPassword, followed by                       *)
(* resetPasswordWithToken), beside resetPassword of a signed-in holder.    *)
(*                                                                         *)
(* Each call of the auth service reads the account's row, then writes it   *)
(* by its number whatever has become of it since, then mails.  A mail is a *)
(* message on the direct exchange email_notifications; the notifications   *)
(* service hands it to SMTP and swallows the errors.                       *)
(*                                                                         *)
(* Abstractions.  One account, present from the start: calls for different *)
(* accounts share nothing.  A link is named by the call that draws it.     *)
(* fresh tells whether passwordResetExpires is still to come.  faults and  *)
(* MaxFaults are those of module Signup.                                   *)
(***************************************************************************)
EXTENDS Naturals

CONSTANTS Calls,       \* calls about the account
          FirstLink,   \* the verification link of the sign-up
          MaxFaults    \* bound on the failures injected in a behaviour

ASSUME MaxFaultsAssumption == MaxFaults \in Nat

VARIABLES op,         \* which operation each call is
          pc,         \* where it stands
          clicked,    \* the link it carries, if it follows one
          verified,   \* emailVerified
          vlink,      \* emailVerificationToken
          rlink,      \* passwordResetToken
          fresh,      \* passwordResetExpires is in the future
          password,   \* the call that set the password
          bus,        \* the notifications service's subscription
          inbox,      \* how often each link was received
          faults

rowVars == <<verified, vlink, rlink, fresh, password>>
vars    == <<op, pc, clicked, rowVars, bus, inbox, faults>>

Links  == Calls \cup {FirstLink}
NoLink == "none"

ASSUME LinksAssumption == FirstLink \notin Calls /\ NoLink \notin Links

Ops      == {"verify", "resend", "forgot", "reset", "redeem"}
Follows  == {"verify", "redeem"}    \* operations that follow a link
Running  == {"find", "store", "mail"}
Answers  == {"ok", "refused", "error"}

Queue == INSTANCE AnonymousQueue WITH Messages <- Links, Steps <- {"send", "ack"}

-----------------------------------------------------------------------------
(* The mail of the sign-up has just been published. *)
Init == /\ op \in [Calls -> Ops]
        /\ pc = [c \in Calls |-> "idle"]
        /\ clicked = [c \in Calls |-> NoLink]
        /\ verified = FALSE /\ vlink = FirstLink
        /\ rlink = NoLink /\ fresh = FALSE
        /\ password = FirstLink
        /\ bus \in {Queue!Published(Queue!AtBoot(b), FirstLink) : b \in BOOLEAN}
        /\ inbox = [l \in Links |-> 0]
        /\ faults = 0

Goto(c, label) == pc' = [pc EXCEPT ![c] = label]

Fault == faults < MaxFaults /\ faults' = faults + 1

-----------------------------------------------------------------------------
(* auth service                                                            *)

(* The holder follows any link received, of either kind. *)
Call(c) == /\ pc[c] = "idle"
           /\ IF op[c] \in Follows
              THEN \E l \in Links : inbox[l] > 0 /\ clicked' = [clicked EXCEPT ![c] = l]
              ELSE UNCHANGED clicked
           /\ Goto(c, "find")
           /\ UNCHANGED <<op, rowVars, bus, inbox, faults>>

(* What the where clause of each operation asks of the row. *)
Matches(c) == CASE op[c] = "verify" -> vlink = clicked[c]
                [] op[c] = "resend" -> ~verified
                [] op[c] = "redeem" -> rlink = clicked[c] /\ fresh
                [] OTHER            -> TRUE

(* Mutant: an answer of its own for a row that is not there. *)
FindUnmapped(c) == /\ pc[c] = "find"
                   /\ Goto(c, IF Matches(c) THEN "store" ELSE "not_found")
                   /\ UNCHANGED <<op, clicked, rowVars, bus, inbox, faults>>

Find(c) == /\ pc[c] = "find"
           /\ Goto(c, IF Matches(c) THEN "store" ELSE "refused")
           /\ UNCHANGED <<op, clicked, rowVars, bus, inbox, faults>>

(* Mutant: the row forgets its link and stays unverified. *)
LinkCleared(c) == /\ pc[c] = "store" /\ op[c] = "verify"
                  /\ vlink' = NoLink
                  /\ Goto(c, "ok")
                  /\ UNCHANGED <<op, clicked, verified, rlink, fresh, password, bus, inbox, faults>>

VerifyEmail(c) == /\ pc[c] = "store" /\ op[c] = "verify"
                  /\ verified' = TRUE /\ vlink' = NoLink
                  /\ Goto(c, "ok")
                  /\ UNCHANGED <<op, clicked, rlink, fresh, password, bus, inbox, faults>>

(* Mutants: the link is mailed before it is stored; it is not mailed.      *)
MailedFirst(c) == /\ pc[c] \in {"store", "mail"} /\ op[c] = "resend"
                  /\ IF pc[c] = "store"
                     THEN bus' = Queue!Published(bus, c) /\ Goto(c, "mail") /\ UNCHANGED vlink
                     ELSE vlink' = c /\ Goto(c, "ok") /\ UNCHANGED bus
                  /\ UNCHANGED <<op, clicked, verified, rlink, fresh, password, inbox, faults>>
NeverMailed(c) == /\ pc[c] = "store" /\ op[c] = "resend"
                  /\ vlink' = c
                  /\ Goto(c, "ok")
                  /\ UNCHANGED <<op, clicked, verified, rlink, fresh, password, bus, inbox, faults>>

ResendEmail(c) == /\ pc[c] = "store" /\ op[c] = "resend"
                  /\ vlink' = c
                  /\ Goto(c, "mail")
                  /\ UNCHANGED <<op, clicked, verified, rlink, fresh, password, bus, inbox, faults>>

ForgotPassword(c) == /\ pc[c] = "store" /\ op[c] = "forgot"
                     /\ rlink' = c /\ fresh' = TRUE
                     /\ Goto(c, "mail")
                     /\ UNCHANGED <<op, clicked, verified, vlink, password, bus, inbox, faults>>

ResetPassword(c) == /\ pc[c] = "store" /\ op[c] = "reset"
                    /\ password' = c
                    /\ rlink' = NoLink /\ fresh' = FALSE
                    /\ Goto(c, "ok")
                    /\ UNCHANGED <<op, clicked, verified, vlink, bus, inbox, faults>>

(* The gRPC message has no field for the password: hash(undefined) throws. *)
ResetPasswordWithToken(c) == /\ pc[c] = "store" /\ op[c] = "redeem"
                             /\ Goto(c, "error")
                             /\ UNCHANGED <<op, clicked, rowVars, bus, inbox, faults>>

(* The publish is not awaited: the call is answered at once. *)
Mail(c) == /\ pc[c] = "mail"
           /\ bus' = Queue!Published(bus, c)
           /\ Goto(c, "ok")
           /\ UNCHANGED <<op, clicked, rowVars, inbox, faults>>

(* No connection to the broker: the mail is lost, noticed or not. *)
MailFails(c) == /\ pc[c] = "mail"
                /\ Fault
                /\ \E a \in {"ok", "error"} : Goto(c, a)
                /\ UNCHANGED <<op, clicked, rowVars, bus, inbox>>

(* PostgreSQL cannot be reached. *)
CallFails(c) == /\ pc[c] \in {"find", "store"}
                /\ Fault
                /\ Goto(c, "error")
                /\ UNCHANGED <<op, clicked, rowVars, bus, inbox>>

AuthCrash == /\ \E c \in Calls : pc[c] \in Running
             /\ Fault
             /\ pc' = [c \in Calls |-> IF pc[c] \in Running THEN "error" ELSE pc[c]]
             /\ UNCHANGED <<op, clicked, rowVars, bus, inbox>>

(* An hour has passed since forgotPassword. *)
Expire == /\ fresh
          /\ fresh' = FALSE
          /\ UNCHANGED <<op, pc, clicked, verified, vlink, rlink, password, bus, inbox, faults>>

-----------------------------------------------------------------------------
(* notifications service                                                   *)

Subscribe == /\ ~bus.bound
             /\ bus' = Queue!Subscribed(bus)
             /\ UNCHANGED <<op, pc, clicked, rowVars, inbox, faults>>

Deliver(l) == /\ bus.bound /\ l \in bus.ready
              /\ bus' = Queue!Delivered(bus, l, "send")
              /\ UNCHANGED <<op, pc, clicked, rowVars, inbox, faults>>

SendEmail(l) == /\ bus.step[l] = "send"
                /\ inbox' = [inbox EXCEPT ![l] = @ + 1]
                /\ bus' = Queue!MovedTo(bus, l, "ack")
                /\ UNCHANGED <<op, pc, clicked, rowVars, faults>>

(* SMTP fails, before or after it took the mail; sendEmail logs it. *)
SendFails(l) == /\ bus.step[l] = "send"
                /\ Fault
                /\ \E n \in {0, 1} : inbox' = [inbox EXCEPT ![l] = @ + n]
                /\ bus' = Queue!MovedTo(bus, l, "ack")
                /\ UNCHANGED <<op, pc, clicked, rowVars>>

Ack(l) == /\ bus.step[l] = "ack"
          /\ bus' = Queue!Acked(bus, l)
          /\ UNCHANGED <<op, pc, clicked, rowVars, inbox, faults>>

Disconnect == /\ bus.bound
              /\ Fault
              /\ bus' = Queue!Disconnected(bus)
              /\ UNCHANGED <<op, pc, clicked, rowVars, inbox>>

NotificationsCrash == /\ Fault
                      /\ bus' = Queue!Crashed(bus)
                      /\ UNCHANGED <<op, pc, clicked, rowVars, inbox>>

-----------------------------------------------------------------------------
Serve(c) == \/ Find(c) \/ VerifyEmail(c) \/ ResendEmail(c) \/ ForgotPassword(c)
            \/ ResetPassword(c) \/ ResetPasswordWithToken(c) \/ Mail(c)

HandleCreateAuthEmail(l) == SendEmail(l) \/ Ack(l)

Next == \/ \E c \in Calls : Call(c) \/ Serve(c) \/ MailFails(c) \/ CallFails(c)
        \/ \E l \in Links : Deliver(l) \/ HandleCreateAuthEmail(l) \/ SendFails(l)
        \/ AuthCrash \/ Expire \/ Subscribe \/ Disconnect \/ NotificationsCrash

Spec == Init /\ [][Next]_vars

(* As in Signup. *)
Fairness == /\ \A c \in Calls : WF_vars(Serve(c))
            /\ \A l \in Links : WF_vars(Deliver(l)) /\ WF_vars(HandleCreateAuthEmail(l))

FairSpec == Spec /\ Fairness
-----------------------------------------------------------------------------
TypeOK == /\ op \in [Calls -> Ops]
          /\ pc \in [Calls -> {"idle"} \cup Running \cup Answers]
          /\ clicked \in [Calls -> Links \cup {NoLink}]
          /\ verified \in BOOLEAN /\ fresh \in BOOLEAN
          /\ vlink \in Links \cup {NoLink} /\ rlink \in Links \cup {NoLink}
          /\ password \in Links
          /\ bus \in Queue!Subscription
          /\ inbox \in [Links -> Nat]
          /\ faults \in 0..MaxFaults

(* The mail of l was received, is under way, or nobody can know of it: its *)
(* queue lost its consumer, or something failed.                           *)
OnItsWay(l) == \/ inbox[l] > 0
               \/ l \in Queue!Seen(bus) \cup bus.lost
               \/ l \in Calls /\ pc[l] = "mail"
               \/ faults > 0

(* Whatever calls race, an account that is not verified holds a link, and  *)
(* it is the link of a mail that arrives unless something fails; so does a *)
(* reset link as long as it can be redeemed.                               *)
LinksAreMailed == /\ ~verified => vlink \in Links /\ OnItsWay(vlink)
                  /\ fresh => rlink \in Calls /\ OnItsWay(rlink)

(* A link is stored before its mail can be read, so no link that arrived   *)
(* becomes valid later: followed too late it is refused for good.          *)
StoredBeforeMailed ==
    [][\A l \in Links : (l = vlink' /\ l # vlink) \/ (l = rlink' /\ l # rlink)
           => inbox[l] = 0 /\ l \notin Queue!Seen(bus) \cup bus.lost]_vars

(* The link a call reports sent arrives, unless its queue has no consumer  *)
(* or something failed.                                                    *)
LinkArrives ==
    \A c \in Calls : (pc[c] = "ok" /\ op[c] \in {"resend", "forgot"})
                        ~> (inbox[c] > 0 \/ c \in bus.lost \/ faults > 0)

(* The mail says of the reset link: "To start the process, please click    *)
(* the following link".  Followed in time, it sets a new password.         *)
ResetLinkWorks ==
    \A c \in Calls : (op[c] = "redeem" /\ pc[c] = "store") ~> (password = c \/ faults > 0)
=============================================================================
