------------------------------- MODULE Seller -------------------------------
(***************************************************************************)
(* createSeller of the user service: a user who is a buyer opens a Seller  *)
(* document.                                                               *)
(*                                                                         *)
(* The call looks for the user's copy (module Signup), for a Seller of     *)
(* that user, creates one, reads it again with its user and marks the      *)
(* Buyer as a seller.  Calls of one user may run side by side; only the    *)
(* unique index on Seller.user keeps them apart.                           *)
(*                                                                         *)
(* Abstractions.  A call stands for the Seller document it creates.  A     *)
(* document is what a filter can ask of it: the fields of its schema.  Of  *)
(* the form only one thing is kept: whether the schema will accept it.     *)
(* faults and MaxFaults are those of module Signup.                        *)
(***************************************************************************)
EXTENDS Naturals

CONSTANTS Calls,       \* calls of createSeller
          Users,       \* who they are about
          MaxFaults    \* bound on the failures injected in a behaviour

ASSUME MaxFaultsAssumption == MaxFaults \in Nat

VARIABLES caller,    \* whose call it is
          filled,    \* calls whose form leaves no string empty
          pc,        \* where each call stands
          reply,     \* the Seller each call read again
          docs,      \* users the user service has a copy of
          buyers,    \* Buyer documents
          sellers,   \* Seller documents
          faults

vars == <<caller, filled, pc, reply, docs, buyers, sellers, faults>>

Running == {"user", "check", "create", "reread", "mark", "reply"}
Answers == {"ok", "exists", "error"}

(* What MongoDB selects: an unknown field in a filter matches nothing. *)
Selects(filter, document) ==
    \A f \in DOMAIN filter : f \in DOMAIN document /\ document[f] = filter[f]

(* The fields of the Buyer schema; the address is in the User document. *)
BuyerDocuments == [user : Users, isSeller : BOOLEAN]

SellersOf(u) == {d \in sellers : caller[d] = u}

-----------------------------------------------------------------------------
Init == /\ caller \in [Calls -> Users]
        /\ filled \in SUBSET Calls
        /\ pc = [c \in Calls |-> "idle"]
        /\ reply = [c \in Calls |-> {}]
        /\ docs = {} /\ buyers = {} /\ sellers = {}
        /\ faults = 0

Goto(c, label) == pc' = [pc EXCEPT ![c] = label]

Fault == faults < MaxFaults /\ faults' = faults + 1

(* What Signup does: the copy of the user, then the Buyer. *)
CopyArrives(u) == /\ u \notin docs
                  /\ docs' = docs \cup {u}
                  /\ UNCHANGED <<caller, filled, pc, reply, buyers, sellers, faults>>

BuyerOpens(u) == /\ u \in docs /\ \A b \in buyers : b.user # u
                 /\ buyers' = buyers \cup {[user |-> u, isSeller |-> FALSE]}
                 /\ UNCHANGED <<caller, filled, pc, reply, docs, sellers, faults>>

-----------------------------------------------------------------------------
(* user service: createSeller                                              *)

CallCreate(c) == /\ pc[c] = "idle"
                 /\ Goto(c, "user")
                 /\ UNCHANGED <<caller, filled, reply, docs, buyers, sellers, faults>>

(* toJSON() of null throws before the check that follows it. *)
FindUser(c) == /\ pc[c] = "user"
               /\ Goto(c, IF caller[c] \in docs THEN "check" ELSE "error")
               /\ UNCHANGED <<caller, filled, reply, docs, buyers, sellers, faults>>

(* findByUserId, then ALREADY_EXISTS. *)
CheckSeller(c) == /\ pc[c] = "check"
                  /\ Goto(c, IF SellersOf(caller[c]) = {} THEN "create" ELSE "exists")
                  /\ UNCHANGED <<caller, filled, reply, docs, buyers, sellers, faults>>

(* A filled form passes the schema. *)
Creating(c) == pc[c] = "create" /\ c \in filled

(* The form lets an empty language or skill through and the schema does    *)
(* not, before MongoDB is asked anything; nothing maps the error.          *)
CreateRefused(c) == /\ pc[c] = "create" /\ c \notin filled
                    /\ Goto(c, "error")
                    /\ UNCHANGED <<caller, filled, reply, docs, buyers, sellers, faults>>

(* Mutants: the create is not awaited and is lost; no unique index on user.*)
CreateLost(c) == /\ Creating(c) /\ SellersOf(caller[c]) = {}
                 /\ Goto(c, "reread")
                 /\ UNCHANGED <<caller, filled, reply, docs, buyers, sellers, faults>>
CreateUnchecked(c) == /\ Creating(c)
                      /\ sellers' = sellers \cup {c}
                      /\ Goto(c, "reread")
                      /\ UNCHANGED <<caller, filled, reply, docs, buyers, faults>>

CreateSeller(c) == /\ Creating(c) /\ SellersOf(caller[c]) = {}
                   /\ sellers' = sellers \cup {c}
                   /\ Goto(c, "reread")
                   /\ UNCHANGED <<caller, filled, reply, docs, buyers, faults>>

(* Mutants: the duplicate is answered with a code of its own; it is taken  *)
(* for success.                                                            *)
DuplicateUnmapped(c) == /\ Creating(c) /\ SellersOf(caller[c]) # {}
                        /\ Goto(c, "conflict")
                        /\ UNCHANGED <<caller, filled, reply, docs, buyers, sellers, faults>>
DuplicateAccepted(c) == /\ Creating(c) /\ SellersOf(caller[c]) # {}
                        /\ Goto(c, "reread")
                        /\ UNCHANGED <<caller, filled, reply, docs, buyers, sellers, faults>>

(* The unique index on user refuses the loser of a race; nothing maps the  *)
(* error.                                                                  *)
CreateDuplicate(c) == /\ Creating(c) /\ SellersOf(caller[c]) # {}
                      /\ Goto(c, "error")
                      /\ UNCHANGED <<caller, filled, reply, docs, buyers, sellers, faults>>

(* findByUserId gives a Seller of the user. *)
ReadAgain(c) == /\ pc[c] = "reread"
                /\ \E d \in SellersOf(caller[c]) : reply' = [reply EXCEPT ![c] = {d}]
                /\ Goto(c, "mark")
                /\ UNCHANGED <<caller, filled, docs, buyers, sellers, faults>>

(* updateBuyerIsSellerProp: updateOne({ email }, ...), with the address of *)
(* the user, here his name; no match is no error.                          *)
MarkBuyer(c) ==
    LET chosen == {b \in buyers : Selects([email |-> caller[c]], b)} IN
    /\ pc[c] = "mark"
    /\ buyers' = (buyers \ chosen) \cup {[b EXCEPT !.isSeller = TRUE] : b \in chosen}
    /\ Goto(c, "reply")
    /\ UNCHANGED <<caller, filled, reply, docs, sellers, faults>>

Reply(c) == /\ pc[c] = "reply"
            /\ Goto(c, "ok")
            /\ UNCHANGED <<caller, filled, reply, docs, buyers, sellers, faults>>

(* MongoDB fails; a create it did may go unconfirmed. *)
CallFails(c) == /\ pc[c] \in Running \ {"reply"}
                /\ Fault
                /\ \/ UNCHANGED sellers
                   \/ /\ Creating(c) /\ SellersOf(caller[c]) = {}
                      /\ sellers' = sellers \cup {c}
                /\ Goto(c, "error")
                /\ UNCHANGED <<caller, filled, reply, docs, buyers>>

UserCrash == /\ \E c \in Calls : pc[c] \in Running
             /\ Fault
             /\ pc' = [c \in Calls |-> IF pc[c] \in Running THEN "error" ELSE pc[c]]
             /\ UNCHANGED <<caller, filled, reply, docs, buyers, sellers>>

-----------------------------------------------------------------------------
Serve(c) == \/ FindUser(c) \/ CheckSeller(c)
            \/ CreateRefused(c) \/ CreateSeller(c) \/ CreateDuplicate(c)
            \/ ReadAgain(c) \/ MarkBuyer(c) \/ Reply(c)

Next == \/ \E c \in Calls : CallCreate(c) \/ Serve(c) \/ CallFails(c)
        \/ \E u \in Users : CopyArrives(u) \/ BuyerOpens(u)
        \/ UserCrash

Spec == Init /\ [][Next]_vars

FairSpec == Spec /\ \A c \in Calls : WF_vars(Serve(c))
-----------------------------------------------------------------------------
TypeOK == /\ caller \in [Calls -> Users]
          /\ filled \subseteq Calls
          /\ pc \in [Calls -> {"idle"} \cup Running \cup Answers]
          /\ reply \in [Calls -> SUBSET Calls]
          /\ docs \subseteq Users
          /\ buyers \subseteq BuyerDocuments
          /\ sellers \subseteq Calls
          /\ faults \in 0..MaxFaults

(* A call that is answered ok shows the Seller it created, not that of     *)
(* another call; ALREADY_EXISTS is the truth, about another call's Seller; *)
(* and an error left no Seller behind unless something failed: the retry   *)
(* of such a call will be told it exists.                                  *)
AnswersAreTruthful ==
    \A c \in Calls :
        /\ pc[c] = "ok" => reply[c] = {c}
        /\ pc[c] = "exists" => c \notin sellers /\ SellersOf(caller[c]) # {}
        /\ pc[c] = "error" /\ faults = 0 => c \notin sellers

(* Calls of one user cannot all lose: once one with a form the schema      *)
(* accepts is about to create, the user becomes a seller, unless something *)
(* fails.                                                                  *)
SomeCallWins ==
    \A c \in Calls : Creating(c) ~> (SellersOf(caller[c]) # {} \/ faults > 0)

(* README.md: "Buyers can become sellers and vice versa."  The Buyer of a  *)
(* user whose createSeller was answered ok says so.                        *)
BuyerBecomesSeller ==
    \A c \in Calls : pc[c] = "ok" =>
        \A b \in buyers : b.user = caller[c] => b.isSeller
=============================================================================
