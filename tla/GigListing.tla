----------------------------- MODULE GigListing -----------------------------
(***************************************************************************)
(* From the message create-gig to a searchable gig and a seller's count.   *)
(*                                                                         *)
(* The gig service stores the gig in MongoDB, publishes update_gig_count   *)
(* on the direct exchange user_seller and indexes the gig in               *)
(* Elasticsearch, which shows it to searches and counts at its next        *)
(* refresh.  The user service consumes the event and adds one to totalGigs *)
(* of the owner's Seller document; the copy of the owner may not have      *)
(* arrived there yet (module Signup), nor the Seller been created (module  *)
(* Seller).                                                                *)
(*                                                                         *)
(* Abstractions.  A call stands for the gig it inserts.  A copy of a user  *)
(* and a Seller never go away, so a lookup that finds one and the write    *)
(* that follows it are one step.  The sort number of a gig is kept as the  *)
(* set of gigs that were counted for it.  faults and MaxFaults are those   *)
(* of module Signup.                                                       *)
(***************************************************************************)
EXTENDS Naturals, GigIndex

CONSTANTS Users,      \* owners
          MaxFaults   \* bound on the failures injected in a behaviour

ASSUME MaxFaultsAssumption == MaxFaults \in Nat

VARIABLES form,       \* what each call carries
          pc,         \* where each createGig stands
          found,      \* gigs counted by getDocumentCount for each call
          saved,      \* gigs in MongoDB
          indexed,    \* gigs Elasticsearch has accepted
          bus,        \* the user service's subscription to update_gig_count
          docs,       \* users each service has a copy of
          sellers,    \* users that have a Seller document
          totalGigs,  \* Seller.totalGigs
          applied,    \* history: gigs whose event reached a Seller
          ignored,    \* history: gigs whose event found none
          faults

gigVars   == <<pc, found, saved, indexed, visible>>
countVars == <<sellers, totalGigs, applied, ignored>>
vars      == <<form, gigVars, bus, docs, countVars, faults>>

Services == {"user", "gig"}

Queue == INSTANCE AnonymousQueue WITH Messages <- Gigs, Steps <- {"inc", "ack"}

(* The schema requires the cover, the message may lack it. *)
Forms == [owner : Users, cover : BOOLEAN]

Owner(g) == form[g].owner

Running == {"upload", "count", "insert", "publish", "index"}
Answers == {"ok", "error"}

(* Mutant: the count is of the owner's own gigs. *)
OwnerSortId(g) == Cardinality({h \in found[g] : Owner(h) = Owner(g)}) + 1

(* Mutant: the numbers start from zero. *)
SortIdFromZero(g) == Cardinality(found[g])

(* sortId, written once at the insertion. *)
SortId(g) == Cardinality(found[g]) + 1

-----------------------------------------------------------------------------
Init == /\ form \in [Gigs -> Forms]
        /\ pc = [g \in Gigs |-> "idle"]
        /\ found = [g \in Gigs |-> {}]
        /\ saved = {} /\ indexed = {} /\ visible = {}
        /\ bus \in {Queue!AtBoot(b) : b \in BOOLEAN}
        /\ docs = [s \in Services |-> {}]
        /\ sellers = {}
        /\ totalGigs = [u \in Users |-> 0]
        /\ applied = {} /\ ignored = {}
        /\ faults = 0

Goto(g, label) == pc' = [pc EXCEPT ![g] = label]

Fault == faults < MaxFaults /\ faults' = faults + 1

-----------------------------------------------------------------------------
(* gig service: createGig                                                  *)

CallCreate(g) == /\ pc[g] = "idle"
                 /\ Goto(g, "upload")
                 /\ UNCHANGED <<form, found, saved, indexed, visible, bus, docs, countVars, faults>>

(* uploadGigCover; nothing is uploaded when there is no cover. *)
UploadCover(g) == /\ pc[g] = "upload"
                  /\ Goto(g, "count")
                  /\ UNCHANGED <<form, found, saved, indexed, visible, bus, docs, countVars, faults>>

(* The error of S3 or of MongoDB goes back to the caller. *)
CallFails(g) == /\ \/ pc[g] = "upload" /\ form[g].cover
                   \/ pc[g] = "insert"
                /\ Fault
                /\ Goto(g, "error")
                /\ UNCHANGED <<form, found, saved, indexed, visible, bus, docs, countVars>>

(* getDocumentCount and the lookup of the owner run side by side. *)
CountGigs(g) == /\ pc[g] = "count"
                /\ found' = [found EXCEPT ![g] = visible]
                /\ Goto(g, "insert")
                /\ UNCHANGED <<form, saved, indexed, visible, bus, docs, countVars, faults>>

(* getDocumentCount answers 0 when Elasticsearch does not. *)
CountFails(g) == /\ pc[g] = "count"
                 /\ Fault
                 /\ Goto(g, "insert")
                 /\ UNCHANGED <<form, found, saved, indexed, visible, bus, docs, countVars>>

(* Mutant: the answer the code means to give. *)
OwnerNotFound(g) == /\ pc[g] \in {"count", "insert"} /\ Owner(g) \notin docs["gig"]
                    /\ Goto(g, "not_found")
                    /\ UNCHANGED <<form, found, saved, indexed, visible, bus, docs, countVars, faults>>

(* toJSON() of null throws before the check that follows it. *)
OwnerMissing(g) == /\ pc[g] \in {"count", "insert"} /\ Owner(g) \notin docs["gig"]
                   /\ Goto(g, "error")
                   /\ UNCHANGED <<form, found, saved, indexed, visible, bus, docs, countVars, faults>>

InsertGig(g) == /\ pc[g] = "insert" /\ Owner(g) \in docs["gig"] /\ form[g].cover
                /\ saved' = saved \cup {g}
                /\ Goto(g, "publish")
                /\ UNCHANGED <<form, found, indexed, visible, bus, docs, countVars, faults>>

InsertRefused(g) == /\ pc[g] = "insert" /\ Owner(g) \in docs["gig"] /\ ~form[g].cover
                    /\ Goto(g, "error")
                    /\ UNCHANGED <<form, found, saved, indexed, visible, bus, docs, countVars, faults>>

PublishCount(g) == /\ pc[g] = "publish"
                   /\ bus' = Queue!Published(bus, g)
                   /\ Goto(g, "index")
                   /\ UNCHANGED <<form, found, saved, indexed, visible, docs, countVars, faults>>

(* Mutant: the failed publish is swallowed. *)
PublishSwallowed(g) == /\ pc[g] = "publish"
                       /\ Fault
                       /\ Goto(g, "index")
                       /\ UNCHANGED <<form, found, saved, indexed, visible, bus, docs, countVars>>

(* The gig stays in MongoDB, neither counted nor indexed. *)
PublishFails(g) == /\ pc[g] = "publish"
                   /\ Fault
                   /\ Goto(g, "error")
                   /\ UNCHANGED <<form, found, saved, indexed, visible, bus, docs, countVars>>

(* Mutant: the index is not written. *)
IndexSkipped(g) == /\ pc[g] = "index"
                   /\ Goto(g, "ok")
                   /\ UNCHANGED <<form, found, saved, indexed, visible, bus, docs, countVars, faults>>

AddDataToIndex(g) == /\ pc[g] = "index"
                     /\ indexed' = indexed \cup {g}
                     /\ Goto(g, "ok")
                     /\ UNCHANGED <<form, found, saved, visible, bus, docs, countVars, faults>>

(* addDataToIndex logs the error and returns: the caller is told ok. *)
IndexFails(g) == /\ pc[g] = "index"
                 /\ Fault
                 /\ Goto(g, "ok")
                 /\ UNCHANGED <<form, found, saved, indexed, visible, bus, docs, countVars>>

GigCrash == /\ \E g \in Gigs : pc[g] \in Running
            /\ Fault
            /\ pc' = [g \in Gigs |-> IF pc[g] \in Running THEN "error" ELSE pc[g]]
            /\ UNCHANGED <<form, found, saved, indexed, visible, bus, docs, countVars>>

(* Elasticsearch opens what it has indexed to searches. *)
Refresh == /\ indexed # visible
           /\ visible' = indexed
           /\ UNCHANGED <<form, pc, found, saved, indexed, bus, docs, countVars, faults>>

-----------------------------------------------------------------------------
(* What Signup and Seller do, as this module sees it                       *)

CopyArrives(s, u) == /\ u \notin docs[s]
                     /\ docs' = [docs EXCEPT ![s] = @ \cup {u}]
                     /\ UNCHANGED <<form, gigVars, bus, countVars, faults>>

OpenSeller(u) == /\ u \in docs["user"] \ sellers
                 /\ sellers' = sellers \cup {u}
                 /\ UNCHANGED <<form, gigVars, bus, docs, totalGigs, applied, ignored, faults>>

-----------------------------------------------------------------------------
(* The subscription and user service's updateTotalGigsCount                *)

Subscribe == /\ ~bus.bound
             /\ bus' = Queue!Subscribed(bus)
             /\ UNCHANGED <<form, gigVars, docs, countVars, faults>>

Deliver(g) == /\ bus.bound /\ g \in bus.ready
              /\ bus' = Queue!Delivered(bus, g, "inc")
              /\ UNCHANGED <<form, gigVars, docs, countVars, faults>>

Disconnect == /\ bus.bound
              /\ Fault
              /\ bus' = Queue!Disconnected(bus)
              /\ UNCHANGED <<form, gigVars, docs, countVars>>

UserCrash == /\ Fault
             /\ bus' = Queue!Crashed(bus)
             /\ UNCHANGED <<form, gigVars, docs, countVars>>

(* updateOne({ user }, { $inc: { totalGigs } }) matches the owner's Seller *)
(* or nothing, and succeeds either way.                                    *)
IncTotalGigs(g) ==
    IF Owner(g) \in sellers
    THEN /\ totalGigs' = [totalGigs EXCEPT ![Owner(g)] = @ + 1]
         /\ applied' = applied \cup {g}
         /\ UNCHANGED ignored
    ELSE /\ ignored' = ignored \cup {g}
         /\ UNCHANGED <<totalGigs, applied>>

(* Mutants: the handler throws after the write; no match is an error. *)
CountThenThrow(g) == /\ bus.step[g] = "inc" /\ Owner(g) \in docs["user"]
                     /\ IncTotalGigs(g)
                     /\ bus' = Queue!Requeued(bus, g)
                     /\ UNCHANGED <<form, gigVars, docs, sellers, faults>>
CountOrThrow(g) == /\ bus.step[g] = "inc" /\ Owner(g) \in docs["user"]
                   /\ IF Owner(g) \in sellers
                      THEN IncTotalGigs(g) /\ bus' = Queue!MovedTo(bus, g, "ack")
                      ELSE UNCHANGED countVars /\ bus' = Queue!Requeued(bus, g)
                   /\ UNCHANGED <<form, gigVars, docs, sellers, faults>>

CountGig(g) == /\ bus.step[g] = "inc" /\ Owner(g) \in docs["user"]
               /\ IncTotalGigs(g)
               /\ bus' = Queue!MovedTo(bus, g, "ack")
               /\ UNCHANGED <<form, gigVars, docs, sellers, faults>>

(* toJSON() of null again: the event goes back to the queue. *)
OwnerUnknown(g) == /\ bus.step[g] = "inc" /\ Owner(g) \notin docs["user"]
                   /\ bus' = Queue!Requeued(bus, g)
                   /\ UNCHANGED <<form, gigVars, docs, countVars, faults>>

(* MongoDB fails before the write, or after it without confirming it. *)
CountGigFails(g) == /\ bus.step[g] = "inc"
                    /\ Fault
                    /\ \/ UNCHANGED countVars
                       \/ /\ Owner(g) \in docs["user"]
                          /\ IncTotalGigs(g) /\ UNCHANGED sellers
                    /\ bus' = Queue!Requeued(bus, g)
                    /\ UNCHANGED <<form, gigVars, docs>>

Ack(g) == /\ bus.step[g] = "ack"
          /\ bus' = Queue!Acked(bus, g)
          /\ UNCHANGED <<form, gigVars, docs, countVars, faults>>

-----------------------------------------------------------------------------
CreateGig(g) == \/ UploadCover(g) \/ CountGigs(g) \/ OwnerMissing(g)
                \/ InsertGig(g) \/ InsertRefused(g)
                \/ PublishCount(g) \/ AddDataToIndex(g)

CreateGigFails(g) == CallFails(g) \/ CountFails(g) \/ PublishFails(g) \/ IndexFails(g)

UpdateTotalGigsCount(g) == CountGig(g) \/ OwnerUnknown(g) \/ Ack(g)

Next == \/ \E g \in Gigs : \/ CallCreate(g) \/ CreateGig(g) \/ CreateGigFails(g)
                           \/ Deliver(g) \/ UpdateTotalGigsCount(g) \/ CountGigFails(g)
        \/ GigCrash \/ Refresh \/ Subscribe \/ Disconnect \/ UserCrash
        \/ \E u \in Users : OpenSeller(u) \/ \E s \in Services : CopyArrives(s, u)

Spec == Init /\ [][Next]_vars

(* As in Signup; Elasticsearch refreshes every second by itself. *)
Fairness == /\ WF_vars(Refresh)
            /\ \A g \in Gigs : /\ WF_vars(CreateGig(g))
                               /\ WF_vars(Deliver(g))
                               /\ WF_vars(UpdateTotalGigsCount(g))

FairSpec == Spec /\ Fairness
-----------------------------------------------------------------------------
TypeOK == /\ form \in [Gigs -> Forms]
          /\ pc \in [Gigs -> {"idle"} \cup Running \cup Answers]
          /\ found \in [Gigs -> SUBSET Gigs]
          /\ saved \subseteq Gigs /\ indexed \subseteq Gigs /\ visible \subseteq Gigs
          /\ bus \in Queue!Subscription
          /\ docs \in [Services -> SUBSET Users]
          /\ sellers \subseteq Users
          /\ totalGigs \in [Users -> Nat]
          /\ applied \subseteq Gigs /\ ignored \subseteq Gigs
          /\ faults \in 0..MaxFaults

(* A gig that a search could already find when another one was created     *)
(* sorts strictly before it, so paging by sort number shows the newest     *)
(* last.  Only a failed count breaks this: it restarts the numbering.      *)
NewestSortsLast ==
    faults = 0 => \A h \in saved : \A g \in found[h] : SortId(g) < SortId(h)

(* The gigs of S that u owns. *)
GigsOf(u, S) == {g \in S : Owner(g) = u}

(* totalGigs is the number of the owner's gigs whose event reached the     *)
(* Seller; only an unconfirmed $inc that is retried adds to it, once per   *)
(* failure.  It never exceeds the gigs stored by more than that.           *)
CountWithinFaults ==
    \A u \in Users :
        /\ Cardinality(GigsOf(u, applied)) <= totalGigs[u]
        /\ totalGigs[u] <= Cardinality(GigsOf(u, applied)) + faults
        /\ applied \subseteq saved

(* A gig searches can find has been announced to the user service and its  *)
(* event was counted, ignored for want of a Seller, waits, or is stranded; *)
(* a stored gig that no search will find, its creation being over, is only *)
(* there after a failure.                                                  *)
SearchableIsCounted ==
    \A g \in Gigs :
        /\ g \in indexed => g \in saved /\ Queue!Accounts(bus, g, g \in applied \cup ignored)
        /\ g \in saved \ indexed /\ pc[g] \in Answers => faults > 0

(* What searches see of all this is a GigCatalog: a gig they can find was  *)
(* stored with a sort number that is never more than one above the number  *)
(* of gigs visible, keeps it, and does not disappear.                      *)
Catalog == INSTANCE GigCatalog WITH
               number <- [g \in Gigs |-> IF g \in saved THEN SortId(g) ELSE 0]
ListsAsCatalog == Catalog!Spec

(* A gig created without failure is found by searches in the end. *)
ListedEventually == \A g \in Gigs : (pc[g] = "ok") ~> (g \in visible \/ faults > 0)

(* An event put back while its owner had not reached the user service is   *)
(* handled for good once he has, however often MongoDB failed meanwhile.   *)
RetriedUntilKnown ==
    \A g \in Gigs : (g \in Queue!Seen(bus) /\ Owner(g) \in docs["user"])
                        ~> (g \in applied \cup ignored \cup bus.lost)
=============================================================================
