------------------------------ MODULE GigDesk ------------------------------
(***************************************************************************)
(* What the gig service does with a gig once createGig has stored it       *)
(* (module GigListing): editing, deleting and reviewing it, and the        *)
(* queries that read it from Elasticsearch.                                *)
(*                                                                         *)
(* MongoDB holds the gig and Elasticsearch a copy of it, written by        *)
(* whoever changed the gig, after the change and without a lock, and seen  *)
(* by queries from the next refresh on.                                    *)
(*                                                                         *)
(* Abstractions.  Of a gig its ratings are kept; nothing else of it can    *)
(* change.  The consumer that would call updateGigReview is commented out  *)
(* in the source; the method is modelled as one that may be called.        *)
(* deleteGig, updateGig and updateActiveGigProp look for the gig by a      *)
(* field Gig documents do not have: what follows the lookup is never       *)
(* reached and left out.  So is the update of a user's gigs, on an event   *)
(* nobody publishes.  faults and MaxFaults are those of module Signup.     *)
(***************************************************************************)
EXTENDS Naturals, FiniteSets, FiniteSetsExt

CONSTANTS Gigs,       \* gigs of one owner
          Reviews,    \* calls of updateGigReview
          Edits,      \* calls of deleteGig, updateGig, updateActiveGigProp
          Rating,     \* what each review gives
          Owner,      \* whose gigs they are and who edits them
          MaxFaults   \* bound on the failures injected in a behaviour

ASSUME RatingAssumption == IsFiniteSet(Reviews) /\ Rating \in [Reviews -> 1..5]
ASSUME FaultsAssumption == MaxFaults \in Nat

VARIABLES gigs,       \* the document MongoDB has of each gig
          index,      \* the document Elasticsearch has of it
          visible,    \* the document queries see
          unlisted,   \* gigs createGig has stored and not indexed yet
          copied,     \* has the owner's copy arrived?
          gigOf,      \* the gig each call is about
          pc,         \* where each call stands
          snap,       \* the document each review is about to index
          counted,    \* history: reviews that are in the stored document
          tangled,    \* history: gigs with two writers side by side
          faults

docs  == <<gigs, index, visible>>
calls == <<gigOf, pc, snap>>
vars  == <<docs, unlisted, copied, calls, counted, tangled, faults>>

Calls == Reviews \cup Edits

NoDocument == [ratingsCount |-> 0, ratingSum |-> 0, exists |-> FALSE]
New        == [NoDocument EXCEPT !.exists = TRUE]

Documents == [ratingsCount : Nat, ratingSum : Nat, exists : BOOLEAN]

(* $inc of ratingsCount and ratingSum. *)
Rated(document, r) == [document EXCEPT !.ratingsCount = @ + 1, !.ratingSum = @ + Rating[r]]

(* What MongoDB selects: an unknown field in a filter matches nothing. *)
Selects(filter, fields) == \A f \in DOMAIN filter : f \in DOMAIN fields /\ fields[f] = filter[f]

(* getTopRatedGigsByCategory: an average of exactly five. *)
TopRated == {g \in Gigs : /\ visible[g].ratingSum # 0
                          /\ visible[g].ratingSum = 5 * visible[g].ratingsCount}

-----------------------------------------------------------------------------
Init == /\ gigs = [g \in Gigs |-> NoDocument] /\ index = gigs /\ visible = gigs
        /\ unlisted = {} /\ copied = FALSE
        /\ gigOf \in [Calls -> Gigs]
        /\ pc = [c \in Calls |-> "idle"]
        /\ snap = [r \in Reviews |-> NoDocument]
        /\ counted = {} /\ tangled = {}
        /\ faults = 0

Goto(c, label) == pc' = [pc EXCEPT ![c] = label]

Fault == faults < MaxFaults /\ faults' = faults + 1

CopyArrives == /\ ~copied /\ copied' = TRUE
               /\ UNCHANGED <<docs, unlisted, calls, counted, tangled, faults>>

(* createGig stores the gig of an owner who has arrived. *)
StoreGig(g) == /\ ~gigs[g].exists /\ copied
               /\ gigs' = [gigs EXCEPT ![g] = New]
               /\ unlisted' = unlisted \cup {g}
               /\ UNCHANGED <<index, visible, copied, calls, counted, tangled, faults>>

(* It indexes the document it stored, whatever has become of it since, or  *)
(* fails on the way; addDataToIndex keeps its error to itself.             *)
ListGig(g) == /\ g \in unlisted
              /\ \/ index' = [index EXCEPT ![g] = New] /\ UNCHANGED faults
                 \/ Fault /\ UNCHANGED index
              /\ unlisted' = unlisted \ {g}
              /\ UNCHANGED <<gigs, visible, copied, calls, counted, tangled>>

Refresh == /\ visible # index /\ visible' = index
           /\ UNCHANGED <<gigs, index, unlisted, copied, calls, counted, tangled, faults>>

-----------------------------------------------------------------------------
(* updateGigReview *)

(* findById of the gig and of its owner; toObject() of null throws. *)
FindReviewed(r) ==
    /\ pc[r] = "idle"
    /\ Goto(r, IF gigs[gigOf[r]].exists THEN "inc" ELSE "error")
    /\ UNCHANGED <<docs, unlisted, copied, gigOf, snap, counted, tangled, faults>>

(* Reviews that are about to index the gig as they left it. *)
Writers(g) == {r \in Reviews : gigOf[r] = g /\ pc[r] = "index"}

(* Mutant: the sum is computed from the document that was read first. *)
SetRatings(r) ==
    LET g == gigOf[r] IN
    /\ \/ /\ pc[r] = "inc" /\ snap[r] = NoDocument
          /\ snap' = [snap EXCEPT ![r] = Rated(gigs[g], r)]
          /\ UNCHANGED <<gigs, pc, counted, tangled>>
       \/ /\ pc[r] = "inc" /\ snap[r] # NoDocument
          /\ gigs' = [gigs EXCEPT ![g] = snap[r]]
          /\ counted' = counted \cup {r}
          /\ tangled' = IF Writers(g) # {} \/ g \in unlisted THEN tangled \cup {g} ELSE tangled
          /\ Goto(r, "index") /\ UNCHANGED snap
    /\ UNCHANGED <<index, visible, unlisted, copied, gigOf, faults>>

(* findOneAndUpdate with $inc, which gives the new document. *)
IncRatings(r) ==
    LET g == gigOf[r] IN
    /\ pc[r] = "inc"
    /\ gigs' = [gigs EXCEPT ![g] = Rated(@, r)]
    /\ snap' = [snap EXCEPT ![r] = gigs'[g]]
    /\ counted' = counted \cup {r}
    /\ tangled' = IF Writers(g) # {} \/ g \in unlisted THEN tangled \cup {g} ELSE tangled
    /\ Goto(r, "index")
    /\ UNCHANGED <<index, visible, unlisted, copied, gigOf, faults>>

(* Mutant: only what changed is indexed, in the place of the document.     *)
IndexPart(r) ==
    LET g == gigOf[r] IN
    /\ pc[r] = "index"
    /\ index' = IF index[g].exists
                THEN [index EXCEPT ![g] = [ratingsCount |-> snap[r].ratingsCount, exists |-> TRUE]]
                ELSE index
    /\ Goto(r, "ok")
    /\ UNCHANGED <<gigs, visible, unlisted, copied, gigOf, snap, counted, tangled, faults>>

(* esService.update merges the document, which has every field, into the   *)
(* one that is there; without one it fails, which updateIndexedData keeps  *)
(* to itself.                                                              *)
IndexReview(r) ==
    LET g == gigOf[r] IN
    /\ pc[r] = "index"
    /\ \/ /\ index' = IF index[g].exists THEN [index EXCEPT ![g] = snap[r]] ELSE index
          /\ UNCHANGED faults
       \/ Fault /\ UNCHANGED index
    /\ Goto(r, "ok")
    /\ UNCHANGED <<gigs, visible, unlisted, copied, gigOf, snap, counted, tangled>>

-----------------------------------------------------------------------------
(* deleteGig, updateGig and updateActiveGigProp *)

FindEditor(e) ==
    /\ pc[e] = "idle"
    /\ Goto(e, IF copied THEN "gig" ELSE "error")
    /\ UNCHANGED <<docs, unlisted, copied, gigOf, snap, counted, tangled, faults>>

(* Mutant: the gig is looked for by its owner, and then deleted. *)
DeleteFound(e) ==
    /\ pc[e] = "gig"
    /\ gigs' = IF gigs[gigOf[e]].exists THEN [gigs EXCEPT ![gigOf[e]] = NoDocument] ELSE gigs
    /\ Goto(e, "ok")
    /\ UNCHANGED <<index, visible, unlisted, copied, gigOf, snap, counted, tangled, faults>>

(* findOne({ userId, _id }): a Gig has a user and no userId, so toObject() *)
(* of null throws.                                                         *)
FindGig(e) ==
    /\ pc[e] = "gig"
    /\ ~Selects([userId |-> Owner, _id |-> gigOf[e]], [user |-> Owner, _id |-> gigOf[e]])
    /\ Goto(e, "error")
    /\ UNCHANGED <<docs, unlisted, copied, gigOf, snap, counted, tangled, faults>>

(* MongoDB fails under a call; a $inc it did may go unconfirmed. *)
CallFails(c) ==
    /\ pc[c] \in {"inc", "gig"}
    /\ Fault
    /\ \/ UNCHANGED <<gigs, counted>>
       \/ /\ pc[c] = "inc"
          /\ gigs' = [gigs EXCEPT ![gigOf[c]] = Rated(@, c)]
          /\ counted' = counted \cup {c}
    /\ Goto(c, "error")
    /\ UNCHANGED <<index, visible, unlisted, copied, gigOf, snap, tangled>>

(* The gig service dies with all it was about to do. *)
GigCrash ==
    LET cut == {c \in Calls : pc[c] \in {"inc", "index", "gig"}} IN
    /\ cut # {} \/ unlisted # {}
    /\ Fault
    /\ pc' = [c \in Calls |-> IF c \in cut THEN "error" ELSE pc[c]]
    /\ unlisted' = {}
    /\ UNCHANGED <<docs, copied, gigOf, snap, counted, tangled>>

-----------------------------------------------------------------------------
Next == \/ \E g \in Gigs : StoreGig(g) \/ ListGig(g)
        \/ CopyArrives \/ Refresh \/ GigCrash
        \/ \E r \in Reviews : FindReviewed(r) \/ IncRatings(r) \/ IndexReview(r)
        \/ \E e \in Edits : FindEditor(e) \/ FindGig(e)
        \/ \E c \in Calls : CallFails(c)

Spec == Init /\ [][Next]_vars
-----------------------------------------------------------------------------
TypeOK == /\ gigs \in [Gigs -> Documents]
          /\ index \in [Gigs -> Documents] /\ visible \in [Gigs -> Documents]
          /\ unlisted \subseteq Gigs /\ tangled \subseteq Gigs
          /\ copied \in BOOLEAN
          /\ gigOf \in [Calls -> Gigs]
          /\ pc \in [Calls -> {"idle", "inc", "index", "gig", "ok", "error"}]
          /\ snap \in [Reviews -> Documents]
          /\ counted \subseteq Reviews
          /\ faults \in 0..MaxFaults

(* The document that holds the reviews of R. *)
Tally(R) == [ratingsCount |-> Cardinality(R),
             ratingSum    |-> MapThenSumSet(LAMBDA r : Rating[r], R),
             exists       |-> TRUE]

CountedOf(g) == {r \in counted : gigOf[r] = g}

(* However reviews interleave, the stored gig holds each exactly once, and *)
(* what queries see is the tally of some of them: nothing they show was    *)
(* never given, so a gig is top rated only after nothing but fives.        *)
RatingsAreEarned ==
    \A g \in Gigs :
        /\ gigs[g].exists => gigs[g] = Tally(CountedOf(g))
        /\ visible[g].exists => \E R \in SUBSET CountedOf(g) : visible[g] = Tally(R)
        /\ g \in TopRated => \E R \in (SUBSET CountedOf(g)) \ {{}} : \A r \in R : Rating[r] = 5

(* Elasticsearch has the gig as it is stored, but while a writer is on its *)
(* way, after two of them were there side by side, createGig included, or  *)
(* after a failure.                                                        *)
IndexIsCurrent ==
    \A g \in Gigs : \/ index[g] = gigs[g]
                    \/ g \in unlisted \/ Writers(g) # {}
                    \/ g \in tangled \/ faults > 0
=============================================================================
