---------------------------- MODULE GigDeskProofs ----------------------------
(***************************************************************************)
(* Proofs about GigDesk, for any gigs, any finite set of reviews with any  *)
(* ratings, any edits and any number of failures.                          *)
(***************************************************************************)
EXTENDS GigDesk, FiniteSetTheorems, TLAPS

(* The sums of ratings.  MapThenSumSet adds the elements of a set in an    *)
(* order of its choosing; the lemmas show that the order is of no account. *)
(* Finite sets are well-founded, so a set of exceptions has a least one:   *)
(* what holds of a set whenever it does of those inside it holds of all.   *)
LEMMA SetInduction ==
  ASSUME NEW S, IsFiniteSet(S), NEW G,
         \A T \in SUBSET S : (\A U \in SUBSET T : U # T => U \in G) => T \in G
  PROVE  \A T \in SUBSET S : T \in G
<1> DEFINE exceptions == {T \in SUBSET S : T \notin G}
<1> SUFFICES ASSUME exceptions # {} PROVE FALSE
  OBVIOUS
<1>1. exceptions \subseteq FiniteSubsetsOf(S)
  BY FS_Subset DEF FiniteSubsetsOf
<1>2. PICK T \in exceptions : \A U \in exceptions : <<U, T>> \notin StrictSubsetOrdering(S)
  <2> HIDE DEF exceptions
  <2> QED
    BY <1>1, FS_StrictSubsetOrderingWellFounded, WFMin
<1>3. T \in SUBSET S /\ T \notin G
  BY <1>2
<1>4. ASSUME NEW U \in SUBSET T, U # T PROVE U \in G
  <2>1. U \in SUBSET S /\ <<U, T>> \in StrictSubsetOrdering(S)
    BY <1>3, <1>4 DEF StrictSubsetOrdering
  <2> QED
    BY <1>2, <2>1
<1> QED
  BY <1>3, <1>4

Total(R) == MapThenSumSet(LAMBDA r : Rating[r], R)

Choice(R) == CHOOSE r \in R : TRUE
Rest(R)   == R \ {Choice(R)}
Adds(f, R) == IF R = {} THEN 0 ELSE Rating[Choice(R)] + f[Rest(R)]

LEMMA TotalIs == \A R : Total(R) = (CHOOSE f : f = [s \in SUBSET R |-> Adds(f, s)])[R]
BY DEF Total, MapThenSumSet, MapThenFoldSet, Adds, Rest, Choice

LEMMA RestFacts ==
  ASSUME NEW R \in SUBSET Reviews
  PROVE  /\ IsFiniteSet(R) /\ Cardinality(R) \in Nat
         /\ R = {} <=> Cardinality(R) = 0
         /\ R # {} => /\ Choice(R) \in R /\ Rating[Choice(R)] \in 1..5
                      /\ Rest(R) \in SUBSET Reviews /\ Rest(R) \in SUBSET R /\ Rest(R) # R
                      /\ Cardinality(Rest(R)) = Cardinality(R) - 1
<1>1. IsFiniteSet(R) /\ Cardinality(R) \in Nat
  BY RatingAssumption, FS_Subset, FS_CardinalityType
<1>2. R = {} <=> Cardinality(R) = 0
  BY <1>1, FS_EmptySet
<1>3. ASSUME R # {} PROVE Choice(R) \in R
  BY <1>3 DEF Choice
<1>4. ASSUME R # {} PROVE Cardinality(Rest(R)) = Cardinality(R) - 1
  BY <1>1, <1>3, <1>4, FS_RemoveElement DEF Rest
<1> QED
  BY <1>1, <1>2, <1>3, <1>4, RatingAssumption DEF Rest

LEMMA SumsExist ==
  \E f \in [SUBSET Reviews -> Nat] : \A s \in SUBSET Reviews : f[s] = Adds(f, s)
<1> DEFINE Sums(f, n) == \A s \in SUBSET Reviews : Cardinality(s) <= n => f[s] = Adds(f, s)
           G == {T \in SUBSET Reviews : \E f \in [SUBSET Reviews -> Nat] : Sums(f, Cardinality(T))}
<1>1. ASSUME NEW T \in SUBSET Reviews, \A U \in SUBSET T : U # T => U \in G
      PROVE  T \in G
  <2>1. CASE T = {}
    <3> DEFINE zero == [s \in SUBSET Reviews |-> 0]
    <3>1. ASSUME NEW s \in SUBSET Reviews, Cardinality(s) <= Cardinality(T)
          PROVE  zero[s] = Adds(zero, s)
      <4>1. s = {}
        BY <2>1, <3>1, RestFacts
      <4> QED
        BY <4>1 DEF Adds
    <3>2. zero \in [SUBSET Reviews -> Nat] /\ Sums(zero, Cardinality(T))
      BY <3>1
    <3> HIDE DEF zero, Sums
    <3> QED
      BY <3>2
  <2>2. CASE T # {}
    <3> DEFINE U == Rest(T)
    <3>1. /\ U \in G /\ Cardinality(U) \in Nat /\ Cardinality(T) \in Nat
          /\ Cardinality(U) = Cardinality(T) - 1
      BY <1>1, <2>2, RestFacts
    <3>2. PICK f \in [SUBSET Reviews -> Nat] : Sums(f, Cardinality(U))
      BY <3>1
    <3> DEFINE g == [s \in SUBSET Reviews |->
                        IF Cardinality(s) <= Cardinality(U) THEN f[s] ELSE Adds(f, s)]
    <3>3. ASSUME NEW s \in SUBSET Reviews PROVE Adds(f, s) \in Nat
      BY RestFacts DEF Adds
    <3>4. g \in [SUBSET Reviews -> Nat]
      BY <3>3
    <3>5. ASSUME NEW s \in SUBSET Reviews, Cardinality(s) <= Cardinality(T)
          PROVE  g[s] = Adds(g, s)
      <4>1. g[s] = Adds(f, s)
        BY <3>2
      <4>2. ASSUME s # {} PROVE g[Rest(s)] = f[Rest(s)]
        <5>1. Rest(s) \in SUBSET Reviews /\ Cardinality(Rest(s)) <= Cardinality(U)
          BY <3>1, <3>5, <4>2, RestFacts
        <5> QED
          BY <5>1
      <4> HIDE DEF g
      <4> QED
        BY <4>1, <4>2 DEF Adds
    <3>6. Sums(g, Cardinality(T))
      BY <3>5
    <3> HIDE DEF g, Sums
    <3> QED
      BY <3>4, <3>6
  <2> QED
    BY <2>1, <2>2
<1>2. Reviews \in G
  <2> HIDE DEF G
  <2> QED
    BY <1>1, RatingAssumption, SetInduction
<1>3. PICK f \in [SUBSET Reviews -> Nat] : Sums(f, Cardinality(Reviews))
  BY <1>2
<1>4. \A s \in SUBSET Reviews : Cardinality(s) <= Cardinality(Reviews)
  BY RatingAssumption, FS_Subset
<1> QED
  BY <1>3, <1>4

LEMMA TotalFacts ==
  /\ Total({}) = 0
  /\ \A R \in SUBSET Reviews : Total(R) \in Nat
  /\ \A R \in (SUBSET Reviews) \ {{}} : Total(R) = Rating[Choice(R)] + Total(Rest(R))
<1>1. PICK h \in [SUBSET Reviews -> Nat] : \A s \in SUBSET Reviews : h[s] = Adds(h, s)
  BY SumsExist
<1>2. ASSUME NEW R \in SUBSET Reviews PROVE Total(R) = h[R]
  <2> DEFINE Solves(f) == f = [s \in SUBSET R |-> Adds(f, s)]
             k == [s \in SUBSET R |-> h[s]]
             f == CHOOSE f : Solves(f)
  <2>1. ASSUME NEW s \in SUBSET R PROVE k[s] = Adds(k, s)
    <3>1. s \in SUBSET Reviews /\ k[s] = Adds(h, s)
      BY <1>1
    <3>2. s # {} => k[Rest(s)] = h[Rest(s)]
      BY <3>1, RestFacts
    <3> HIDE DEF k
    <3> QED
      BY <3>1, <3>2 DEF Adds
  <2>2. Solves(k)
    BY <2>1
  <2>3. Solves(f)
    <3> HIDE DEF Solves, k
    <3> QED
      BY <2>2, Zenon
  <2>4. \A s \in SUBSET R : f[s] = Adds(f, s)
    <3> HIDE DEF f
    <3> QED
      BY <2>3
  <2> HIDE DEF f
  <2> DEFINE G == {s \in SUBSET R : f[s] = h[s]}
  <2>5. ASSUME NEW T \in SUBSET R, \A U \in SUBSET T : U # T => U \in G PROVE T \in G
    <3>1. T \in SUBSET Reviews
      OBVIOUS
    <3>2. T # {} => f[Rest(T)] = h[Rest(T)]
      BY <2>5, <3>1, RestFacts
    <3>3. f[T] = h[T]
      BY <1>1, <2>4, <3>1, <3>2 DEF Adds
    <3> QED
      BY <3>3
  <2>6. R \in G
    <3> HIDE DEF G
    <3> QED
      BY <2>5, RestFacts, SetInduction
  <2>7. Total(R) = f[R]
    BY TotalIs DEF f
  <2> QED
    BY <2>6, <2>7
<1>3. Total({}) = 0
  BY <1>1, <1>2 DEF Adds
<1>4. ASSUME NEW R \in (SUBSET Reviews) \ {{}} PROVE Total(R) = Rating[Choice(R)] + Total(Rest(R))
  <2>1. R # {} /\ R \in SUBSET Reviews /\ Rest(R) \in SUBSET Reviews
    BY <1>4, RestFacts
  <2> QED
    BY <1>1, <1>2, <2>1 DEF Adds
<1> QED
  BY <1>1, <1>2, <1>3, <1>4

(* Any review may be counted last.                                         *)
LEMMA TotalRemove ==
  \A R \in SUBSET Reviews : \A r \in R : Total(R) = Rating[r] + Total(R \ {r})
<1> DEFINE G == {R \in SUBSET Reviews : \A r \in R : Total(R) = Rating[r] + Total(R \ {r})}
<1>1. ASSUME NEW R \in SUBSET Reviews, \A U \in SUBSET R : U # R => U \in G, NEW r \in R
      PROVE  Total(R) = Rating[r] + Total(R \ {r})
  <2> DEFINE c == Choice(R)
  <2>1. Total(R) = Rating[c] + Total(R \ {c}) /\ c \in R
    BY TotalFacts, RestFacts DEF Rest
  <2> HIDE DEF c
  <2>2. CASE r = c
    BY <2>1, <2>2
  <2>3. CASE r # c
    <3>1. Total(R \ {c}) = Rating[r] + Total((R \ {c}) \ {r})
      BY <1>1, <2>1, <2>3
    <3>2. Total(R \ {r}) = Rating[c] + Total((R \ {r}) \ {c})
      BY <1>1, <2>1, <2>3
    <3>3. (R \ {r}) \ {c} = (R \ {c}) \ {r} /\ (R \ {c}) \ {r} \in SUBSET Reviews
      OBVIOUS
    <3>4. Total((R \ {c}) \ {r}) \in Nat /\ Rating[r] \in Nat /\ Rating[c] \in Nat
      BY <2>1, <3>3, TotalFacts, RatingAssumption
    <3>5. Total((R \ {r}) \ {c}) = Total((R \ {c}) \ {r})
      BY <3>3
    <3>6. \A a, b, n \in Nat : a + (b + n) = b + (a + n)
      OBVIOUS
    <3> QED
      BY <2>1, <3>1, <3>2, <3>4, <3>5, <3>6
  <2> QED
    BY <2>2, <2>3
<1>2. \A R \in SUBSET Reviews : R \in G
  <2>1. \A R \in SUBSET Reviews : (\A U \in SUBSET R : U # R => U \in G) => R \in G
    BY <1>1
  <2> HIDE DEF G
  <2> QED
    BY <2>1, RatingAssumption, SetInduction
<1> QED
  BY <1>2

(* A review gives five at most, and where the sum is as large as it can be *)
(* each gave five.                                                         *)
LEMMA TotalBound ==
  \A R \in SUBSET Reviews : /\ Total(R) <= 5 * Cardinality(R)
                            /\ R # {} => Total(R) > 0
                            /\ Total(R) = 5 * Cardinality(R) => \A r \in R : Rating[r] = 5
<1> DEFINE Bound(R) == /\ Total(R) <= 5 * Cardinality(R)
                       /\ R # {} => Total(R) > 0
                       /\ Total(R) = 5 * Cardinality(R) => \A r \in R : Rating[r] = 5
           G == {R \in SUBSET Reviews : Bound(R)}
<1>1. ASSUME NEW R \in SUBSET Reviews, \A U \in SUBSET R : U # R => U \in G
      PROVE  Bound(R)
  <2>1. CASE R = {}
    BY <2>1, TotalFacts, FS_EmptySet
  <2>2. CASE R # {}
    <3> DEFINE c == Choice(R)
    <3>1. /\ Total(R) = Rating[c] + Total(Rest(R)) /\ c \in R /\ Rating[c] \in 1..5
          /\ Cardinality(Rest(R)) = Cardinality(R) - 1 /\ Cardinality(R) \in Nat
          /\ Total(Rest(R)) \in Nat /\ Rest(R) \in G /\ Rest(R) = R \ {c}
      BY <1>1, <2>2, TotalFacts, RestFacts DEF Rest
    <3> HIDE DEF c
    <3>2. /\ Total(Rest(R)) <= 5 * Cardinality(Rest(R))
          /\ Total(Rest(R)) = 5 * Cardinality(Rest(R)) => \A r \in R \ {c} : Rating[r] = 5
      BY <3>1
    <3>3. Total(R) <= 5 * Cardinality(R) /\ Total(R) > 0
      BY <3>1, <3>2
    <3>4. ASSUME Total(R) = 5 * Cardinality(R)
          PROVE  Rating[c] = 5 /\ Total(Rest(R)) = 5 * Cardinality(Rest(R))
      BY <3>1, <3>2, <3>4
    <3> QED
      BY <3>2, <3>3, <3>4
  <2> QED
    BY <2>1, <2>2
<1>2. \A R \in SUBSET Reviews : R \in G
  <2>1. \A R \in SUBSET Reviews : (\A U \in SUBSET R : U # R => U \in G) => R \in G
    BY <1>1
  <2> HIDE DEF G
  <2> QED
    BY <2>1, RatingAssumption, SetInduction
<1> QED
  BY <1>2
-----------------------------------------------------------------------------
(* Tallies                                                                 *)

LEMMA SameDocument ==
  ASSUME NEW d \in Documents, NEW e \in Documents, d.ratingsCount = e.ratingsCount,
         d.ratingSum = e.ratingSum, d.exists = e.exists
  PROVE  d = e
BY DEF Documents

LEMMA TallyIs ==
  ASSUME NEW R \in SUBSET Reviews
  PROVE  /\ Tally(R) \in Documents
         /\ Tally(R).ratingsCount = Cardinality(R) /\ Tally(R).ratingSum = Total(R)
         /\ Tally(R).exists = TRUE
<1>1. Tally(R) = [ratingsCount |-> Cardinality(R), ratingSum |-> Total(R), exists |-> TRUE]
  BY DEF Tally, Total
<1> QED
  BY <1>1, RestFacts, TotalFacts DEF Documents

LEMMA NewIs == New = Tally({}) /\ New \in Documents /\ NoDocument \in Documents
               /\ New.exists /\ ~NoDocument.exists
<1>1. NoDocument \in Documents /\ ~NoDocument.exists
  BY DEF NoDocument, Documents
<1>2. New \in Documents /\ New.ratingsCount = 0 /\ New.ratingSum = 0 /\ New.exists = TRUE
  BY DEF New, NoDocument, Documents
<1>3. Cardinality({}) = 0 /\ Total({}) = 0
  BY FS_EmptySet, TotalFacts
<1>4. New = Tally({})
  BY <1>2, <1>3, TallyIs, SameDocument
<1> QED
  BY <1>1, <1>2, <1>4

LEMMA RatedTyped ==
  ASSUME NEW d \in Documents, NEW r \in Reviews
  PROVE  /\ Rated(d, r) \in Documents
         /\ Rated(d, r).ratingsCount = d.ratingsCount + 1
         /\ Rated(d, r).ratingSum = d.ratingSum + Rating[r]
         /\ Rated(d, r).exists = d.exists
<1>1. /\ d.ratingsCount + 1 \in Nat /\ d.ratingSum + Rating[r] \in Nat /\ d.exists \in BOOLEAN
  BY RatingAssumption DEF Documents
<1>2. DOMAIN d = {"ratingsCount", "ratingSum", "exists"}
  BY DEF Documents
<1>3. Rated(d, r) = [f \in {"ratingsCount", "ratingSum", "exists"} |->
                        CASE f = "ratingsCount" -> d.ratingsCount + 1
                          [] f = "ratingSum" -> d.ratingSum + Rating[r]
                          [] OTHER -> d[f]]
  BY <1>2 DEF Rated
<1>4. /\ Rated(d, r).ratingsCount = d.ratingsCount + 1
      /\ Rated(d, r).ratingSum = d.ratingSum + Rating[r]
      /\ Rated(d, r).exists = d.exists
  BY <1>3
<1>5. Rated(d, r) = [ratingsCount |-> d.ratingsCount + 1, ratingSum |-> d.ratingSum + Rating[r],
                     exists |-> d.exists]
  BY <1>3, <1>4
<1> QED
  BY <1>1, <1>4, <1>5 DEF Documents

(* One more review makes a tally the tally with it.                        *)
LEMMA RatedIs ==
  ASSUME NEW R \in SUBSET Reviews, NEW r \in Reviews, r \notin R
  PROVE  Rated(Tally(R), r) = Tally(R \cup {r})
<1> DEFINE T == R \cup {r}
<1>1. Cardinality(T) = Cardinality(R) + 1
  BY RestFacts, FS_AddElement
<1>2. Total(T) = Total(R) + Rating[r]
  <2>1. T \in SUBSET Reviews /\ r \in T /\ T \ {r} = R
    OBVIOUS
  <2>2. Total(T) = Rating[r] + Total(R)
    BY <2>1, TotalRemove
  <2>3. Total(R) \in Nat /\ Rating[r] \in Nat
    BY TotalFacts, RatingAssumption
  <2> HIDE DEF T
  <2> QED
    BY <2>2, <2>3
<1>3. T \in SUBSET Reviews
  OBVIOUS
<1> HIDE DEF T
<1>4. Rated(Tally(R), r) = Tally(T)
  <2>1. /\ Tally(R) \in Documents /\ Tally(R).ratingsCount = Cardinality(R)
        /\ Tally(R).ratingSum = Total(R) /\ Tally(R).exists = TRUE
    BY TallyIs
  <2>2. /\ Tally(T) \in Documents /\ Tally(T).ratingsCount = Cardinality(R) + 1
        /\ Tally(T).ratingSum = Total(R) + Rating[r] /\ Tally(T).exists = TRUE
    BY <1>1, <1>2, <1>3, TallyIs
  <2>3. /\ Rated(Tally(R), r) \in Documents
        /\ Rated(Tally(R), r).ratingsCount = Cardinality(R) + 1
        /\ Rated(Tally(R), r).ratingSum = Total(R) + Rating[r]
        /\ Rated(Tally(R), r).exists = TRUE
    BY <2>1, RatedTyped
  <2> QED
    BY <2>2, <2>3, SameDocument
<1> QED
  BY <1>4 DEF T
-----------------------------------------------------------------------------
(* A review is counted when it is done, once, and for a gig that is there. *)
Fresh(c) == /\ pc[c] \in {"idle", "inc"} => c \notin counted
            /\ pc[c] \in {"inc", "index"} => c \in Reviews /\ gigs[gigOf[c]].exists

(* The stored document, and those that were made from it.                  *)
Stored(g) == IF gigs[g].exists THEN gigs[g] = Tally(CountedOf(g))
                               ELSE gigs[g] = NoDocument /\ CountedOf(g) = {}

Earned(d, C) == d = NoDocument \/ \E R \in SUBSET C : d = Tally(R)

Copied(g) == /\ Earned(index[g], CountedOf(g)) /\ Earned(visible[g], CountedOf(g))
             /\ \A r \in Writers(g) : Earned(snap[r], CountedOf(g))
             /\ g \in unlisted => gigs[g].exists

(* While nothing failed and no two writers met there is one at most, and   *)
(* it has the document as it is stored.                                    *)
Single(g) == faults = 0 /\ g \notin tangled =>
    /\ g \in unlisted => Writers(g) = {} /\ gigs[g] = New
    /\ \A r \in Writers(g) : snap[r] = gigs[g] /\ index[g].exists /\ Writers(g) = {r}
    /\ g \notin unlisted /\ Writers(g) = {} => index[g] = gigs[g]

CallInv == \A c \in Calls : Fresh(c)
GigInv  == \A g \in Gigs : Stored(g) /\ Copied(g) /\ Single(g)

IndInv == TypeOK /\ CallInv /\ GigInv

LEMMA CountedFacts ==
  ASSUME TypeOK, NEW g
  PROVE  CountedOf(g) \in SUBSET Reviews
BY DEF TypeOK, CountedOf

LEMMA InitInv == Init => IndInv
<1> SUFFICES ASSUME Init PROVE IndInv
  OBVIOUS
<1>1. TypeOK
  <2>1. /\ gigs \in [Gigs -> Documents] /\ index \in [Gigs -> Documents]
        /\ visible \in [Gigs -> Documents] /\ snap \in [Reviews -> Documents]
    BY NewIs DEF Init
  <2>2. 0 \in 0..MaxFaults
    BY FaultsAssumption
  <2>3. pc \in [Calls -> {"idle", "inc", "index", "gig", "ok", "error"}]
    BY DEF Init
  <2> QED
    BY <2>1, <2>2, <2>3 DEF Init, TypeOK
<1>2. CallInv
  BY DEF Init, CallInv, Fresh
<1>3. ASSUME NEW g \in Gigs PROVE Stored(g) /\ Copied(g) /\ Single(g)
  <2>1. /\ gigs[g] = NoDocument /\ index[g] = NoDocument /\ visible[g] = NoDocument
        /\ CountedOf(g) = {} /\ unlisted = {} /\ Writers(g) = {}
    BY DEF Init, CountedOf, Writers, Calls
  <2> QED
    BY <2>1, NewIs DEF Stored, Copied, Earned, Single
<1> QED
  BY <1>1, <1>2, <1>3 DEF IndInv, GigInv

LEMMA TypeStep == TypeOK /\ CallInv /\ [Next]_vars => TypeOK'
<1> SUFFICES ASSUME TypeOK, CallInv, [Next]_vars PROVE TypeOK'
  OBVIOUS
<1> USE DEF TypeOK
<1>1. CASE UNCHANGED vars
  BY <1>1 DEF vars, docs, calls
<1>2. ASSUME NEW g \in Gigs, StoreGig(g) PROVE TypeOK'
  BY <1>2, NewIs DEF StoreGig, calls
<1>3. ASSUME NEW g \in Gigs, ListGig(g) PROVE TypeOK'
  BY <1>3, NewIs, FaultsAssumption DEF ListGig, Fault, calls
<1>4. CASE CopyArrives
  BY <1>4 DEF CopyArrives, docs, calls
<1>5. CASE Refresh
  BY <1>5 DEF Refresh, calls
<1>6. CASE GigCrash
  <2>1. pc' \in [Calls -> {"idle", "inc", "index", "gig", "ok", "error"}]
    BY <1>6 DEF GigCrash
  <2> QED
    BY <1>6, <2>1, FaultsAssumption DEF GigCrash, Fault, docs
<1>7. ASSUME NEW r \in Reviews, FindReviewed(r) PROVE TypeOK'
  BY <1>7 DEF FindReviewed, Goto, docs, Calls
<1>8. ASSUME NEW r \in Reviews, IncRatings(r) PROVE TypeOK'
  <2>1. /\ gigOf[r] \in Gigs /\ gigs[gigOf[r]] \in Documents
        /\ Rated(gigs[gigOf[r]], r) \in Documents
    BY RatedTyped DEF Calls
  <2>2. /\ gigs' = [gigs EXCEPT ![gigOf[r]] = Rated(gigs[gigOf[r]], r)]
        /\ snap' = [snap EXCEPT ![r] = gigs'[gigOf[r]]]
    BY <1>8 DEF IncRatings
  <2>3. gigs' \in [Gigs -> Documents] /\ snap' \in [Reviews -> Documents]
    BY <2>1, <2>2
  <2>4. tangled' \subseteq Gigs /\ counted' \subseteq Reviews
    BY <1>8, <2>1 DEF IncRatings
  <2>5. pc' \in [Calls -> {"idle", "inc", "index", "gig", "ok", "error"}]
    BY <1>8 DEF IncRatings, Goto
  <2>6. UNCHANGED <<index, visible, unlisted, copied, gigOf, faults>>
    BY <1>8 DEF IncRatings
  <2> QED
    BY <2>3, <2>4, <2>5, <2>6
<1>9. ASSUME NEW r \in Reviews, IndexReview(r) PROVE TypeOK'
  <2>1. gigOf[r] \in Gigs /\ snap[r] \in Documents
    BY DEF Calls
  <2>2. index' \in [Gigs -> Documents]
    BY <1>9, <2>1 DEF IndexReview
  <2>3. faults' \in 0..MaxFaults
    BY <1>9, FaultsAssumption DEF IndexReview, Fault
  <2>4. UNCHANGED <<gigs, visible, unlisted, copied, gigOf, snap, counted, tangled>>
    BY <1>9 DEF IndexReview
  <2>5. pc' \in [Calls -> {"idle", "inc", "index", "gig", "ok", "error"}]
    BY <1>9 DEF IndexReview, Goto
  <2> QED
    BY <2>2, <2>3, <2>4, <2>5
<1>10. ASSUME NEW e \in Edits, FindEditor(e) \/ FindGig(e) PROVE TypeOK'
  BY <1>10 DEF FindEditor, FindGig, Goto, docs
<1>11. ASSUME NEW c \in Calls, CallFails(c) PROVE TypeOK'
  <2>1. gigOf[c] \in Gigs /\ gigs[gigOf[c]] \in Documents
    OBVIOUS
  <2>2. /\ pc' \in [Calls -> {"idle", "inc", "index", "gig", "ok", "error"}]
        /\ faults' \in 0..MaxFaults
        /\ UNCHANGED <<index, visible, unlisted, copied, gigOf, snap, tangled>>
    BY <1>11, FaultsAssumption DEF CallFails, Fault, Goto
  <2>3. \/ UNCHANGED <<gigs, counted>>
        \/ /\ c \in Reviews /\ counted' = counted \cup {c}
           /\ gigs' = [gigs EXCEPT ![gigOf[c]] = Rated(gigs[gigOf[c]], c)]
    BY <1>11 DEF CallFails, CallInv, Fresh
  <2>4. gigs' \in [Gigs -> Documents] /\ counted' \subseteq Reviews
    <3>1. CASE UNCHANGED <<gigs, counted>>
      BY <3>1
    <3>2. CASE /\ c \in Reviews /\ counted' = counted \cup {c}
               /\ gigs' = [gigs EXCEPT ![gigOf[c]] = Rated(gigs[gigOf[c]], c)]
      <4>1. Rated(gigs[gigOf[c]], c) \in Documents
        BY <2>1, <3>2, RatedTyped
      <4> QED
        BY <3>2, <4>1
    <3> QED
      BY <2>3, <3>1, <3>2
  <2> QED
    BY <2>2, <2>4
<1> QED
  BY <1>1, <1>2, <1>3, <1>4, <1>5, <1>6, <1>7, <1>8, <1>9, <1>10, <1>11 DEF Next

LEMMA CallStep == TypeOK /\ CallInv /\ [Next]_vars => CallInv'
<1> SUFFICES ASSUME TypeOK, CallInv, [Next]_vars, NEW c \in Calls PROVE Fresh(c)'
  BY DEF CallInv, Calls
<1>0. Fresh(c) /\ gigOf' = gigOf
  <2>1. gigOf' = gigOf
    BY DEF Next, vars, calls, StoreGig, ListGig, CopyArrives, Refresh, GigCrash, FindReviewed,
           IncRatings, IndexReview, FindEditor, FindGig, CallFails
  <2> QED
    BY <2>1 DEF CallInv
<1> USE <1>0 DEF Fresh
<1>1. CASE UNCHANGED vars
  BY <1>1 DEF vars, docs, calls
<1>2. ASSUME NEW g \in Gigs, StoreGig(g) PROVE Fresh(c)'
  <2>1. \A k \in Gigs : gigs[k].exists => gigs'[k].exists
    BY <1>2, NewIs DEF StoreGig, TypeOK
  <2>2. UNCHANGED <<pc, counted>> /\ gigOf[c] \in Gigs
    BY <1>2 DEF StoreGig, calls, TypeOK
  <2> QED
    BY <2>1, <2>2
<1>3. CASE (\E g \in Gigs : ListGig(g)) \/ CopyArrives \/ Refresh
  BY <1>3 DEF ListGig, CopyArrives, Refresh, calls, docs
<1>4. CASE GigCrash
  BY <1>4 DEF GigCrash, docs, TypeOK
<1>5. ASSUME NEW r \in Reviews, FindReviewed(r) PROVE Fresh(c)'
  <2>1. /\ pc' = [pc EXCEPT ![r] = IF gigs[gigOf[r]].exists THEN "inc" ELSE "error"]
        /\ pc[r] = "idle" /\ UNCHANGED <<gigs, counted>>
    BY <1>5 DEF FindReviewed, Goto, docs
  <2> QED
    BY <1>5, <2>1 DEF TypeOK, Calls
<1>r. ASSUME NEW r \in Reviews, gigs' = [gigs EXCEPT ![gigOf[r]] = Rated(gigs[gigOf[r]], r)]
      PROVE  \A k \in Gigs : gigs'[k].exists = gigs[k].exists
  <2>1. gigOf[r] \in Gigs /\ gigs[gigOf[r]] \in Documents
    BY DEF TypeOK, Calls
  <2>2. Rated(gigs[gigOf[r]], r).exists = gigs[gigOf[r]].exists
    BY <2>1, RatedTyped
  <2> QED
    BY <1>r, <2>1, <2>2 DEF TypeOK
<1>6. ASSUME NEW r \in Reviews, IncRatings(r) PROVE Fresh(c)'
  <2>1. /\ pc' = [pc EXCEPT ![r] = "index"] /\ pc[r] = "inc" /\ counted' = counted \cup {r}
        /\ gigs' = [gigs EXCEPT ![gigOf[r]] = Rated(gigs[gigOf[r]], r)]
    BY <1>6 DEF IncRatings, Goto
  <2>2. /\ \A k \in Gigs : gigs'[k].exists = gigs[k].exists
        /\ gigOf[c] \in Gigs /\ gigs[gigOf[r]].exists
    BY <1>r, <2>1 DEF TypeOK, CallInv, Calls
  <2> QED
    BY <1>6, <2>1, <2>2 DEF TypeOK, Calls
<1>7. ASSUME NEW r \in Reviews, IndexReview(r) PROVE Fresh(c)'
  BY <1>7 DEF IndexReview, Goto, TypeOK, Calls
<1>8. ASSUME NEW e \in Edits, FindEditor(e) \/ FindGig(e) PROVE Fresh(c)'
  BY <1>8 DEF FindEditor, FindGig, Goto, docs, TypeOK, Calls
<1>9. ASSUME NEW d \in Calls, CallFails(d) PROVE Fresh(c)'
  <2>1. /\ pc' = [pc EXCEPT ![d] = "error"]
        /\ \/ UNCHANGED <<gigs, counted>>
           \/ /\ pc[d] = "inc" /\ counted' = counted \cup {d}
              /\ gigs' = [gigs EXCEPT ![gigOf[d]] = Rated(gigs[gigOf[d]], d)]
    BY <1>9 DEF CallFails, Goto
  <2>2. pc[d] = "inc" => d \in Reviews
    BY DEF CallInv
  <2>3. (\A k \in Gigs : gigs'[k].exists = gigs[k].exists) /\ gigOf[c] \in Gigs
    BY <1>r, <2>1, <2>2 DEF TypeOK
  <2> QED
    BY <2>1, <2>3 DEF TypeOK
<1> QED
  BY <1>1, <1>2, <1>3, <1>4, <1>5, <1>6, <1>7, <1>8, <1>9 DEF Next
-----------------------------------------------------------------------------
LEMMA EarnedGrows ==
  ASSUME NEW d, NEW C, NEW D, C \subseteq D, Earned(d, C)
  PROVE  Earned(d, D)
BY DEF Earned

LEMMA TallyEarned ==
  ASSUME NEW C
  PROVE  Earned(Tally(C), C) /\ Earned(New, C) /\ Earned(NoDocument, C)
BY NewIs DEF Earned

(* A step that leaves the reviews of a gig, and the documents, alone.      *)
LEMMA GigKeeps ==
  ASSUME NEW g \in Gigs, Stored(g), Copied(g), Single(g),
         UNCHANGED <<gigs, index, visible, snap, tangled, gigOf, counted>>,
         g \in unlisted' <=> g \in unlisted, faults' = faults,
         Writers(g)' = Writers(g)
  PROVE  Stored(g)' /\ Copied(g)' /\ Single(g)'
<1>1. CountedOf(g)' = CountedOf(g)
  BY DEF CountedOf
<1> QED
  BY <1>1 DEF Stored, Copied, Single

(* One after a failure: there is nothing to show of the index.             *)
LEMMA GigFails ==
  ASSUME NEW g \in Gigs, Stored(g), Copied(g), faults' # 0,
         UNCHANGED <<gigs, index, visible, snap, gigOf, counted>>,
         g \in unlisted' => g \in unlisted, Writers(g)' \subseteq Writers(g)
  PROVE  Stored(g)' /\ Copied(g)' /\ Single(g)'
<1>1. CountedOf(g)' = CountedOf(g)
  BY DEF CountedOf
<1> QED
  BY <1>1 DEF Stored, Copied, Single

(* A $inc of review r, whether or not it is confirmed.                     *)
LEMMA Counting ==
  ASSUME TypeOK, CallInv, GigInv, NEW r \in Reviews, pc[r] = "inc", NEW g \in Gigs,
         gigs' = [gigs EXCEPT ![gigOf[r]] = Rated(gigs[gigOf[r]], r)],
         counted' = counted \cup {r}, gigOf' = gigOf
  PROVE  /\ Stored(g)' /\ CountedOf(g) \subseteq CountedOf(g)'
         /\ gigOf[r] # g => gigs'[g] = gigs[g] /\ CountedOf(g)' = CountedOf(g)
         /\ gigOf[r] = g => gigs'[g] = Tally(CountedOf(g)') /\ gigs'[g].exists
<1>1. Stored(g) /\ CountedOf(g) \in SUBSET Reviews
  BY CountedFacts DEF GigInv
<1>2. CASE gigOf[r] # g
  <2>1. gigs'[g] = gigs[g] /\ CountedOf(g)' = CountedOf(g)
    BY <1>2 DEF CountedOf, TypeOK
  <2> QED
    BY <1>1, <1>2, <2>1 DEF Stored
<1>3. CASE gigOf[r] = g
  <2>1. r \notin CountedOf(g) /\ gigs[g] = Tally(CountedOf(g))
    BY <1>1, <1>3 DEF CallInv, Fresh, Calls, CountedOf, Stored
  <2>2. CountedOf(g)' = CountedOf(g) \cup {r}
    BY <1>3 DEF CountedOf
  <2>3. gigs'[g] = Tally(CountedOf(g) \cup {r})
    BY <1>1, <1>3, <2>1, RatedIs DEF TypeOK
  <2>4. gigs'[g].exists
    BY <1>1, <2>3, TallyIs
  <2> QED
    BY <1>3, <2>2, <2>3, <2>4 DEF Stored
<1> QED
  BY <1>2, <1>3

LEMMA StoreStep ==
  ASSUME IndInv, NEW h \in Gigs, StoreGig(h), NEW g \in Gigs
  PROVE  Stored(g)' /\ Copied(g)' /\ Single(g)'
<1>1. /\ ~gigs[h].exists /\ gigs' = [gigs EXCEPT ![h] = New] /\ unlisted' = unlisted \cup {h}
      /\ UNCHANGED <<index, visible, gigOf, pc, snap, counted, tangled, faults>>
  BY DEF StoreGig, calls
<1>2. Stored(g) /\ Copied(g) /\ Single(g)
  BY DEF IndInv, GigInv
<1>3. CountedOf(g)' = CountedOf(g) /\ Writers(g)' = Writers(g)
  BY <1>1 DEF CountedOf, Writers
<1>4. CASE g = h
  <2>1. gigs'[g] = New /\ gigs'[g].exists
    BY <1>1, <1>4, NewIs DEF IndInv, TypeOK
  <2>2. CountedOf(g) = {}
    BY <1>1, <1>2, <1>4 DEF Stored
  <2>3. Writers(g) = {}
    <3>1. \A r \in Reviews : gigOf[r] = g /\ pc[r] = "index" => gigs[g].exists
      BY DEF IndInv, CallInv, Fresh, Calls
    <3> QED
      BY <1>1, <1>4, <3>1 DEF Writers
  <2> QED
    BY <1>1, <1>2, <1>3, <1>4, <2>1, <2>2, <2>3, NewIs DEF Stored, Copied, Single
<1>5. CASE g # h
  <2>1. gigs'[g] = gigs[g]
    BY <1>1, <1>5 DEF IndInv, TypeOK
  <2> QED
    BY <1>1, <1>2, <1>3, <1>5, <2>1 DEF Stored, Copied, Single
<1> QED
  BY <1>4, <1>5

LEMMA ListStep ==
  ASSUME IndInv, NEW h \in Gigs, ListGig(h), NEW g \in Gigs
  PROVE  Stored(g)' /\ Copied(g)' /\ Single(g)'
<1>1. /\ h \in unlisted /\ unlisted' = unlisted \ {h}
      /\ UNCHANGED <<gigs, visible, gigOf, pc, snap, counted, tangled>>
  BY DEF ListGig, calls
<1>2. Stored(g) /\ Copied(g) /\ Single(g)
  BY DEF IndInv, GigInv
<1>3. CountedOf(g)' = CountedOf(g) /\ Writers(g)' = Writers(g)
  BY <1>1 DEF CountedOf, Writers
<1>4. CASE index' = [index EXCEPT ![h] = New] /\ UNCHANGED faults
  <2>1. CASE g = h
    <3>1. index'[g] = New
      BY <1>4, <2>1 DEF IndInv, TypeOK
    <3>2. Stored(g)' /\ Copied(g)'
      BY <1>1, <1>2, <1>3, <3>1, TallyEarned DEF Stored, Copied
    <3>3. Single(g)'
      BY <1>1, <1>2, <1>3, <1>4, <2>1, <3>1 DEF Single
    <3> QED
      BY <3>2, <3>3
  <2>2. CASE g # h
    <3>1. index'[g] = index[g]
      BY <1>4, <2>2 DEF IndInv, TypeOK
    <3> QED
      BY <1>1, <1>2, <1>3, <1>4, <2>2, <3>1 DEF Stored, Copied, Single
  <2> QED
    BY <2>1, <2>2
<1>5. CASE Fault /\ UNCHANGED index
  <2>1. faults' # 0
    BY <1>5 DEF Fault, IndInv, TypeOK
  <2> QED
    BY <1>1, <1>2, <1>3, <1>5, <2>1, GigFails
<1> QED
  BY <1>4, <1>5 DEF ListGig

LEMMA IncStep ==
  ASSUME IndInv, NEW r \in Reviews, IncRatings(r), NEW g \in Gigs
  PROVE  Stored(g)' /\ Copied(g)' /\ Single(g)'
<1> DEFINE h == gigOf[r]
<1>1. /\ gigs' = [gigs EXCEPT ![h] = Rated(gigs[h], r)] /\ counted' = counted \cup {r}
      /\ snap' = [snap EXCEPT ![r] = gigs'[h]]
      /\ tangled' = IF Writers(h) # {} \/ h \in unlisted THEN tangled \cup {h} ELSE tangled
      /\ pc[r] = "inc" /\ pc' = [pc EXCEPT ![r] = "index"]
      /\ UNCHANGED <<index, visible, unlisted, gigOf, faults>>
  BY DEF IncRatings, Goto
<1>2. TypeOK /\ CallInv /\ GigInv /\ Stored(g) /\ Copied(g) /\ Single(g)
  BY DEF IndInv, GigInv
<1>3. /\ Stored(g)' /\ CountedOf(g) \subseteq CountedOf(g)'
      /\ h # g => gigs'[g] = gigs[g] /\ CountedOf(g)' = CountedOf(g)
      /\ h = g => gigs'[g] = Tally(CountedOf(g)') /\ gigs'[g].exists
  BY <1>1, <1>2, Counting
<1>4. /\ Writers(g)' = IF h = g THEN Writers(g) \cup {r} ELSE Writers(g)
      /\ r \notin Writers(g)
      /\ snap'[r] = gigs'[h] /\ \A k \in Reviews : k # r => snap'[k] = snap[k]
  <2>1. \A k \in Reviews : pc'[k] = IF k = r THEN "index" ELSE pc[k]
    BY <1>1, <1>2 DEF TypeOK, Calls
  <2>2. snap'[r] = gigs'[h] /\ \A k \in Reviews : k # r => snap'[k] = snap[k]
    BY <1>1, <1>2 DEF TypeOK
  <2> QED
    BY <1>1, <2>1, <2>2 DEF Writers
<1>5. Writers(g) \subseteq Reviews
  BY DEF Writers
<1> HIDE DEF h
<1>6. Copied(g)'
  <2>1. Earned(index[g], CountedOf(g)') /\ Earned(visible[g], CountedOf(g)')
    BY <1>2, <1>3, EarnedGrows DEF Copied
  <2>2. ASSUME NEW k \in Writers(g)' PROVE Earned(snap'[k], CountedOf(g)')
    <3>1. CASE k = r
      <4>1. h = g
        BY <1>4, <2>2, <3>1
      <4> QED
        BY <1>3, <1>4, <3>1, <4>1, TallyEarned
    <3>2. CASE k # r
      <4>1. k \in Writers(g) /\ k \in Reviews
        BY <1>4, <1>5, <2>2, <3>2
      <4>2. snap'[k] = snap[k] /\ Earned(snap[k], CountedOf(g))
        BY <1>2, <1>4, <3>2, <4>1 DEF Copied
      <4> QED
        BY <1>3, <4>2, EarnedGrows
    <3> QED
      BY <3>1, <3>2
  <2>3. g \in unlisted' => gigs'[g].exists
    BY <1>1, <1>2, <1>3 DEF Copied
  <2> QED
    BY <1>1, <2>1, <2>2, <2>3 DEF Copied
<1>7. Single(g)'
  <2>1. SUFFICES ASSUME faults = 0, g \notin tangled' PROVE Single(g)'
    BY <1>1 DEF Single
  <2>2. CASE h = g
    <3>1. Writers(g) = {} /\ g \notin unlisted /\ g \notin tangled
      BY <1>1, <2>1, <2>2
    <3>2. index[g] = gigs[g]
      BY <1>2, <2>1, <3>1 DEF Single
    <3>3. gigs[g].exists
      BY <1>1, <1>2, <2>2 DEF CallInv, Fresh, Calls, h
    <3>4. Writers(g)' = {r}
      BY <1>4, <2>2, <3>1
    <3> QED
      BY <1>1, <1>4, <2>2, <3>1, <3>2, <3>3, <3>4 DEF Single
  <2>3. CASE h # g
    <3>1. g \notin tangled /\ Writers(g)' = Writers(g) /\ gigs'[g] = gigs[g]
      BY <1>1, <1>3, <1>4, <2>1, <2>3
    <3>2. \A k \in Writers(g) : snap'[k] = snap[k]
      BY <1>4, <1>5
    <3> QED
      BY <1>1, <1>2, <2>1, <3>1, <3>2 DEF Single
  <2> QED
    BY <2>2, <2>3
<1> QED
  BY <1>3, <1>6, <1>7

LEMMA IndexStep ==
  ASSUME IndInv, NEW r \in Reviews, IndexReview(r), NEW g \in Gigs
  PROVE  Stored(g)' /\ Copied(g)' /\ Single(g)'
<1> DEFINE h == gigOf[r]
<1>1. /\ pc[r] = "index" /\ pc' = [pc EXCEPT ![r] = "ok"]
      /\ UNCHANGED <<gigs, visible, unlisted, gigOf, snap, counted, tangled>>
  BY DEF IndexReview, Goto
<1>2. TypeOK /\ Stored(g) /\ Copied(g) /\ Single(g)
  BY DEF IndInv, GigInv
<1>3. CountedOf(g)' = CountedOf(g) /\ Writers(g)' = Writers(g) \ {r}
  BY <1>1, <1>2 DEF CountedOf, Writers, TypeOK, Calls
<1>4. CASE index' = (IF index[h].exists THEN [index EXCEPT ![h] = snap[r]] ELSE index) /\ UNCHANGED faults
  <2>1. CASE h = g
    <3>1. r \in Writers(g)
      BY <1>1, <2>1 DEF Writers
    <3>2. index'[g] = IF index[g].exists THEN snap[r] ELSE index[g]
      BY <1>2, <1>4, <2>1 DEF TypeOK
    <3>3. Stored(g)' /\ Copied(g)'
      BY <1>1, <1>2, <1>3, <3>1, <3>2 DEF Stored, Copied
    <3>4. Single(g)'
      <4>1. SUFFICES ASSUME faults = 0, g \notin tangled PROVE Single(g)'
        BY <1>1, <1>4 DEF Single
      <4>2. snap[r] = gigs[g] /\ index[g].exists /\ Writers(g) = {r}
        BY <1>2, <3>1, <4>1 DEF Single
      <4>3. index'[g] = gigs[g] /\ Writers(g)' = {}
        BY <1>3, <3>2, <4>2
      <4>4. g \notin unlisted
        BY <1>2, <3>1, <4>1 DEF Single
      <4> QED
        BY <1>1, <4>3, <4>4 DEF Single
    <3> QED
      BY <3>3, <3>4
  <2>2. CASE h # g
    <3>1. index'[g] = index[g]
      BY <1>2, <1>4, <2>2 DEF TypeOK
    <3>2. Writers(g)' = Writers(g)
      BY <1>3, <2>2 DEF Writers
    <3> QED
      BY <1>1, <1>2, <1>3, <1>4, <3>1, <3>2 DEF Stored, Copied, Single
  <2> QED
    BY <2>1, <2>2
<1>5. CASE Fault /\ UNCHANGED index
  <2>1. faults' # 0
    BY <1>2, <1>5 DEF Fault, TypeOK
  <2> QED
    BY <1>1, <1>2, <1>3, <1>5, <2>1, GigFails
<1> QED
  BY <1>4, <1>5 DEF IndexReview

LEMMA FailStep ==
  ASSUME IndInv, NEW c \in Calls, CallFails(c), NEW g \in Gigs
  PROVE  Stored(g)' /\ Copied(g)' /\ Single(g)'
<1>1. /\ pc[c] \in {"inc", "gig"} /\ pc' = [pc EXCEPT ![c] = "error"] /\ Fault
      /\ UNCHANGED <<index, visible, unlisted, gigOf, snap, tangled>>
      /\ \/ UNCHANGED <<gigs, counted>>
         \/ /\ pc[c] = "inc" /\ counted' = counted \cup {c}
            /\ gigs' = [gigs EXCEPT ![gigOf[c]] = Rated(gigs[gigOf[c]], c)]
  BY DEF CallFails, Goto
<1>2. TypeOK /\ CallInv /\ GigInv /\ Stored(g) /\ Copied(g) /\ Single(g)
  BY DEF IndInv, GigInv
<1>3. Writers(g)' = Writers(g) /\ faults' # 0
  BY <1>1, <1>2 DEF Writers, TypeOK, Calls, Fault
<1>4. CASE UNCHANGED <<gigs, counted>>
  BY <1>1, <1>2, <1>3, <1>4, GigFails
<1>5. CASE /\ pc[c] = "inc" /\ counted' = counted \cup {c}
           /\ gigs' = [gigs EXCEPT ![gigOf[c]] = Rated(gigs[gigOf[c]], c)]
  <2>1. c \in Reviews
    BY <1>2, <1>5 DEF CallInv, Fresh
  <2>2. /\ Stored(g)' /\ CountedOf(g) \subseteq CountedOf(g)'
        /\ gigOf[c] # g => gigs'[g] = gigs[g]
        /\ gigOf[c] = g => gigs'[g].exists
    BY <1>1, <1>2, <1>5, <2>1, Counting
  <2>3. Copied(g)'
    BY <1>1, <1>2, <1>3, <2>2, EarnedGrows DEF Copied
  <2>4. Single(g)'
    BY <1>3 DEF Single
  <2> QED
    BY <2>2, <2>3, <2>4
<1> QED
  BY <1>1, <1>4, <1>5

LEMMA QuietStep ==
  ASSUME IndInv, NEW g \in Gigs,
         \/ UNCHANGED vars \/ CopyArrives \/ Refresh \/ GigCrash
         \/ \E r \in Reviews : FindReviewed(r)
         \/ \E e \in Edits : FindEditor(e) \/ FindGig(e)
  PROVE  Stored(g)' /\ Copied(g)' /\ Single(g)'
<1>1. TypeOK /\ Stored(g) /\ Copied(g) /\ Single(g)
  BY DEF IndInv, GigInv
<1>2. CASE UNCHANGED vars \/ CopyArrives
  <2>1. /\ UNCHANGED <<gigs, index, visible, snap, tangled, gigOf, counted, unlisted, faults, pc>>
    BY <1>2 DEF vars, docs, calls, CopyArrives
  <2>2. Writers(g)' = Writers(g)
    BY <2>1 DEF Writers
  <2> QED
    BY <1>1, <2>1, <2>2, GigKeeps
<1>3. CASE Refresh
  <2>1. /\ UNCHANGED <<gigs, index, snap, tangled, gigOf, counted, unlisted, faults, pc>>
        /\ visible' = index
    BY <1>3 DEF Refresh, calls
  <2>2. Writers(g)' = Writers(g) /\ CountedOf(g)' = CountedOf(g)
    BY <2>1 DEF Writers, CountedOf
  <2> QED
    BY <1>1, <2>1, <2>2 DEF Stored, Copied, Single
<1>4. CASE GigCrash
  <2>1. /\ UNCHANGED <<gigs, index, visible, snap, tangled, gigOf, counted>>
        /\ unlisted' = {} /\ faults' # 0
    BY <1>1, <1>4 DEF GigCrash, Fault, docs, TypeOK
  <2>2. Writers(g)' \subseteq Writers(g)
    <3>1. \A r \in Reviews : pc'[r] \in {"error", pc[r]}
      BY <1>4 DEF GigCrash, Calls
    <3> QED
      BY <2>1, <3>1 DEF Writers
  <2> QED
    BY <1>1, <2>1, <2>2, GigFails
<1>5. CASE \/ \E r \in Reviews : FindReviewed(r)
           \/ \E e \in Edits : FindEditor(e) \/ FindGig(e)
  <2>1. UNCHANGED <<gigs, index, visible, snap, tangled, gigOf, counted, unlisted, faults>>
    BY <1>5 DEF FindReviewed, FindEditor, FindGig, docs
  <2>2. PICK c \in Calls : /\ pc[c] # "index"
                           /\ \E label \in {"inc", "gig", "error"} : pc' = [pc EXCEPT ![c] = label]
    BY <1>5 DEF FindReviewed, FindEditor, FindGig, Goto, Calls
  <2>3. Writers(g)' = Writers(g)
    BY <1>1, <2>1, <2>2 DEF Writers, TypeOK, Calls
  <2> QED
    BY <1>1, <2>1, <2>3, GigKeeps
<1> QED
  BY <1>2, <1>3, <1>4, <1>5

LEMMA InvStep == IndInv /\ [Next]_vars => IndInv'
<1> SUFFICES ASSUME IndInv, [Next]_vars PROVE IndInv'
  OBVIOUS
<1>1. TypeOK' /\ CallInv'
  BY TypeStep, CallStep DEF IndInv
<1>2. ASSUME NEW g \in Gigs PROVE Stored(g)' /\ Copied(g)' /\ Single(g)'
  BY StoreStep, ListStep, IncStep, IndexStep, FailStep, QuietStep DEF Next
<1> QED
  BY <1>1, <1>2 DEF IndInv, GigInv

LEMMA Inductive == Spec => []IndInv
BY InitInv, InvStep, PTL DEF Spec

(* Every variable of the gig desk keeps its type.                          *)
THEOREM TypeCorrect == Spec => []TypeOK
<1>1. IndInv => TypeOK
  BY DEF IndInv
<1> QED
  BY <1>1, Inductive, PTL

(* However many reviews run side by side and whatever fails, the stored    *)
(* gig holds each once, queries see the tally of some of them, and a gig   *)
(* is top rated after nothing but fives.                                   *)
THEOREM Earnings == Spec => []RatingsAreEarned
<1>1. IndInv => RatingsAreEarned
  <2> SUFFICES ASSUME IndInv, NEW g \in Gigs
               PROVE  /\ gigs[g].exists => gigs[g] = Tally(CountedOf(g))
                      /\ visible[g].exists => \E R \in SUBSET CountedOf(g) : visible[g] = Tally(R)
                      /\ g \in TopRated => \E R \in (SUBSET CountedOf(g)) \ {{}} : \A r \in R : Rating[r] = 5
    BY DEF RatingsAreEarned
  <2>1. Stored(g) /\ Earned(visible[g], CountedOf(g)) /\ CountedOf(g) \in SUBSET Reviews
    BY CountedFacts DEF IndInv, GigInv, Copied
  <2>2. gigs[g].exists => gigs[g] = Tally(CountedOf(g))
    BY <2>1 DEF Stored
  <2>3. visible[g] = NoDocument \/ \E R \in SUBSET CountedOf(g) : visible[g] = Tally(R)
    BY <2>1 DEF Earned
  <2>4. visible[g].exists => \E R \in SUBSET CountedOf(g) : visible[g] = Tally(R)
    BY <2>3, NewIs
  <2>5. ASSUME g \in TopRated
        PROVE  \E R \in (SUBSET CountedOf(g)) \ {{}} : \A r \in R : Rating[r] = 5
    <3>1. visible[g].ratingSum # 0 /\ visible[g].ratingSum = 5 * visible[g].ratingsCount
      BY <2>5 DEF TopRated
    <3>2. visible[g] # NoDocument
      BY <3>1 DEF NoDocument
    <3>3. PICK R \in SUBSET CountedOf(g) : visible[g] = Tally(R)
      BY <2>3, <3>2
    <3>4. R \in SUBSET Reviews /\ Total(R) # 0 /\ Total(R) = 5 * Cardinality(R)
      BY <2>1, <3>1, <3>3, TallyIs
    <3>5. R # {} /\ \A r \in R : Rating[r] = 5
      BY <3>4, TotalFacts, TotalBound
    <3> QED
      BY <3>5
  <2> QED
    BY <2>2, <2>4, <2>5
<1> QED
  BY <1>1, Inductive, PTL

(* Elasticsearch is behind MongoDB only on the way, after two writers met  *)
(* or after a failure.                                                     *)
THEOREM Currency == Spec => []IndexIsCurrent
<1>1. IndInv => IndexIsCurrent
  <2> SUFFICES ASSUME IndInv, NEW g \in Gigs, faults = 0, g \notin tangled, g \notin unlisted,
                      Writers(g) = {}
               PROVE  index[g] = gigs[g]
    BY DEF IndexIsCurrent, IndInv, TypeOK
  <2> QED
    BY DEF IndInv, GigInv, Single
<1> QED
  BY <1>1, Inductive, PTL
=============================================================================
