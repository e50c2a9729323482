---------------------------- MODULE GatewayProofs ----------------------------
(***************************************************************************)
(* Proofs about Gateway, for any sets of requests, accounts and passwords. *)
(***************************************************************************)
EXTENDS Gateway, SequenceTheorems, TLAPS

LEMMA Joined ==
  ASSUME NEW a, NEW b, NEW c
  PROVE  /\ <<a>> \o <<b>> = <<a, b>>
         /\ <<a>> \o <<b, c>> = <<a, b, c>>
         /\ <<a, b>> \o <<c>> = <<a, b, c>>
<1> DEFINE S == {a, b, c}
<1>1. ASSUME NEW s \in Seq(S), NEW t \in Seq(S), NEW u \in Seq(S), Len(u) = Len(s) + Len(t),
             \A i \in 1..Len(u) : u[i] = IF i <= Len(s) THEN s[i] ELSE t[i - Len(s)]
      PROVE  s \o t = u
  <2>1. /\ s \o t \in Seq(S) /\ Len(s \o t) = Len(s) + Len(t)
        /\ \A i \in 1..(Len(s) + Len(t)) : (s \o t)[i] = IF i <= Len(s) THEN s[i] ELSE t[i - Len(s)]
    BY ConcatProperties
  <2>2. \A i \in 1..Len(s \o t) : (s \o t)[i] = u[i]
    BY <1>1, <2>1
  <2> QED
    BY <1>1, <2>1, <2>2, SeqEqual
<1>2. /\ <<a>> \in Seq(S) /\ <<b>> \in Seq(S) /\ <<c>> \in Seq(S)
      /\ <<a, b>> \in Seq(S) /\ <<b, c>> \in Seq(S) /\ <<a, b, c>> \in Seq(S)
  OBVIOUS
<1> HIDE DEF S
<1>3. <<a>> \o <<b>> = <<a, b>>
  <2>1. Len(<<a>>) = 1 /\ Len(<<b>>) = 1 /\ Len(<<a, b>>) = 2
    OBVIOUS
  <2>2. ASSUME NEW i \in 1..2 PROVE <<a, b>>[i] = IF i <= 1 THEN <<a>>[i] ELSE <<b>>[i - 1]
    <3>1. i = 1 \/ i = 2
      OBVIOUS
    <3>2. CASE i = 1
      BY <3>2
    <3>3. CASE i = 2
      BY <3>3
    <3> QED
      BY <3>1, <3>2, <3>3
  <2>3. /\ Len(<<a, b>>) = Len(<<a>>) + Len(<<b>>)
        /\ \A i \in 1..Len(<<a, b>>) :
              <<a, b>>[i] = IF i <= Len(<<a>>) THEN <<a>>[i] ELSE <<b>>[i - Len(<<a>>)]
    BY <2>1, <2>2
  <2> QED
    BY <1>1, <1>2, <2>3
<1>4. <<a>> \o <<b, c>> = <<a, b, c>>
  <2>1. Len(<<a>>) = 1 /\ Len(<<b, c>>) = 2 /\ Len(<<a, b, c>>) = 3
    OBVIOUS
  <2>2. ASSUME NEW i \in 1..3 PROVE <<a, b, c>>[i] = IF i <= 1 THEN <<a>>[i] ELSE <<b, c>>[i - 1]
    <3>1. i = 1 \/ i = 2 \/ i = 3
      OBVIOUS
    <3>2. CASE i = 1
      BY <3>2
    <3>3. CASE i = 2
      BY <3>3
    <3>4. CASE i = 3
      BY <3>4
    <3> QED
      BY <3>1, <3>2, <3>3, <3>4
  <2>3. /\ Len(<<a, b, c>>) = Len(<<a>>) + Len(<<b, c>>)
        /\ \A i \in 1..Len(<<a, b, c>>) :
              <<a, b, c>>[i] = IF i <= Len(<<a>>) THEN <<a>>[i] ELSE <<b, c>>[i - Len(<<a>>)]
    BY <2>1, <2>2
  <2> QED
    BY <1>1, <1>2, <2>3
<1>5. <<a, b>> \o <<c>> = <<a, b, c>>
  <2>1. Len(<<a, b>>) = 2 /\ Len(<<c>>) = 1 /\ Len(<<a, b, c>>) = 3
    OBVIOUS
  <2>2. ASSUME NEW i \in 1..3 PROVE <<a, b, c>>[i] = IF i <= 2 THEN <<a, b>>[i] ELSE <<c>>[i - 2]
    <3>1. i = 1 \/ i = 2 \/ i = 3
      OBVIOUS
    <3>2. CASE i = 1
      BY <3>2
    <3>3. CASE i = 2
      BY <3>3
    <3>4. CASE i = 3
      BY <3>4
    <3> QED
      BY <3>1, <3>2, <3>3, <3>4
  <2>3. /\ Len(<<a, b, c>>) = Len(<<a, b>>) + Len(<<c>>)
        /\ \A i \in 1..Len(<<a, b, c>>) :
              <<a, b, c>>[i] = IF i <= Len(<<a, b>>) THEN <<a, b>>[i] ELSE <<c>>[i - Len(<<a, b>>)]
    BY <2>1, <2>2
  <2> QED
    BY <1>1, <1>2, <2>3
<1> QED
  BY <1>3, <1>4, <1>5

(* The message a route sends, or the first of a login.                     *)
Message(r) == Messages(r)[1]

(* What is particular about the messages that are followed, and about      *)
(* those that may change something.                                        *)
Unsent == {"updateSeller", "getUserBuyerWithUsername"}

Fits(r, m) ==
    /\ Messages(r) = <<m>>
    /\ m \notin {"pipe", "decodeToken", "getUserByCredential", "createToken"}
    /\ m = "createUser" <=> r = "createUser"
    /\ m = "resetPassword" <=> r = "resetPassword"
    /\ Reached(m) = {} \/ \E h : Reached(m) = {h}
    /\ Reached(m) \cap Unsent = {}
    /\ r \in DOMAIN GigSearches => Reached(m) \cap Commands = {}

LEMMA ReachedFacts ==
  ASSUME NEW m
  PROVE  /\ Reached(m) = {} \/ \E h : Reached(m) = {h}
         /\ m \in {"decodeToken", "getUserByCredential", "createToken"}
               => Reached(m) = {m}
         /\ m = "pipe" => Reached(m) = {}
         /\ m \in {"search-gigs", "more-like-this"} => Reached(m) \cap Commands = {}
         /\ m \notin Unsent => Reached(m) \cap Unsent = {}
<1>1. DOMAIN GigController = {"get-inactive-gig-by-user-id", "get-active-gig-by-user-id", "create-gig",
            "delete-gig", "update-gig", "update-gig-status", "search-gigs", "seed-gig"}
  BY DEF GigController
<1>2. CategoryHandlers = {"get_categories", "get_subcategories",
                          "get_all_categories_with_subcategories",
                          "search_categories_and_subcategories"}
  <2>1. DOMAIN CategoryService = {"listCategories", "listSubcategories", "getCategoryTree", "searchCategories"}
    BY DEF CategoryService
  <2>2. /\ CategoryService["listCategories"][1] = "get_categories"
        /\ CategoryService["listSubcategories"][1] = "get_subcategories"
        /\ CategoryService["getCategoryTree"][1] = "get_all_categories_with_subcategories"
        /\ CategoryService["searchCategories"][1] = "search_categories_and_subcategories"
    BY DEF CategoryService
  <2> QED
    BY <2>1, <2>2 DEF CategoryHandlers
<1>3. Reached(m) = {} \/ \E h : Reached(m) = {h}
  BY DEF Reached
<1>4. m \in {"decodeToken", "getUserByCredential", "createToken"} => Reached(m) = {m}
  BY <1>1 DEF Reached, AuthHandlers
<1>5. ASSUME m = "search-gigs" PROVE Reached(m) = {"more-like-this"}
  <2>1. GigController["search-gigs"] = "more-like-this"
    BY DEF GigController
  <2>2. "search-gigs" \notin AuthHandlers \cup SellerHandlers \cup BuyerHandlers \cup CategoryHandlers
    BY <1>2 DEF AuthHandlers, SellerHandlers, BuyerHandlers
  <2>3. "search-gigs" \in DOMAIN GigController
    BY <1>1
  <2> QED
    BY <1>5, <2>1, <2>2, <2>3 DEF Reached
<1>6. m = "more-like-this" => Reached(m) = {}
  BY <1>1, <1>2 DEF Reached, AuthHandlers, SellerHandlers, BuyerHandlers
<1>7. m \notin Unsent => Reached(m) \cap Unsent = {}
  <2>1. \A p \in DOMAIN GigController : GigController[p] \notin Unsent
    BY DEF GigController, Unsent
  <2> QED
    BY <2>1 DEF Reached
<1>8. m = "pipe" => Reached(m) = {}
  BY <1>1, <1>2 DEF Reached, AuthHandlers, SellerHandlers, BuyerHandlers
<1> QED
  BY <1>3, <1>4, <1>5, <1>6, <1>7, <1>8 DEF Commands

(* The routes by service.                                                  *)
LEMMA RouteNames ==
  /\ DOMAIN AuthService = {"getUserByToken", "createUser", "loginUser", "verifyEmail",
         "forgotPassword", "resetPassword", "resetPasswordWithToken", "resendEmail", "seedUser"}
  /\ DOMAIN SearchService = {"searchInAuth"}
  /\ DOMAIN SellerService = {"getSellerById", "createSeller"}
  /\ DOMAIN BuyerService = {"getUserBuyerWithEmail"}
  /\ DOMAIN GigService = {"createGig", "getGigById", "getActiveGigByUserId",
         "getInactiveGigByUserId", "updateGig", "updateStatusGig", "deleteGig"}
  /\ DOMAIN GigSearches = {"searchGigs", "moreLikeThis"}
  /\ DOMAIN CategoryService = {"listCategories", "listSubcategories", "getCategoryTree",
         "searchCategories"}
  /\ DOMAIN Seed = {"seedGig"}
BY DEF AuthService, SearchService, SellerService, BuyerService, GigService, GigSearches,
       CategoryService, Seed

(* A login sends two messages, every other route one.                      *)
LEMMA MessageFacts ==
  ASSUME NEW r \in Routes
  PROVE  IF r = "loginUser" THEN Messages(r) = <<"getUserByCredential", "createToken">>
                            ELSE Fits(r, Message(r))
<1> USE RouteNames
<1>1. CASE r \in DOMAIN AuthService
  <2>1. Messages(r) = AuthService[r]
    BY <1>1 DEF Messages
  <2>2. CASE r = "loginUser"
    BY <2>1, <2>2 DEF AuthService
  <2>3. CASE r = "getUserByToken"
    <3>1. Messages(r) = <<"getUserById">>
      BY <2>1, <2>3 DEF AuthService
    <3>2. Message(r) = "getUserById"
      BY <3>1 DEF Message
    <3> QED
      BY <2>3, <3>1, <3>2, ReachedFacts DEF Fits, Unsent
  <2>4. CASE r \in DOMAIN AuthService \ {"loginUser", "getUserByToken"}
    <3>1. Messages(r) = <<r>>
      BY <2>1, <2>4 DEF AuthService
    <3>2. Message(r) = r
      BY <3>1 DEF Message
    <3> QED
      BY <2>4, <3>1, <3>2, ReachedFacts DEF Fits, Unsent
  <2> QED
    BY <1>1, <2>2, <2>3, <2>4
<1>2. CASE r \in DOMAIN SearchService
  <2>1. Messages(r) = <<"searchGigs">>
    BY <1>2 DEF Messages, SearchService
  <2>2. Message(r) = "searchGigs"
    BY <2>1 DEF Message
  <2> QED
    BY <1>2, <2>1, <2>2, ReachedFacts DEF Fits, Unsent
<1>3. CASE r \in DOMAIN SellerService \cup DOMAIN BuyerService
  <2>1. Messages(r) = <<r>>
    BY <1>3 DEF Messages, SellerService, BuyerService
  <2>2. Message(r) = r
    BY <2>1 DEF Message
  <2> QED
    BY <1>3, <2>1, <2>2, ReachedFacts DEF Fits, Unsent
<1>4. CASE r \in DOMAIN GigService
  <2>1. Messages(r) = GigService[r]
    BY <1>4 DEF Messages
  <2>2. PICK m \in {"more-like-this", "get-inactive-gig-by-user-id", "update-gig",
                  "update-gig-status", "delete-gig"} : Messages(r) = <<m>>
    BY <1>4, <2>1 DEF GigService
  <2>3. Message(r) = m
    BY <2>2 DEF Message
  <2> QED
    BY <1>4, <2>2, <2>3, ReachedFacts DEF Fits, Unsent
<1>5. CASE r \in DOMAIN GigSearches
  <2>1. \E m \in {"search-gigs", "more-like-this"} : Messages(r) = <<m>>
    BY <1>5 DEF Messages, GigSearches
  <2> QED
    BY <1>5, <2>1, ReachedFacts DEF Fits, Message, Unsent
<1>6. CASE r \in DOMAIN CategoryService
  <2>1. Messages(r) = CategoryService[r]
    BY <1>6 DEF Messages
  <2>2. PICK m \in {"get_categories", "get_subcategories", "get_all_categories_with_subcategories",
                  "search_categories_and_subcategories"} : Messages(r) = <<m>>
    BY <1>6, <2>1 DEF CategoryService
  <2>3. Message(r) = m
    BY <2>2 DEF Message
  <2> QED
    BY <1>6, <2>2, <2>3, ReachedFacts DEF Fits, Unsent
<1>7. CASE r \in DOMAIN Seed
  <2>1. Messages(r) = <<"seed-gig">>
    BY <1>7 DEF Messages, Seed
  <2>2. Message(r) = "seed-gig"
    BY <2>1 DEF Message
  <2> QED
    BY <1>7, <2>1, <2>2, ReachedFacts DEF Fits, Unsent
<1> QED
  BY <1>1, <1>2, <1>3, <1>4, <1>5, <1>6, <1>7 DEF Routes, AuthRoutes, UserRoutes, GigRoutes

(* What a request carries: the words of a password are there when the form *)
(* is good, a picture only when it signs up.                               *)
LEMMA BodyFacts ==
  ASSUME NEW r, NEW b \in Bodies(r)
  PROVE  /\ b.word \in Words \cup {NoWord} /\ b.account \in Accounts \cup {Nobody}
         /\ b.good /\ r \in {"loginUser", "createUser"} => b.word \in Words /\ b.account \in Accounts
         /\ b.good /\ r = "resetPassword" => b.word \in Words
         /\ b.picture => r = "createUser"
<1>1. LET bad == [Blank EXCEPT !.good = FALSE]
      IN bad.account = Nobody /\ bad.word = NoWord /\ ~bad.good /\ ~bad.picture
  BY DEF Blank
<1>2. CASE r = "loginUser"
  BY <1>1, <1>2 DEF Bodies, Named
<1>3. CASE r = "createUser"
  BY <1>1, <1>3 DEF Bodies, Named
<1>4. CASE r = "resetPassword"
  BY <1>1, <1>4 DEF Bodies, Blank
<1>5. CASE r \notin {"loginUser", "createUser", "resetPassword"}
  BY <1>1, <1>5 DEF Bodies, Blank
<1> QED
  BY <1>2, <1>3, <1>4, <1>5
-----------------------------------------------------------------------------
(* What the gateway may still have to do for a request of route r.         *)
Left(r) == IF r = "loginUser"
           THEN {<<"pipe", "getUserByCredential", "createToken">>,
                 <<"getUserByCredential", "createToken">>, <<"createToken">>}
           ELSE {<<"decodeToken", "pipe", Message(r)>>, <<"pipe", Message(r)>>, <<Message(r)>>}

LEMMA MessageTyped ==
  ASSUME NEW r \in Routes
  PROVE  IF r = "loginUser" THEN {"getUserByCredential", "createToken"} \subseteq Tasks
                            ELSE Message(r) \in Tasks
<1>1. \A i \in DOMAIN Messages(r) : Messages(r)[i] \in Tasks
  BY DEF Tasks
<1>2. CASE r = "loginUser"
  <2>1. Messages(r) = <<"getUserByCredential", "createToken">>
    BY <1>2, MessageFacts
  <2>2. /\ 1 \in DOMAIN Messages(r) /\ Messages(r)[1] = "getUserByCredential"
        /\ 2 \in DOMAIN Messages(r) /\ Messages(r)[2] = "createToken"
    BY <2>1
  <2> QED
    BY <1>1, <1>2, <2>2
<1>3. CASE r # "loginUser"
  <2>1. Messages(r) = <<Message(r)>>
    BY <1>3, MessageFacts DEF Fits
  <2>2. 1 \in DOMAIN Messages(r)
    BY <2>1
  <2> QED
    BY <1>1, <1>3, <2>2 DEF Message
<1> QED
  BY <1>2, <1>3

LEMMA OneLeft == \A n \in Nat \ {0} : n > 1 <=> n # 1
OBVIOUS

LEMMA LoginLeft ==
  ASSUME NEW r \in Routes, r = "loginUser", NEW t \in Left(r)
  PROVE  /\ t \in Seq(Tasks) /\ Head(t) \in Tasks /\ Len(t) \in Nat \ {0}
         /\ Len(t) > 1 => Tail(t) \in Left(r) /\ Tail(t) \in Seq(Tasks)
         /\ Head(t) \in {"pipe", "getUserByCredential", "createToken"}
         /\ (Head(t) = "createToken") <=> (Len(t) = 1)
         /\ Head(t) = "getUserByCredential" => Head(Tail(t)) = "createToken"
         /\ Head(t) = "pipe" => Head(Tail(t)) = "getUserByCredential"
<1>0. {"pipe", "getUserByCredential", "createToken"} \subseteq Tasks
  BY MessageTyped DEF Tasks
<1>1. CASE t = <<"pipe", "getUserByCredential", "createToken">>
  <2>1. /\ Head(t) = "pipe" /\ Len(t) = 3 /\ t \in Seq(Tasks)
        /\ Tail(t) = <<"getUserByCredential", "createToken">> /\ Tail(t) \in Seq(Tasks)
        /\ Head(Tail(t)) = "getUserByCredential"
    BY <1>0, <1>1
  <2> QED
    BY <1>0, <2>1 DEF Left
<1>2. CASE t = <<"getUserByCredential", "createToken">>
  <2>1. /\ Head(t) = "getUserByCredential" /\ Len(t) = 2 /\ t \in Seq(Tasks)
        /\ Tail(t) = <<"createToken">> /\ Tail(t) \in Seq(Tasks)
        /\ Head(Tail(t)) = "createToken"
    BY <1>0, <1>2
  <2> QED
    BY <1>0, <2>1 DEF Left
<1>3. CASE t = <<"createToken">>
  <2>1. Head(t) = "createToken" /\ Len(t) = 1 /\ t \in Seq(Tasks)
    BY <1>0, <1>3
  <2> QED
    BY <1>0, <2>1
<1> QED
  BY <1>1, <1>2, <1>3 DEF Left

LEMMA SingleLeft ==
  ASSUME NEW r \in Routes, r # "loginUser", NEW t \in Left(r)
  PROVE  /\ t \in Seq(Tasks) /\ Head(t) \in Tasks /\ Len(t) \in Nat \ {0}
         /\ Len(t) > 1 => Tail(t) \in Left(r) /\ Tail(t) \in Seq(Tasks)
         /\ Head(t) \in {"decodeToken", "pipe", Message(r)}
         /\ (Head(t) = Message(r)) <=> (Len(t) = 1)
         /\ Head(t) = "decodeToken" => Head(Tail(t)) = "pipe"
<1> DEFINE m == Message(r)
<1>0. m \in Tasks /\ m \notin {"pipe", "decodeToken"} /\ {"pipe", "decodeToken"} \subseteq Tasks
  BY MessageTyped, MessageFacts DEF Fits, Tasks
<1> HIDE DEF m
<1>1. CASE t = <<"decodeToken", "pipe", m>>
  <2>1. /\ Head(t) = "decodeToken" /\ Len(t) = 3 /\ t \in Seq(Tasks)
        /\ Tail(t) = <<"pipe", m>> /\ Tail(t) \in Seq(Tasks) /\ Head(Tail(t)) = "pipe"
    BY <1>0, <1>1
  <2> QED
    BY <1>0, <2>1 DEF Left, m
<1>2. CASE t = <<"pipe", m>>
  <2>1. /\ Head(t) = "pipe" /\ Len(t) = 2 /\ t \in Seq(Tasks)
        /\ Tail(t) = <<m>> /\ Tail(t) \in Seq(Tasks)
    BY <1>0, <1>2
  <2> QED
    BY <1>0, <2>1 DEF Left, m
<1>3. CASE t = <<m>>
  <2>1. Head(t) = m /\ Len(t) = 1 /\ t \in Seq(Tasks)
    BY <1>0, <1>3
  <2> QED
    BY <1>0, <2>1 DEF m
<1> QED
  BY <1>1, <1>2, <1>3 DEF Left, m

(* Either way: the pipe is not the last task, and what follows a message   *)
(* that was sent is the second one of a login.                             *)
LEMMA LeftFacts ==
  ASSUME NEW r \in Routes, NEW t \in Left(r)
  PROVE  /\ t \in Seq(Tasks) /\ Head(t) \in Tasks /\ Len(t) \in Nat \ {0}
         /\ Len(t) > 1 => Tail(t) \in Left(r) /\ Tail(t) \in Seq(Tasks)
         /\ Head(t) \in {"pipe", "decodeToken"} => Len(t) > 1
<1>1. CASE r = "loginUser"
  <2>1. /\ t \in Seq(Tasks) /\ Head(t) \in Tasks /\ Len(t) \in Nat \ {0}
        /\ Len(t) > 1 => Tail(t) \in Left(r) /\ Tail(t) \in Seq(Tasks)
        /\ (Head(t) = "createToken") <=> (Len(t) = 1)
    BY <1>1, LoginLeft
  <2>2. ASSUME Head(t) \in {"pipe", "decodeToken"} PROVE Len(t) # 1
    BY <2>1, <2>2
  <2> QED
    BY <2>1, <2>2, OneLeft
<1>2. CASE r # "loginUser"
  <2>1. Message(r) \notin {"pipe", "decodeToken"}
    BY <1>2, MessageFacts DEF Fits
  <2>2. /\ t \in Seq(Tasks) /\ Head(t) \in Tasks /\ Len(t) \in Nat \ {0}
        /\ Len(t) > 1 => Tail(t) \in Left(r) /\ Tail(t) \in Seq(Tasks)
        /\ (Head(t) = Message(r)) <=> (Len(t) = 1)
    BY <1>2, SingleLeft
  <2> QED
    BY <2>1, <2>2, OneLeft
<1> QED
  BY <1>1, <1>2

LEMMA WorkFacts ==
  ASSUME NEW r \in Routes
  PROVE  Work(r) \in Left(r) /\ Head(Work(r)) \in {"pipe", "decodeToken"}
<1>1. CASE r = "loginUser"
  <2>1. r \notin Guarded
    BY <1>1, RouteNames DEF Guarded, AuthGuarded, UserRoutes, GigGuarded
  <2>2. Work(r) = <<>> \o <<"pipe">> \o <<"getUserByCredential", "createToken">>
    BY <1>1, <2>1, MessageFacts DEF Work
  <2>3. Work(r) = <<"pipe", "getUserByCredential", "createToken">>
    <3>1. <<>> \o <<"pipe">> = <<"pipe">>
      OBVIOUS
    <3>2. <<"pipe">> \o <<"getUserByCredential", "createToken">> = <<"pipe", "getUserByCredential", "createToken">>
      BY Joined
    <3> QED
      BY <2>2, <3>1, <3>2
  <2> QED
    BY <1>1, <2>3 DEF Left
<1>2. CASE r # "loginUser" /\ r \in Guarded
  <2>1. Work(r) = <<"decodeToken">> \o <<"pipe">> \o <<Message(r)>>
    BY <1>2, MessageFacts DEF Work, Fits
  <2>2. Work(r) = <<"decodeToken", "pipe", Message(r)>>
    <3>1. <<"decodeToken">> \o <<"pipe">> = <<"decodeToken", "pipe">>
      BY Joined
    <3>2. <<"decodeToken", "pipe">> \o <<Message(r)>> = <<"decodeToken", "pipe", Message(r)>>
      BY Joined
    <3> QED
      BY <2>1, <3>1, <3>2
  <2> QED
    BY <1>2, <2>2 DEF Left
<1>3. CASE r # "loginUser" /\ r \notin Guarded
  <2>1. Work(r) = <<>> \o <<"pipe">> \o <<Message(r)>>
    BY <1>3, MessageFacts DEF Work, Fits
  <2>2. Work(r) = <<"pipe", Message(r)>>
    <3>1. <<>> \o <<"pipe">> = <<"pipe">>
      OBVIOUS
    <3>2. <<"pipe">> \o <<Message(r)>> = <<"pipe", Message(r)>>
      BY Joined
    <3> QED
      BY <2>1, <3>1, <3>2
  <2> QED
    BY <1>3, <2>2 DEF Left
<1> QED
  BY <1>1, <1>2, <1>3

-----------------------------------------------------------------------------
(* The codes services reply with, and what the filter makes of them.       *)
Codes == {"OK", "UNAUTHENTICATED", "NOT_FOUND", "ALREADY_EXISTS", "UNKNOWN", "INTERNAL",
          "UNAVAILABLE", "none"}

Refused == {"UNAUTHENTICATED", "NOT_FOUND", "ALREADY_EXISTS"}

Unexpected == {"UNKNOWN", "INTERNAL", "none"}

LEMMA StatusFacts ==
  ASSUME NEW c \in Codes \ {"OK"}, NEW r
  PROVE  /\ c \in DOMAIN HttpStatus \cup {"none"}
         /\ FilterStatus(c) \in {401, 404, 409, 500, 502}
         /\ FilterStatus(c) = 404 => c \in {"NOT_FOUND", "UNAVAILABLE"}
         /\ c \in Unexpected => FilterStatus(c) \in {500, 502}
         /\ Status(r, c) \in {400, 401, 404, 409, 500, 502}
         /\ r \notin DOMAIN GigSearches /\ c \in Unexpected => Status(r, c) \in {500, 502}
         /\ r \in {"loginUser", "createUser"} => Status(r, c) = FilterStatus(c)
         /\ FilterStatus("ALREADY_EXISTS") = 409 /\ FilterStatus("INTERNAL") = 500
<1>1. DOMAIN HttpStatus = {"OK", "CANCELLED", "UNKNOWN", "INVALID_ARGUMENT", "DEADLINE_EXCEEDED",
          "NOT_FOUND", "ALREADY_EXISTS", "PERMISSION_DENIED", "RESOURCE_EXHAUSTED",
          "FAILED_PRECONDITION", "ABORTED", "OUT_OF_RANGE", "UNIMPLEMENTED", "INTERNAL",
          "UNAVAILABLE", "DATA_LOSS", "UNAUTHENTICATED"}
  BY DEF HttpStatus
<1>2. /\ HttpStatus["UNAUTHENTICATED"] = 401 /\ HttpStatus["NOT_FOUND"] = 404
      /\ HttpStatus["ALREADY_EXISTS"] = 409 /\ HttpStatus["UNKNOWN"] = 502
      /\ HttpStatus["INTERNAL"] = 500 /\ HttpStatus["UNAVAILABLE"] = 404
  BY DEF HttpStatus
<1>3. c \in DOMAIN HttpStatus \cup {"none"}
  BY <1>1 DEF Codes
<1>4. /\ FilterStatus(c) \in {401, 404, 409, 500, 502}
      /\ FilterStatus(c) = 404 => c \in {"NOT_FOUND", "UNAVAILABLE"}
      /\ c \in Unexpected => FilterStatus(c) \in {500, 502}
  BY <1>1, <1>2 DEF FilterStatus, Codes, Unexpected
<1>5. Status(r, c) \in {400, 500, FilterStatus(c)}
  BY DEF Status
<1>6. r \notin DOMAIN GigSearches => Status(r, c) \in {500, FilterStatus(c)}
  BY DEF Status
<1>7. r \in {"loginUser", "createUser"} => Status(r, c) = FilterStatus(c)
  BY RouteNames DEF Status
<1>8. FilterStatus("ALREADY_EXISTS") = 409 /\ FilterStatus("INTERNAL") = 500
  BY <1>1, <1>2 DEF FilterStatus
<1> QED
  BY <1>3, <1>4, <1>5, <1>6, <1>7, <1>8

(* How the handlers refuse and fail.                                       *)
LEMMA EndFacts ==
  ASSUME NEW h
  PROVE  /\ Refusals(h) \subseteq Refused /\ Refusals("createToken") = {}
         /\ Failure(h) \in Unexpected /\ Failure("createUser") = "INTERNAL"
BY DEF Refusals, Refused, Failure, Unexpected

-----------------------------------------------------------------------------
(* A request that is under way: what is left of its work, and where it     *)
(* stands in it.  Nothing but the pipe and the guard comes before its form *)
(* is known to be good.                                                    *)
Busy(q) == pc[q] \notin {"idle", "answered"}

UnderWay(q) ==
    Busy(q) => /\ route[q] \in Routes /\ body[q] \in Bodies(route[q])
               /\ todo[q] \in Left(route[q])
               /\ pc[q] = "ready" \/ Task(q) # "pipe"
               /\ Task(q) \notin {"pipe", "decodeToken"} => body[q].good
               /\ pc[q] = "found" => Task(q) \in {"getUserByCredential", "resetPassword"}
               /\ pc[q] = "uploaded" => Task(q) = "createUser"
               /\ pc[q] = "written" => Reached(Task(q)) \cap Commands # {} /\ q \in wrote
               /\ pc[q] = "replied" => reply[q] \in Codes
               /\ pc[q] = "replied" /\ reply[q] = "UNAVAILABLE" => q \in cut

(* A command that ran has changed something, or is still running, or has   *)
(* failed.                                                                 *)
Obeyed(q) == \A h \in ran[q] \cap Commands :
                 \/ q \in wrote
                 \/ pc[q] \in Working /\ h \in Reached(Task(q))
                 \/ pc[q] = "replied" /\ reply[q] # "OK"
                 \/ pc[q] = "hung"
                 \/ pc[q] = "answered" /\ answer[q] # 200

(* A request that changed something and met no dead service has nothing    *)
(* left to do, and its client is not told that it was refused.             *)
Admitted(q) == q \in wrote =>
    \/ q \in cut
    \/ pc[q] = "written"
    \/ /\ pc[q] = "replied" /\ reply[q] \in {"OK"} \cup Unexpected /\ Len(todo[q]) = 1
       /\ route[q] \notin {"loginUser"} \cup DOMAIN GigSearches
    \/ pc[q] = "answered" /\ answer[q] \in {200, 500, 502}

(* A picture in S3 belongs to a sign-up, which is not told anything else   *)
(* than that it succeeded, that its address exists or that it failed; and  *)
(* a sign-up that succeeds has stored its picture.                         *)
Pictured(q) ==
    /\ q \in avatars =>
          \/ q \in cut
          \/ /\ Task(q) = "createUser"
             /\ \/ pc[q] \in {"uploaded", "written"}
                \/ pc[q] = "replied" /\ reply[q] \in {"OK", "ALREADY_EXISTS", "INTERNAL"}
          \/ pc[q] = "answered" /\ answer[q] \in {200, 409, 500}
    /\ body[q].picture =>
          /\ pc[q] \in {"uploaded", "written"} => q \in avatars
          /\ pc[q] = "replied" /\ Task(q) = "createUser" /\ reply[q] = "OK" => q \in avatars
          /\ Got(q, 200) => q \in avatars

Unstarted(q) == pc[q] = "idle" => ran[q] = {} /\ q \notin wrote \cup avatars

(* The word of a login against the passwords of the account meanwhile.     *)
Right(q) == body[q].exact /\ body[q].word \in valid[q]
Wrong(q) == q \in cut \/ ~body[q].exact \/ \E w \in valid[q] : w # body[q].word

Judged(q) == route[q] = "loginUser" /\ pc[q] # "idle" =>
    /\ pc[q] # "answered" /\ body[q].good => password[body[q].account] \in valid[q]
    /\ pc[q] = "found" => body[q].exact /\ row[q] \in valid[q]
    /\ Busy(q) /\ Task(q) = "createToken" => Right(q)
    /\ pc[q] = "replied" /\ Task(q) = "getUserByCredential" /\ reply[q] = "OK" => Right(q)
    /\ pc[q] = "replied" /\ reply[q] = "NOT_FOUND" => Wrong(q)
    /\ Got(q, 200) => Right(q)
    /\ Got(q, 404) => Wrong(q)

Sound(q) == /\ UnderWay(q) /\ Obeyed(q) /\ Admitted(q) /\ Pictured(q)
            /\ Unstarted(q) /\ Judged(q)

IndInv == TypeOK /\ \A q \in Requests : Sound(q)

(* A step of another request leaves this one alone, but for the passwords  *)
(* it may be judged by.                                                    *)
LEMMA OthersKeep ==
  ASSUME NEW q \in Requests, Sound(q),
         route'[q] = route[q], body'[q] = body[q], pc'[q] = pc[q], todo'[q] = todo[q],
         reply'[q] = reply[q], answer'[q] = answer[q], ran'[q] = ran[q], row'[q] = row[q],
         q \in wrote' <=> q \in wrote, q \in avatars' <=> q \in avatars, q \in cut' <=> q \in cut,
         valid[q] \subseteq valid'[q],
         Busy(q) /\ body[q].good /\ route[q] = "loginUser" /\ password[body[q].account] \in valid[q]
            => password'[body[q].account] \in valid'[q]
  PROVE  Sound(q)'
<1> USE DEF Sound
<1>1. Task(q)' = Task(q) /\ Busy(q)' = Busy(q)
  BY DEF Task, Busy
<1>2. UnderWay(q)'
  BY <1>1 DEF UnderWay, Bodies, Registered
<1>3. Obeyed(q)'
  BY <1>1 DEF Obeyed
<1>4. Admitted(q)'
  BY DEF Admitted
<1>5. Unstarted(q)'
  BY DEF Unstarted
<1>6. Judged(q)'
  BY <1>1 DEF Judged, Right, Wrong, Got, Busy
<1>7. Pictured(q)'
  BY <1>1 DEF Pictured, Got
<1> QED
  BY <1>2, <1>3, <1>4, <1>5, <1>6, <1>7

LEMMA InitSound == Init => IndInv
<1> SUFFICES ASSUME Init PROVE IndInv
  OBVIOUS
<1>1. <<>> \in Seq(Tasks)
  OBVIOUS
<1>2. TypeOK
  BY <1>1 DEF Init, TypeOK
<1>3. ASSUME NEW q \in Requests PROVE Sound(q)
  <2>1. pc[q] = "idle" /\ ran[q] = {} /\ wrote = {} /\ avatars = {}
    BY <1>3 DEF Init
  <2> QED
    BY <2>1 DEF Sound, UnderWay, Busy, Obeyed, Admitted, Pictured, Unstarted, Judged, Got
<1> QED
  BY <1>2, <1>3 DEF IndInv

(* What is left of a request that is busy, and the commands among it.      *)
LEMMA BusyFacts ==
  ASSUME TypeOK, NEW q \in Requests, UnderWay(q), Busy(q)
  PROVE  /\ route[q] \in Routes /\ body[q] \in Bodies(route[q]) /\ todo[q] \in Left(route[q])
         /\ Task(q) \in Tasks
         /\ Reached(Task(q)) = {} \/ \E h : Reached(Task(q)) = {h}
         /\ Reached(Task(q)) \cap Unsent = {}
         /\ Reached(Task(q)) \cap Commands # {} =>
               Len(todo[q]) = 1 /\ route[q] \notin {"loginUser"} \cup DOMAIN GigSearches
         /\ Task(q) = "createUser" => route[q] = "createUser"
         /\ route[q] = "createUser" => Task(q) \in {"decodeToken", "pipe", "createUser"}
         /\ Task(q) = "resetPassword" => route[q] = "resetPassword"
         /\ Task(q) = "getUserByCredential" => route[q] = "loginUser"
<1>1. /\ route[q] \in Routes /\ body[q] \in Bodies(route[q]) /\ todo[q] \in Left(route[q])
  BY DEF UnderWay
<1>2. CASE route[q] = "loginUser"
  <2>1. Task(q) \in {"pipe", "getUserByCredential", "createToken"} /\ Task(q) \in Tasks
    BY <1>1, <1>2, LoginLeft DEF Task
  <2>2. Reached("pipe") \cap Commands = {}
    <3>1. Reached("pipe") = {}
      BY ReachedFacts
    <3> QED
      BY <3>1
  <2> QED
    BY <1>1, <1>2, <2>1, <2>2, ReachedFacts DEF Commands, Unsent
<1>3. CASE route[q] # "loginUser"
  <2>1. /\ Task(q) \in {"decodeToken", "pipe", Message(route[q])} /\ Task(q) \in Tasks
        /\ Task(q) = Message(route[q]) => Len(todo[q]) = 1
    BY <1>1, <1>3, SingleLeft DEF Task
  <2>2. Fits(route[q], Message(route[q]))
    BY <1>1, <1>3, MessageFacts
  <2>3. Reached("pipe") = {} /\ Reached("decodeToken") = {"decodeToken"}
    BY ReachedFacts
  <2>4. CASE Task(q) \in {"pipe", "decodeToken"}
    BY <1>1, <2>1, <2>3, <2>4 DEF Commands, Unsent
  <2>5. CASE Task(q) = Message(route[q])
    BY <1>1, <1>3, <2>1, <2>2, <2>5 DEF Fits
  <2> QED
    BY <2>1, <2>4, <2>5
<1> QED
  BY <1>2, <1>3
-----------------------------------------------------------------------------
(* Every variable keeps its type.                                          *)
LEMMA AnswerTyped ==
  ASSUME TypeOK, NEW q \in Requests, NEW status \in {200, 400, 401, 404, 409, 500, 502},
         Answer(q, status)
  PROVE  /\ pc' \in [Requests -> Working \cup {"idle", "ready", "replied", "hung", "answered"}]
         /\ answer' \in [Requests -> {0, 200, 400, 401, 404, 409, 500, 502}]
         /\ todo' \in [Requests -> Seq(Tasks)]
         /\ reply' \in [Requests -> DOMAIN HttpStatus \cup {"none"}]
         /\ row' \in [Requests -> Words \cup {NoWord}]
         /\ \A k \in Requests : answer'[k] # 0 <=> pc'[k] = "answered"
         /\ pc'[q] = "answered" /\ answer'[q] = status
<1>1. <<>> \in Seq(Tasks)
  OBVIOUS
<1> QED
  BY <1>1 DEF Answer, Goto, TypeOK

LEMMA ReplyTyped ==
  ASSUME TypeOK, NEW q \in Requests, Busy(q), NEW code \in Codes, Reply(q, code), answer' = answer
  PROVE  /\ pc' \in [Requests -> Working \cup {"idle", "ready", "replied", "hung", "answered"}]
         /\ reply' \in [Requests -> DOMAIN HttpStatus \cup {"none"}]
         /\ \A k \in Requests : answer'[k] # 0 <=> pc'[k] = "answered"
         /\ pc'[q] = "replied" /\ reply'[q] = code
<1>1. code \in DOMAIN HttpStatus \cup {"none"}
  BY DEF Codes, HttpStatus
<1> QED
  BY <1>1 DEF Reply, Goto, TypeOK, Busy

LEMMA SetTyped ==
  ASSUME TypeOK, NEW a, NEW w \in Words, SetPassword(a, w)
  PROVE  /\ password' \in [Accounts -> Words \cup {NoWord}]
         /\ valid' \in [Requests -> SUBSET (Words \cup {NoWord})]
<1>1. \A k \in Requests : valid[k] \in SUBSET (Words \cup {NoWord})
                           /\ valid[k] \cup {w} \in SUBSET (Words \cup {NoWord})
  BY DEF TypeOK
<1>2. \A k \in Requests : valid'[k] \in {valid[k], valid[k] \cup {w}}
  BY DEF SetPassword
<1>3. valid' \in [Requests -> SUBSET (Words \cup {NoWord})]
  <2>1. valid' = [k \in Requests |-> valid'[k]]
    BY DEF SetPassword
  <2> QED
    BY <1>1, <1>2, <2>1
<1> QED
  BY <1>3 DEF SetPassword, TypeOK

LEMMA ArriveTyped == ASSUME TypeOK, NEW q \in Requests, Arrive(q) PROVE TypeOK'
<1>r. PICK r \in Routes : \E b \in Bodies(r) :
          /\ route' = [route EXCEPT ![q] = r] /\ body' = [body EXCEPT ![q] = b]
          /\ valid' = IF r = "loginUser" /\ b.good
                      THEN [valid EXCEPT ![q] = {password[b.account]}] ELSE valid
          /\ IF r \in Guarded /\ jar = Nobody
             THEN Answer(q, 401)
             ELSE /\ Goto(q, "ready") /\ UNCHANGED <<reply, answer, row>>
                  /\ todo' = [todo EXCEPT ![q] = Work(r)]
  BY DEF Arrive
<1>1. PICK b \in Bodies(r) :
          /\ route' = [route EXCEPT ![q] = r] /\ body' = [body EXCEPT ![q] = b]
          /\ valid' = IF r = "loginUser" /\ b.good
                      THEN [valid EXCEPT ![q] = {password[b.account]}] ELSE valid
          /\ \/ Answer(q, 401)
             \/ /\ Goto(q, "ready") /\ UNCHANGED <<reply, answer, row>>
                /\ todo' = [todo EXCEPT ![q] = Work(r)]
  BY <1>r
<1>2. /\ pc[q] = "idle" /\ who' = [who EXCEPT ![q] = jar]
      /\ UNCHANGED <<ran, wrote, avatars, cut, password, jar>>
  BY DEF Arrive, store
<1>3. /\ route' \in [Requests -> Routes \cup {"none"}]
      /\ body' \in [Requests -> {Blank} \cup UNION {Bodies(k) : k \in Routes}]
      /\ who' \in [Requests -> Accounts \cup {Nobody, Garbled}]
  BY <1>1, <1>2 DEF TypeOK
<1>4. valid' \in [Requests -> SUBSET (Words \cup {NoWord})]
  <2>1. r = "loginUser" /\ b.good => password[b.account] \in Words \cup {NoWord}
    BY BodyFacts DEF TypeOK
  <2> QED
    BY <1>1, <2>1 DEF TypeOK
<1>5. CASE Answer(q, 401)
  BY <1>2, <1>3, <1>4, <1>5, AnswerTyped DEF TypeOK
<1>6. CASE /\ Goto(q, "ready") /\ UNCHANGED <<reply, answer, row>>
           /\ todo' = [todo EXCEPT ![q] = Work(r)]
  <2>1. Work(r) \in Seq(Tasks)
    BY WorkFacts, LeftFacts
  <2> QED
    BY <1>2, <1>3, <1>4, <1>6, <2>1 DEF Goto, TypeOK
<1> QED
  BY <1>1, <1>5, <1>6

LEMMA PipeTyped == ASSUME TypeOK, NEW q \in Requests, UnderWay(q), Pipe(q) PROVE TypeOK'
<1>0. UNCHANGED <<route, body, who, ran, wrote, avatars, cut, valid, password, jar>>
  BY DEF Pipe, request, store
<1>1. CASE todo' = [todo EXCEPT ![q] = Tail(@)] /\ UNCHANGED <<pc, reply, answer, row>>
  <2>1. Tail(todo[q]) \in Seq(Tasks)
    BY LeftFacts DEF UnderWay, Busy, Pipe, Task
  <2> QED
    BY <1>0, <1>1, <2>1 DEF TypeOK
<1>2. CASE \E status \in PipeStatus(route[q]) : Answer(q, status)
  BY <1>0, <1>2, AnswerTyped DEF TypeOK, PipeStatus
<1> QED
  BY <1>1, <1>2 DEF Pipe

LEMMA SendTyped == ASSUME TypeOK, NEW q \in Requests, UnderWay(q), Send(q) PROVE TypeOK'
<1>0. /\ UNCHANGED <<route, body, who, todo, answer, wrote, avatars, row, valid, password, jar>>
      /\ Busy(q) /\ Task(q) \in Tasks
  BY BusyFacts DEF Send, request, store, Busy
<1>1. CASE /\ Reply(q, Unreachable(ServiceOf(Task(q))))
           /\ cut' = cut \cup {q} /\ UNCHANGED ran
  <2>1. Unreachable(ServiceOf(Task(q))) \in Codes
    BY DEF Unreachable, Codes
  <2> QED
    BY <1>0, <1>1, <2>1, ReplyTyped DEF TypeOK
<1>2. CASE /\ ran' = [ran EXCEPT ![q] = @ \cup Reached(Task(q))]
           /\ IF Reached(Task(q)) = {} THEN Reply(q, "none") ELSE Goto(q, "running") /\ UNCHANGED reply
           /\ UNCHANGED cut
  <2>1. ran' \in [Requests -> SUBSET UNION {Reached(m) : m \in Tasks}]
    BY <1>0, <1>2 DEF TypeOK
  <2>2. CASE Reply(q, "none")
    BY <1>0, <1>2, <2>1, <2>2, ReplyTyped DEF TypeOK, Codes
  <2>3. CASE Goto(q, "running") /\ UNCHANGED reply
    BY <1>0, <1>2, <2>1, <2>3 DEF Goto, TypeOK, Busy, Working
  <2> QED
    BY <1>2, <2>2, <2>3
<1> QED
  BY <1>1, <1>2 DEF Send

LEMMA ReceiveTyped == ASSUME TypeOK, NEW q \in Requests, UnderWay(q), Receive(q) PROVE TypeOK'
<1>0. /\ UNCHANGED <<route, body, who, ran, wrote, avatars, cut, valid, password>>
      /\ Busy(q) /\ pc[q] = "replied" /\ reply[q] \in Codes
      /\ route[q] \in Routes /\ body[q] \in Bodies(route[q]) /\ todo[q] \in Left(route[q])
  BY DEF Receive, request, Busy, UnderWay
<1>1. CASE /\ reply[q] # "OK" /\ UNCHANGED jar
           /\ Answer(q, IF Task(q) = "decodeToken" THEN FilterStatus(reply[q])
                                                   ELSE Status(route[q], reply[q]))
  <2>1. PICK status \in {200, 400, 401, 404, 409, 500, 502} : Answer(q, status)
    BY <1>0, <1>1, StatusFacts
  <2> QED
    BY <1>0, <1>1, <2>1, AnswerTyped DEF TypeOK
<1>2. CASE /\ Len(todo[q]) > 1 /\ Goto(q, "ready") /\ todo' = [todo EXCEPT ![q] = Tail(@)]
           /\ UNCHANGED <<reply, answer, row, jar>>
  <2>1. Tail(todo[q]) \in Seq(Tasks)
    BY <1>0, <1>2, LeftFacts
  <2> QED
    BY <1>0, <1>2, <2>1 DEF TypeOK, Goto
<1>3. CASE /\ Answer(q, 200)
           /\ jar' = IF route[q] \in {"createUser", "loginUser"} THEN body[q].account ELSE jar
  <2>1. body[q].account \in Accounts \cup {Nobody}
    BY <1>0, BodyFacts
  <2>2. jar' \in Accounts \cup {Nobody, Garbled}
    BY <1>3, <2>1 DEF TypeOK
  <2> QED
    BY <1>0, <1>3, <2>2, AnswerTyped DEF TypeOK
<1> QED
  BY <1>0, <1>1, <1>2, <1>3 DEF Receive
(* A handler that is running is the one its message reaches.               *)
LEMMA RunsFacts ==
  ASSUME TypeOK, NEW q \in Requests, UnderWay(q), NEW h, Runs(q, h)
  PROVE  /\ pc[q] = "running" /\ Busy(q) /\ Reached(Task(q)) = {h} /\ h \notin Unsent
         /\ Task(q) # "pipe"
         /\ route[q] \in Routes /\ body[q] \in Bodies(route[q]) /\ todo[q] \in Left(route[q])
<1>1. Busy(q) /\ h \in Reached(Task(q)) /\ pc[q] = "running" /\ Task(q) # "pipe"
  BY DEF Runs, Busy, UnderWay
<1> QED
  BY <1>1, BusyFacts

LEMMA TaskOf ==
  ASSUME NEW m, NEW h \in Followed,
         h \in Reached(m)
  PROVE  m = h
<1>1. \A p \in DOMAIN GigController : GigController[p] # h
  BY DEF GigController, Followed
<1> QED
  BY <1>1 DEF Reached

(* The requests that are followed to the row.                              *)
LEMMA FollowedFacts ==
  ASSUME TypeOK, NEW q \in Requests, UnderWay(q), Busy(q)
  PROVE  /\ Runs(q, "createUser") => /\ Task(q) = "createUser" /\ route[q] = "createUser"
                                     /\ body[q].good /\ body[q].word \in Words
         /\ Runs(q, "getUserByCredential") => Task(q) = "getUserByCredential"
         /\ Runs(q, "resetPassword") => Task(q) = "resetPassword"
         /\ Runs(q, "getUserById") => Task(q) = "getUserById"
         /\ Task(q) = "createUser" => body[q].good /\ body[q].word \in Words
         /\ Task(q) = "getUserByCredential" =>
               /\ route[q] = "loginUser" /\ body[q].good /\ body[q].word \in Words
         /\ Task(q) = "resetPassword" =>
               /\ route[q] = "resetPassword" /\ body[q].good /\ body[q].word \in Words
<1>1. \A h : Runs(q, h) => h \in Reached(Task(q))
  BY DEF Runs
<1>2. Task(q) \notin {"pipe", "decodeToken"} => body[q].good
  BY DEF UnderWay
<1>3. /\ Runs(q, "createUser") => Task(q) = "createUser"
      /\ Runs(q, "getUserByCredential") => Task(q) = "getUserByCredential"
      /\ Runs(q, "resetPassword") => Task(q) = "resetPassword"
      /\ Runs(q, "getUserById") => Task(q) = "getUserById"
  BY <1>1, TaskOf DEF Followed
<1>4. /\ Task(q) = "createUser" => route[q] = "createUser"
      /\ Task(q) = "resetPassword" => route[q] = "resetPassword"
      /\ Task(q) = "getUserByCredential" => route[q] = "loginUser"
      /\ body[q] \in Bodies(route[q])
  BY BusyFacts
<1>5. /\ route[q] \in {"loginUser", "createUser", "resetPassword"} /\ body[q].good => body[q].word \in Words
  BY <1>4, BodyFacts
<1> QED
  BY <1>2, <1>3, <1>4, <1>5

(* A handler that ends.                                                    *)
LEMMA EndTyped ==
  ASSUME TypeOK, NEW q \in Requests, Busy(q), NEW code \in Codes, Reply(q, code),
         UNCHANGED <<route, body, who, todo, answer, ran, wrote, avatars, cut, row, valid,
                     password, jar>>
  PROVE  TypeOK'
BY ReplyTyped DEF TypeOK

(* A handler that goes on, having set a password or not.                   *)
LEMMA GoneOnTyped ==
  ASSUME TypeOK, NEW q \in Requests, Busy(q), NEW label \in Working, Goto(q, label),
         UNCHANGED <<route, body, who, todo, reply, answer, ran, cut, jar>>,
         wrote' \in {wrote, wrote \cup {q}}, avatars' \in {avatars, avatars \cup {q}},
         row' = row \/ \E a \in Accounts : row' = [row EXCEPT ![q] = password[a]],
         UNCHANGED <<valid, password>> \/ \E a : \E w \in Words : SetPassword(a, w)
  PROVE  TypeOK'
<1>1. pc' \in [Requests -> Working \cup {"idle", "ready", "replied", "hung", "answered"}]
  BY DEF Goto, TypeOK
<1>2. \A k \in Requests : answer'[k] # 0 <=> pc'[k] = "answered"
  BY DEF Goto, TypeOK, Busy, Working
<1>3. /\ password' \in [Accounts -> Words \cup {NoWord}]
      /\ valid' \in [Requests -> SUBSET (Words \cup {NoWord})]
  <2>1. CASE UNCHANGED <<valid, password>>
    BY <2>1 DEF TypeOK
  <2>2. CASE \E a : \E w \in Words : SetPassword(a, w)
    BY <2>2, SetTyped
  <2> QED
    BY <2>1, <2>2
<1>4. wrote' \subseteq Requests /\ avatars' \subseteq Requests
  BY DEF TypeOK
<1>5. row' \in [Requests -> Words \cup {NoWord}]
  <2>1. row \in [Requests -> Words \cup {NoWord}] /\ password \in [Accounts -> Words \cup {NoWord}]
    BY DEF TypeOK
  <2>2. CASE row' = row
    BY <2>1, <2>2
  <2>3. CASE \E a \in Accounts : row' = [row EXCEPT ![q] = password[a]]
    BY <2>1, <2>3
  <2> QED
    BY <2>2, <2>3
<1> QED
  BY <1>1, <1>2, <1>3, <1>4, <1>5 DEF TypeOK

LEMMA HandlerTyped ==
  ASSUME TypeOK, NEW q \in Requests, UnderWay(q),
         \/ DecodeToken(q) \/ Refuse(q) \/ Write(q) \/ Finish(q) \/ HandlerThrows(q)
         \/ UploadAvatar(q) \/ CreateUser(q) \/ GetUser(q)
         \/ FindRow(q) \/ VerifyPassword(q) \/ ResetPassword(q)
  PROVE  TypeOK'
<1>0. Busy(q)
  BY DEF DecodeToken, Refuse, Write, Finish, HandlerThrows, UploadAvatar, CreateUser, GetUser, FindRow,
         VerifyPassword, ResetPassword, Runs, Fails, Working, Busy
<1>1. CASE DecodeToken(q) \/ GetUser(q) \/ VerifyPassword(q) \/ Finish(q)
  <2>1. UNCHANGED <<route, body, who, todo, answer, ran, wrote, avatars, cut, row, valid, password, jar>>
    BY <1>1 DEF DecodeToken, GetUser, VerifyPassword, Finish, request, store
  <2>2. \E code \in Codes : Reply(q, code)
    BY <1>1 DEF DecodeToken, GetUser, VerifyPassword, Finish, Codes
  <2> QED
    BY <1>0, <2>1, <2>2, EndTyped
<1>2. CASE Refuse(q) \/ HandlerThrows(q)
  <2>1. UNCHANGED <<route, body, who, todo, answer, ran, wrote, avatars, cut, row, valid, password, jar>>
    BY <1>2 DEF Refuse, HandlerThrows, request, store
  <2>2. \E h : \E code \in Refusals(h) \cup {Failure(h)} : Reply(q, code)
    BY <1>2 DEF Refuse, HandlerThrows
  <2>3. \A h : Refusals(h) \cup {Failure(h)} \subseteq Codes
    BY EndFacts DEF Refused, Unexpected, Codes
  <2> QED
    BY <1>0, <2>1, <2>2, <2>3, EndTyped
<1>3. CASE Write(q) \/ UploadAvatar(q)
  BY <1>0, <1>3, GoneOnTyped DEF Write, UploadAvatar, Working, request, store
<1>4. CASE CreateUser(q)
  <2>1. body[q].word \in Words
    BY <1>0, <1>4, FollowedFacts DEF CreateUser, UnderWay
  <2>2. CASE /\ Reply(q, "ALREADY_EXISTS") /\ UNCHANGED <<wrote, valid, password>>
    BY <1>0, <1>4, <2>2, EndTyped DEF CreateUser, Codes, request
  <2>3. CASE /\ SetPassword(body[q].account, body[q].word)
             /\ wrote' = wrote \cup {q} /\ Goto(q, "written") /\ UNCHANGED reply
    <3>1. \E a : \E w \in Words : SetPassword(a, w)
      BY <2>1, <2>3
    <3>2. UNCHANGED <<route, body, who, todo, reply, answer, ran, cut, jar, avatars, row>>
      BY <1>4, <2>3 DEF CreateUser, request
    <3> QED
      BY <1>0, <2>3, <3>1, <3>2, GoneOnTyped DEF Working
  <2> QED
    BY <1>4, <2>2, <2>3 DEF CreateUser
<1>5. CASE FindRow(q)
  <2>1. CASE Reply(q, "NOT_FOUND") /\ UNCHANGED row
    BY <1>0, <1>5, <2>1, EndTyped DEF FindRow, Codes, request, store
  <2>2. CASE \E a \in Accounts : Goto(q, "found") /\ row' = [row EXCEPT ![q] = password[a]] /\ UNCHANGED reply
    BY <1>0, <1>5, <2>2, GoneOnTyped DEF FindRow, Working, request, store
  <2> QED
    BY <1>5, <2>1, <2>2 DEF FindRow, Registered
<1>6. CASE ResetPassword(q)
  <2>1. body[q].word \in Words
    BY <1>0, <1>6, FollowedFacts DEF ResetPassword
  <2>2. \E a : \E w \in Words : SetPassword(a, w)
    BY <1>6, <2>1 DEF ResetPassword
  <2>3. /\ UNCHANGED <<route, body, who, todo, reply, answer, ran, cut, jar, avatars, row>>
        /\ wrote' = wrote \cup {q} /\ Goto(q, "written")
    BY <1>6 DEF ResetPassword, request
  <2> QED
    BY <1>0, <2>2, <2>3, GoneOnTyped DEF Working
<1> QED
  BY <1>1, <1>2, <1>3, <1>4, <1>5, <1>6

LEMMA TypeStep == TypeOK /\ (\A q \in Requests : UnderWay(q)) /\ [Next]_vars => TypeOK'
<1> SUFFICES ASSUME TypeOK, \A q \in Requests : UnderWay(q), [Next]_vars PROVE TypeOK'
  OBVIOUS
<1>1. ASSUME NEW q \in Requests, Arrive(q) \/ Step(q) PROVE TypeOK'
  BY <1>1, ArriveTyped, PipeTyped, SendTyped, ReceiveTyped, HandlerTyped DEF Step
<1>2. ASSUME NEW s \in Services, ServiceDies(s) PROVE TypeOK'
  <2>1. UNCHANGED <<route, body, who, todo, answer, ran, wrote, avatars, row, valid, password, jar>>
    BY <1>2 DEF ServiceDies, request, store
  <2>2. PICK had \in SUBSET {q \in Requests : Busy(q)}, fate \in {"replied", "hung"} :
           /\ cut' = cut \cup had
           /\ pc' = [q \in Requests |-> IF q \in had THEN fate ELSE pc[q]]
           /\ reply' = [q \in Requests |-> IF q \in had THEN Unreachable(s) ELSE reply[q]]
    BY <1>2 DEF ServiceDies, Busy, Working
  <2>3. Unreachable(s) \in DOMAIN HttpStatus \cup {"none"}
    BY DEF Unreachable, HttpStatus
  <2> QED
    BY <2>1, <2>2, <2>3 DEF TypeOK, Busy
<1>3. CASE Lapse
  BY <1>3 DEF Lapse, request, TypeOK
<1>4. CASE UNCHANGED vars
  BY <1>4 DEF vars, request, store, TypeOK
<1> QED
  BY <1>1, <1>2, <1>3, <1>4 DEF Next
-----------------------------------------------------------------------------
(* What the answer to a request leaves to show.                            *)
LEMMA AnsweredSound ==
  ASSUME NEW q \in Requests, pc'[q] = "answered",
         q \in wrote' => q \in cut' \/ answer'[q] \in {200, 500, 502},
         answer'[q] = 200 => ran'[q] \cap Commands = {} \/ q \in wrote',
         q \in avatars' => q \in cut' \/ answer'[q] \in {200, 409, 500},
         answer'[q] = 200 /\ body'[q].picture => q \in avatars',
         (route[q] = "loginUser")' => /\ answer'[q] = 200 => Right(q)'
                                      /\ answer'[q] = 404 => Wrong(q)'
  PROVE  Sound(q)'
<1>1. UnderWay(q)' /\ Unstarted(q)' /\ Pictured(q)'
  BY DEF UnderWay, Unstarted, Busy, Pictured, Got
<1>2. Obeyed(q)'
  BY DEF Obeyed
<1>3. Admitted(q)'
  BY DEF Admitted
<1>4. Judged(q)'
  <2>1. ~Busy(q)' /\ pc'[q] \notin {"found", "replied"}
    BY DEF Busy
  <2>2. (route[q] = "loginUser")' => /\ Got(q, 200)' => Right(q)'
                                     /\ Got(q, 404)' => Wrong(q)'
    BY DEF Got
  <2> QED
    BY <2>1, <2>2 DEF Judged
<1> QED
  BY <1>1, <1>2, <1>3, <1>4 DEF Sound

LEMMA AnswerFacts ==
  ASSUME TypeOK, NEW q \in Requests, NEW status, Answer(q, status)
  PROVE  pc'[q] = "answered" /\ answer'[q] = status
BY DEF Answer, Goto, TypeOK

LEMMA ArriveSound ==
  ASSUME TypeOK, NEW q \in Requests, Sound(q), Arrive(q)
  PROVE  Sound(q)'
<1>r. PICK r \in Routes : \E b \in Bodies(r) :
          /\ route' = [route EXCEPT ![q] = r] /\ body' = [body EXCEPT ![q] = b]
          /\ valid' = IF r = "loginUser" /\ b.good
                      THEN [valid EXCEPT ![q] = {password[b.account]}] ELSE valid
          /\ IF r \in Guarded /\ jar = Nobody
             THEN Answer(q, 401)
             ELSE /\ Goto(q, "ready") /\ UNCHANGED <<reply, answer, row>>
                  /\ todo' = [todo EXCEPT ![q] = Work(r)]
  BY DEF Arrive
<1>1. PICK b \in Bodies(r) :
          /\ route' = [route EXCEPT ![q] = r] /\ body' = [body EXCEPT ![q] = b]
          /\ valid' = IF r = "loginUser" /\ b.good
                      THEN [valid EXCEPT ![q] = {password[b.account]}] ELSE valid
          /\ \/ Answer(q, 401)
             \/ /\ Goto(q, "ready") /\ UNCHANGED <<reply, answer, row>>
                /\ todo' = [todo EXCEPT ![q] = Work(r)]
  BY <1>r
<1>2. /\ pc[q] = "idle" /\ UNCHANGED <<ran, wrote, avatars, cut, password>>
      /\ ran[q] = {} /\ q \notin wrote /\ q \notin avatars
  BY DEF Arrive, store, Sound, Unstarted
<1>3. CASE Answer(q, 401)
  <2>1. pc'[q] = "answered" /\ answer'[q] = 401
    BY <1>3, AnswerFacts
  <2> QED
    BY <1>2, <2>1, AnsweredSound
<1>4. CASE /\ Goto(q, "ready") /\ UNCHANGED <<reply, answer, row>>
           /\ todo' = [todo EXCEPT ![q] = Work(r)]
  <2>1. /\ pc'[q] = "ready" /\ route'[q] = r /\ body'[q] = b /\ todo'[q] = Work(r)
    BY <1>1, <1>4 DEF Goto, TypeOK
  <2>2. Task(q)' \in {"pipe", "decodeToken"} /\ Work(r) \in Left(r)
    BY <2>1, WorkFacts DEF Task
  <2>3. (body[q] \in Bodies(route[q]))'
    <3>1. CASE r = "resetPassword"
      BY <2>1, <3>1 DEF Bodies
    <3> QED
      BY <2>1 DEF Bodies
  <2>4. UnderWay(q)'
    BY <2>1, <2>2, <2>3 DEF UnderWay
  <2>5. Judged(q)'
    <3>1. r = "loginUser" /\ b.good => password[b.account] \in valid'[q]
      BY <1>1 DEF TypeOK
    <3> QED
      BY <1>2, <2>1, <2>2, <3>1 DEF Judged, Got
  <2> QED
    BY <1>2, <2>1, <2>4, <2>5 DEF Sound, Obeyed, Admitted, Pictured, Got, Unstarted
<1> QED
  BY <1>1, <1>3, <1>4

LEMMA PipeSound ==
  ASSUME TypeOK, NEW q \in Requests, Sound(q), Pipe(q)
  PROVE  Sound(q)'
<1>0. /\ UNCHANGED <<route, body, ran, wrote, avatars, cut, valid, password>>
      /\ pc[q] = "ready" /\ Task(q) = "pipe" /\ Busy(q)
      /\ UnderWay(q) /\ Obeyed(q) /\ Admitted(q) /\ Judged(q)
      /\ q \in avatars => q \in cut
  BY DEF Pipe, request, store, Busy, Sound, Pictured
<1>1. route[q] \in Routes /\ body[q] \in Bodies(route[q]) /\ todo[q] \in Left(route[q])
  BY <1>0 DEF UnderWay
<1>2. CASE body[q].good
  <2>1. /\ todo'[q] = Tail(todo[q]) /\ UNCHANGED <<pc, reply, answer, row>>
    BY <1>2 DEF Pipe, TypeOK
  <2>2. todo'[q] \in Left(route[q])
    BY <1>0, <1>1, <2>1, LeftFacts DEF Task
  <2>3. route[q] = "loginUser" => Task(q)' = "getUserByCredential"
    BY <1>0, <1>1, <2>1, LoginLeft DEF Task
  <2>4. UnderWay(q)'
    BY <1>0, <1>1, <1>2, <2>1, <2>2 DEF UnderWay, Bodies
  <2>5. Judged(q)'
    BY <1>0, <2>1, <2>3 DEF Judged, Right, Wrong, Got
  <2> QED
    BY <1>0, <2>1, <2>4, <2>5 DEF Sound, Obeyed, Admitted, Pictured, Got, Unstarted, Working
<1>3. CASE ~body[q].good
  <2>1. PICK status \in {400, 500} : Answer(q, status)
    BY <1>3 DEF Pipe, PipeStatus
  <2>2. pc'[q] = "answered" /\ answer'[q] \in {400, 500}
    BY <2>1, AnswerFacts
  <2>3. q \in wrote => q \in cut
    BY <1>0 DEF Admitted
  <2> QED
    BY <1>0, <2>2, <2>3, AnsweredSound
<1> QED
  BY <1>2, <1>3

LEMMA ReplyFacts ==
  ASSUME TypeOK, NEW q \in Requests, NEW code, Reply(q, code)
  PROVE  pc'[q] = "replied" /\ reply'[q] = code
BY DEF Reply, Goto, TypeOK

LEMMA SendSound ==
  ASSUME TypeOK, NEW q \in Requests, Sound(q), Send(q)
  PROVE  Sound(q)'
<1>0. /\ UNCHANGED <<route, body, todo, answer, wrote, avatars, row, valid, password>>
      /\ pc[q] = "ready" /\ Task(q) # "pipe" /\ Busy(q)
      /\ UnderWay(q) /\ Obeyed(q) /\ Admitted(q) /\ Judged(q)
      /\ q \in avatars => q \in cut
      /\ Task(q)' = Task(q)
  BY DEF Send, request, store, Busy, Sound, Task, Pictured
<1>1. /\ route[q] \in Routes /\ body[q] \in Bodies(route[q]) /\ todo[q] \in Left(route[q])
      /\ Task(q) \notin {"pipe", "decodeToken"} => body[q].good
  BY <1>0 DEF UnderWay
<1>2. (body[q] \in Bodies(route[q]))'
  BY <1>0, <1>1 DEF Bodies
<1>3. q \in wrote => q \in cut
  BY <1>0 DEF Admitted
<1>4. CASE Reply(q, Unreachable(ServiceOf(Task(q)))) /\ cut' = cut \cup {q} /\ UNCHANGED ran
  <2>1. pc'[q] = "replied" /\ reply'[q] \in {"none", "UNAVAILABLE"}
    BY <1>4, ReplyFacts DEF Unreachable
  <2>2. UnderWay(q)'
    BY <1>0, <1>1, <1>2, <1>4, <2>1 DEF UnderWay, Codes
  <2>3. Obeyed(q)'
    BY <2>1 DEF Obeyed
  <2>4. Judged(q)'
    BY <1>0, <1>4, <2>1 DEF Judged, Right, Wrong, Got, Busy
  <2> QED
    BY <1>0, <1>4, <2>1, <2>2, <2>3, <2>4 DEF Sound, Admitted, Pictured, Got, Unstarted
<1>5. CASE Reached(Task(q)) = {} /\ Reply(q, "none") /\ UNCHANGED <<ran, cut>>
  <2>1. pc'[q] = "replied" /\ reply'[q] = "none"
    BY <1>5, ReplyFacts
  <2>2. UnderWay(q)'
    BY <1>0, <1>1, <1>2, <1>5, <2>1 DEF UnderWay, Codes
  <2>3. Obeyed(q)'
    BY <2>1 DEF Obeyed
  <2>4. Judged(q)'
    BY <1>0, <2>1 DEF Judged, Right, Wrong, Got, Busy
  <2> QED
    BY <1>0, <1>3, <1>5, <2>1, <2>2, <2>3, <2>4 DEF Sound, Admitted, Pictured, Got, Unstarted
<1>6. CASE /\ Goto(q, "running") /\ UNCHANGED <<reply, cut>>
           /\ ran' = [ran EXCEPT ![q] = @ \cup Reached(Task(q))]
  <2>1. pc'[q] = "running" /\ ran'[q] = ran[q] \cup Reached(Task(q))
    BY <1>6 DEF Goto, TypeOK
  <2>2. UnderWay(q)'
    BY <1>0, <1>1, <1>2, <2>1 DEF UnderWay
  <2>3. Obeyed(q)'
    BY <1>0, <2>1 DEF Obeyed, Working
  <2>4. Judged(q)'
    BY <1>0, <2>1 DEF Judged, Right, Wrong, Got, Busy
  <2> QED
    BY <1>0, <1>3, <1>6, <2>1, <2>2, <2>3, <2>4 DEF Sound, Admitted, Pictured, Got, Unstarted
<1>7. ran' = [ran EXCEPT ![q] = @ \cup Reached(Task(q))] /\ Reached(Task(q)) = {} => ran' = ran
  BY DEF TypeOK
<1> QED
  BY <1>4, <1>5, <1>6, <1>7 DEF Send

(* The last message of a sign-up is createUser, and of no other route.     *)
LEMMA TaskRoute ==
  ASSUME TypeOK, NEW q \in Requests, UnderWay(q), Busy(q)
  PROVE  /\ Task(q) = "createUser" => route[q] = "createUser" /\ Len(todo[q]) = 1
         /\ route[q] = "createUser" /\ Len(todo[q]) = 1 => Task(q) = "createUser"
<1>1. /\ route[q] \in Routes /\ todo[q] \in Left(route[q])
      /\ Task(q) = "createUser" => route[q] = "createUser"
  BY BusyFacts
<1>2. ASSUME route[q] = "createUser" PROVE Task(q) = "createUser" <=> Len(todo[q]) = 1
  <2>1. Message(route[q]) = "createUser"
    BY <1>1, <1>2, MessageFacts DEF Fits
  <2>2. Task(q) = Message(route[q]) <=> Len(todo[q]) = 1
    BY <1>1, <1>2, SingleLeft DEF Task
  <2> QED
    BY <2>1, <2>2
<1> QED
  BY <1>1, <1>2

LEMMA ReceiveSound ==
  ASSUME TypeOK, NEW q \in Requests, Sound(q), Receive(q)
  PROVE  Sound(q)'
<1>0. /\ UNCHANGED <<route, body, ran, wrote, avatars, cut, valid, password>>
      /\ pc[q] = "replied" /\ Busy(q) /\ reply[q] \in Codes
      /\ UnderWay(q) /\ Obeyed(q) /\ Admitted(q) /\ Judged(q)
      /\ reply[q] = "UNAVAILABLE" => q \in cut
      /\ q \in avatars => \/ q \in cut
                          \/ Task(q) = "createUser" /\ reply[q] \in {"OK", "ALREADY_EXISTS", "INTERNAL"}
  BY DEF Receive, request, Busy, Sound, UnderWay, Pictured
<1>1. /\ route[q] \in Routes /\ body[q] \in Bodies(route[q]) /\ todo[q] \in Left(route[q])
      /\ Task(q) \notin {"pipe", "decodeToken"} => body[q].good
      /\ Task(q) # "pipe"
  BY <1>0 DEF UnderWay
<1>2. Task(q) \in {"pipe", "decodeToken"} => Len(todo[q]) > 1
  BY <1>1, LeftFacts DEF Task
<1>3. CASE reply[q] # "OK"
  <2>1. PICK status : /\ Answer(q, status)
                     /\ status = IF Task(q) = "decodeToken" THEN FilterStatus(reply[q])
                                                            ELSE Status(route[q], reply[q])
    BY <1>3 DEF Receive
  <2>2. pc'[q] = "answered" /\ answer'[q] = status
    BY <2>1, AnswerFacts
  <2>3. status # 200
    BY <1>0, <1>3, <2>1, StatusFacts
  <2>4. ASSUME q \in wrote, q \notin cut PROVE status \in {500, 502}
    <3>1. reply[q] \in Unexpected /\ route[q] \notin DOMAIN GigSearches
      BY <1>0, <1>3, <2>4 DEF Admitted
    <3> QED
      BY <1>0, <1>3, <2>1, <3>1, StatusFacts
  <2>5. ASSUME route[q] = "loginUser", status = 404 PROVE Wrong(q)
    <3>1. reply[q] \in {"NOT_FOUND", "UNAVAILABLE"}
      BY <1>0, <1>3, <2>1, <2>5, StatusFacts
    <3> QED
      BY <1>0, <2>5, <3>1 DEF Judged, Wrong
  <2>6. (route[q] = "loginUser")' /\ answer'[q] = 404 => Wrong(q)'
    BY <1>0, <2>2, <2>5 DEF Wrong
  <2>7. ASSUME q \in avatars, q \notin cut PROVE status \in {409, 500}
    <3>1. /\ Task(q) = "createUser" /\ reply[q] \in {"ALREADY_EXISTS", "INTERNAL"}
          /\ route[q] = "createUser"
      BY <1>0, <1>3, <2>7, TaskRoute
    <3>2. status = FilterStatus(reply[q])
      BY <1>0, <1>3, <2>1, <3>1, StatusFacts
    <3> QED
      BY <1>0, <1>3, <3>1, <3>2, StatusFacts
  <2> QED
    BY <1>0, <2>2, <2>3, <2>4, <2>6, <2>7, AnsweredSound
<1>4. CASE reply[q] = "OK" /\ Len(todo[q]) > 1
  <2>1. /\ pc'[q] = "ready" /\ todo'[q] = Tail(todo[q]) /\ UNCHANGED <<reply, answer, row>>
    BY <1>4 DEF Receive, Goto, TypeOK
  <2>2. todo'[q] \in Left(route[q])
    BY <1>1, <1>4, <2>1, LeftFacts
  <2>p. Pictured(q)'
    <3>1. Len(todo[q]) # 1
      BY <1>1, <1>4, LeftFacts, OneLeft
    <3>2. q \in avatars => q \in cut
      BY <1>0, <3>1, TaskRoute
    <3> QED
      BY <1>0, <2>1, <3>2 DEF Pictured, Got
  <2>a. Admitted(q)'
    <3>1. Len(todo[q]) # 1
      BY <1>1, <1>4, LeftFacts, OneLeft
    <3>2. q \in wrote => q \in cut
      BY <1>0, <3>1 DEF Admitted
    <3> QED
      BY <1>0, <3>2 DEF Admitted
  <2>o. Obeyed(q)'
    <3>1. \A h \in ran[q] \cap Commands : q \in wrote
      BY <1>0, <1>4 DEF Obeyed, Working
    <3> QED
      BY <1>0, <3>1 DEF Obeyed
  <2>3. CASE route[q] = "loginUser"
    <3>1. Task(q) = "getUserByCredential" /\ Task(q)' = "createToken"
      <4>1. /\ Task(q) \in {"pipe", "getUserByCredential", "createToken"}
            /\ Task(q) = "createToken" => Len(todo[q]) = 1
            /\ Task(q) = "getUserByCredential" => Head(Tail(todo[q])) = "createToken"
        BY <1>1, <2>3, LoginLeft DEF Task
      <4>2. Len(todo[q]) # 1
        BY <1>1, <1>4, LeftFacts, OneLeft
      <4> QED
        BY <1>1, <2>1, <4>1, <4>2 DEF Task
    <3>2. Right(q) /\ Right(q)'
      BY <1>0, <1>4, <2>3, <3>1 DEF Judged, Right
    <3>3. UnderWay(q)'
      BY <1>0, <1>1, <2>1, <2>2, <3>1 DEF UnderWay, Bodies
    <3>4. Judged(q)'
      BY <1>0, <2>1, <3>1, <3>2 DEF Judged, Got
    <3> QED
      BY <2>1, <2>a, <2>o, <2>p, <3>3, <3>4 DEF Sound, Unstarted
  <2>4. CASE route[q] # "loginUser"
    <3>1. Task(q) = "decodeToken" /\ Task(q)' = "pipe"
      <4>1. /\ Task(q) \in {"decodeToken", "pipe", Message(route[q])}
            /\ Task(q) = Message(route[q]) => Len(todo[q]) = 1
            /\ Task(q) = "decodeToken" => Head(Tail(todo[q])) = "pipe"
        BY <1>1, <2>4, SingleLeft DEF Task
      <4>2. Len(todo[q]) # 1
        BY <1>1, <1>4, LeftFacts, OneLeft
      <4> QED
        BY <1>1, <2>1, <4>1, <4>2 DEF Task
    <3>2. UnderWay(q)'
      BY <1>0, <1>1, <2>1, <2>2, <3>1 DEF UnderWay, Bodies
    <3>3. Judged(q)'
      BY <1>0, <2>4 DEF Judged
    <3> QED
      BY <2>1, <2>a, <2>o, <2>p, <3>2, <3>3 DEF Sound, Unstarted
  <2> QED
    BY <2>3, <2>4
<1>5. CASE reply[q] = "OK" /\ ~(Len(todo[q]) > 1)
  <2>1. pc'[q] = "answered" /\ answer'[q] = 200
    BY <1>5, AnswerFacts DEF Receive
  <2>2. ran[q] \cap Commands = {} \/ q \in wrote
    BY <1>0, <1>5 DEF Obeyed, Working
  <2>3. ASSUME route[q] = "loginUser" PROVE Right(q)
    <3>1. Task(q) = "createToken"
      <4>1. Len(todo[q]) = 1
        BY <1>1, <1>5, LeftFacts, OneLeft
      <4> QED
        BY <1>1, <2>3, <4>1, LoginLeft DEF Task
    <3> QED
      BY <1>0, <2>3, <3>1 DEF Judged
  <2>4. Right(q) => Right(q)'
    BY <1>0 DEF Right
  <2>5. body[q].picture => q \in avatars
    <3>1. Len(todo[q]) = 1
      BY <1>1, <1>5, LeftFacts, OneLeft
    <3>2. body[q].picture => Task(q) = "createUser"
      BY <1>0, <1>1, <3>1, TaskRoute, BodyFacts
    <3> QED
      BY <1>0, <1>5, <3>2 DEF Sound, Pictured
  <2> QED
    BY <1>0, <2>1, <2>2, <2>3, <2>4, <2>5, AnsweredSound
<1> QED
  BY <1>3, <1>4, <1>5
-----------------------------------------------------------------------------
(* What a reply leaves to show.                                            *)
LEMMA RepliedSound ==
  ASSUME NEW q \in Requests, Sound(q), pc[q] \in Working, Task(q) # "pipe",
         NEW code \in Codes \ {"UNAVAILABLE"}, pc'[q] = "replied", reply'[q] = code,
         UNCHANGED <<route, body, todo, ran, cut, avatars>>,
         Task(q) = "createUser" => code \in {"OK", "ALREADY_EXISTS", "INTERNAL"},
         Task(q) = "createUser" /\ code = "OK" /\ body[q].picture => q \in avatars,
         code = "OK" => ran[q] \cap Commands = {} \/ q \in wrote',
         q \in wrote' => \/ q \in cut
                         \/ /\ code \in {"OK"} \cup Unexpected /\ Len(todo[q]) = 1
                            /\ route[q] \notin {"loginUser"} \cup DOMAIN GigSearches,
         route[q] = "loginUser" =>
            /\ UNCHANGED <<password, valid>>
            /\ Task(q) = "getUserByCredential" /\ code = "OK" => Right(q)
            /\ code = "NOT_FOUND" => Wrong(q)
  PROVE  Sound(q)'
<1>1. UnderWay(q) /\ Judged(q) /\ Task(q)' = Task(q) /\ Busy(q)
  BY DEF Sound, Task, Working, Busy
<1>2. UnderWay(q)'
  <2>1. /\ route[q] \in Routes /\ body[q] \in Bodies(route[q]) /\ todo[q] \in Left(route[q])
        /\ Task(q) \notin {"pipe", "decodeToken"} => body[q].good
    BY <1>1 DEF UnderWay
  <2>2. (body[q] \in Bodies(route[q]))'
    BY <2>1 DEF Bodies
  <2> QED
    BY <1>1, <2>1, <2>2 DEF UnderWay
<1>3. Obeyed(q)'
  BY DEF Obeyed
<1>4. Admitted(q)'
  BY DEF Admitted
<1>5. Unstarted(q)'
  BY DEF Unstarted
<1>6. Judged(q)'
  <2>1. SUFFICES ASSUME route[q] = "loginUser" PROVE Judged(q)'
    BY DEF Judged
  <2>2. /\ body[q].good => password[body[q].account] \in valid[q]
        /\ Task(q) = "createToken" => Right(q)
    BY <1>1, <2>1 DEF Judged, Busy
  <2>3. (Right(q) => Right(q)') /\ (Wrong(q) => Wrong(q)')
    BY <2>1 DEF Right, Wrong
  <2> QED
    BY <1>1, <2>1, <2>2, <2>3 DEF Judged, Got
<1>7. Pictured(q)'
  BY <1>1 DEF Sound, Pictured, Got, Working
<1> QED
  BY <1>2, <1>3, <1>4, <1>5, <1>6, <1>7 DEF Sound

(* While a handler runs, what the request changed before was cut, and what *)
(* it still may change it changes with its last message.                   *)
LEMMA AtWork ==
  ASSUME TypeOK, NEW q \in Requests, Sound(q), pc[q] \in Working
  PROVE  /\ UnderWay(q) /\ Busy(q) /\ Task(q) # "pipe" /\ Judged(q)
         /\ q \in wrote => q \in cut \/ pc[q] = "written"
         /\ pc[q] = "written" => q \in wrote /\ Reached(Task(q)) \cap Commands # {}
         /\ Reached(Task(q)) \cap Commands = {} => ran[q] \cap Commands = {} \/ q \in wrote
         /\ Reached(Task(q)) \cap Commands # {} =>
               Len(todo[q]) = 1 /\ route[q] \notin {"loginUser"} \cup DOMAIN GigSearches
         /\ route[q] = "loginUser" => Task(q) \in {"getUserByCredential", "createToken"}
         /\ body[q].picture => Task(q) \in {"decodeToken", "createUser"}
<1>1. UnderWay(q) /\ Busy(q) /\ Task(q) # "pipe" /\ Judged(q)
  BY DEF Sound, Busy, UnderWay, Working
<1>2. q \in wrote => q \in cut \/ pc[q] = "written"
  BY DEF Sound, Admitted, Working
<1>3. Reached(Task(q)) \cap Commands = {} => ran[q] \cap Commands = {} \/ q \in wrote
  BY DEF Sound, Obeyed, Working
<1>4. /\ route[q] \in Routes /\ todo[q] \in Left(route[q])
      /\ Reached(Task(q)) \cap Commands # {} =>
            Len(todo[q]) = 1 /\ route[q] \notin {"loginUser"} \cup DOMAIN GigSearches
  BY <1>1, BusyFacts
<1>5. route[q] = "loginUser" => Task(q) \in {"getUserByCredential", "createToken"}
  BY <1>1, <1>4, LoginLeft DEF Task
<1>6. pc[q] = "written" => q \in wrote /\ Reached(Task(q)) \cap Commands # {}
  BY <1>1 DEF UnderWay
<1>7. body[q].picture => Task(q) \in {"decodeToken", "createUser"}
  BY <1>1, BusyFacts, BodyFacts
<1> QED
  BY <1>1, <1>2, <1>3, <1>4, <1>5, <1>6, <1>7

(* What a step to another place of a handler leaves to show: a picture is  *)
(* stored, or something is written.                                        *)
LEMMA MovedSound ==
  ASSUME TypeOK, NEW q \in Requests, Sound(q), pc[q] \in Working, route[q] # "loginUser",
         UNCHANGED <<route, body, todo, ran, cut>>,
         \/ /\ pc'[q] = "uploaded" /\ Task(q) = "createUser" /\ pc[q] # "written"
            /\ q \in avatars' /\ wrote' = wrote
         \/ /\ pc'[q] = "written" /\ Reached(Task(q)) \cap Commands # {} /\ q \in wrote'
            /\ body[q].picture => q \in avatars
            /\ avatars' = avatars
  PROVE  Sound(q)'
<1>1. Task(q)' = Task(q) /\ UnderWay(q) /\ Busy(q)
  BY AtWork DEF Task
<1>2. UnderWay(q)'
  <2>1. /\ route[q] \in Routes /\ body[q] \in Bodies(route[q]) /\ todo[q] \in Left(route[q])
        /\ Task(q) \notin {"pipe", "decodeToken"} => body[q].good
        /\ Task(q) # "pipe"
    BY <1>1, BusyFacts, AtWork DEF UnderWay
  <2>2. (body[q] \in Bodies(route[q]))'
    BY <2>1 DEF Bodies
  <2> QED
    BY <1>1, <2>1, <2>2 DEF UnderWay
<1>3. Obeyed(q)'
  BY <1>1 DEF Sound, Obeyed, Working
<1>4. Admitted(q)' /\ Unstarted(q)'
  BY AtWork DEF Admitted, Unstarted
<1>5. Pictured(q)'
  BY <1>1 DEF Sound, Pictured, Got, Working
<1>6. Judged(q)'
  BY DEF Judged
<1> QED
  BY <1>2, <1>3, <1>4, <1>5, <1>6 DEF Sound

(* Whose message createUser is.                                            *)
LEMMA SignUpWork ==
  ASSUME TypeOK, NEW q \in Requests, Sound(q), pc[q] \in Working,
         pc[q] = "uploaded" \/ Runs(q, "createUser")
  PROVE  /\ Task(q) = "createUser" /\ Reached(Task(q)) = {"createUser"} /\ route[q] = "createUser"
         /\ pc[q] # "written" /\ body[q].word \in Words
<1>1. UnderWay(q) /\ Busy(q)
  BY AtWork
<1>2. Task(q) = "createUser"
  BY <1>1, FollowedFacts DEF UnderWay
<1>3. Reached("createUser") = {"createUser"}
  <2>1. "createUser" \notin DOMAIN GigController
    BY DEF GigController
  <2> QED
    BY <2>1 DEF Reached, AuthHandlers
<1> QED
  BY <1>1, <1>2, <1>3, BusyFacts, FollowedFacts DEF Runs

LEMMA DecodeSound ==
  ASSUME TypeOK, NEW q \in Requests, Sound(q), DecodeToken(q)
  PROVE  Sound(q)'
<1>1. /\ UNCHANGED <<route, body, todo, ran, wrote, avatars, cut, valid, password>>
      /\ UnderWay(q) /\ pc[q] = "running" /\ Reached(Task(q)) = {"decodeToken"}
  BY RunsFacts DEF DecodeToken, request, store, Sound
<1>2. PICK code \in {"OK", "UNAUTHENTICATED"} : Reply(q, code)
  BY DEF DecodeToken
<1>3. pc'[q] = "replied" /\ reply'[q] = code
  BY <1>2, ReplyFacts
<1>4. Reached(Task(q)) \cap Commands = {}
  BY <1>1 DEF Commands
<1>5. Task(q) = "decodeToken"
  BY <1>1, TaskOf DEF Followed
<1>6. code \in Codes \ {"UNAVAILABLE"} /\ pc[q] \in Working
  BY <1>1 DEF Codes, Working
<1> QED
  BY <1>1, <1>3, <1>4, <1>5, <1>6, AtWork, RepliedSound

(* A refusal comes before the handler has written anything.                *)
LEMMA RefuseSound ==
  ASSUME TypeOK, NEW q \in Requests, Sound(q), Refuse(q)
  PROVE  Sound(q)'
<1>1. PICK h \in ran[q] \ Followed : Runs(q, h) /\ \E code \in Refusals(h) : Reply(q, code)
  BY DEF Refuse
<1>2. PICK code \in Refusals(h) : Reply(q, code)
  BY <1>1
<1>3. UNCHANGED <<route, body, todo, ran, wrote, avatars, cut, valid, password>>
  BY DEF Refuse, request, store
<1>4. pc[q] = "running" /\ Reached(Task(q)) = {h} /\ UnderWay(q) /\ pc[q] \in Working
  BY <1>1, RunsFacts DEF Sound, Working
<1>5. code \in Codes \ {"UNAVAILABLE", "OK"} /\ h # "createToken"
  BY <1>2, EndFacts DEF Refused, Codes
<1>6. pc'[q] = "replied" /\ reply'[q] = code
  BY <1>2, ReplyFacts
<1>7. route[q] # "loginUser" /\ Task(q) # "createUser"
  <2>1. Task(q) \in {"getUserByCredential", "createToken", "createUser"} => h = Task(q)
    BY <1>4, ReachedFacts DEF Reached, AuthHandlers, GigController
  <2> QED
    BY <1>1, <1>4, <1>5, <2>1, AtWork DEF Followed
<1> QED
  BY <1>3, <1>4, <1>5, <1>6, <1>7, AtWork, RepliedSound

LEMMA WriteSound ==
  ASSUME TypeOK, NEW q \in Requests, Sound(q), Write(q)
  PROVE  Sound(q)'
<1>1. PICK h \in Commands \ Followed : Runs(q, h)
  BY DEF Write
<1>2. /\ UNCHANGED <<route, body, todo, ran, avatars, cut>> /\ wrote' = wrote \cup {q}
      /\ pc'[q] = "written"
  BY DEF Write, request, Goto, TypeOK
<1>3. pc[q] = "running" /\ Reached(Task(q)) = {h} /\ UnderWay(q) /\ pc[q] \in Working
  BY <1>1, RunsFacts DEF Sound, Working
<1>4. route[q] # "loginUser"
  BY <1>3, AtWork
<1>5. ~body[q].picture
  <2>1. Task(q) # "createUser"
    <3>1. "createUser" \notin DOMAIN GigController
      BY DEF GigController
    <3>2. Reached("createUser") = {"createUser"}
      BY <3>1 DEF Reached, AuthHandlers
    <3> QED
      BY <1>1, <1>3, <3>2 DEF Followed
  <2>2. Task(q) # "decodeToken"
    BY <1>1, <1>3, ReachedFacts DEF Reached, Followed
  <2> QED
    BY <1>3, <2>1, <2>2, AtWork
<1> QED
  BY <1>2, <1>3, <1>4, <1>5, MovedSound

LEMMA FinishSound ==
  ASSUME TypeOK, NEW q \in Requests, Sound(q), Finish(q)
  PROVE  Sound(q)'
<1>1. UNCHANGED <<route, body, todo, ran, wrote, avatars, cut, valid, password>>
  BY DEF Finish, request, store
<1>2. pc'[q] = "replied" /\ reply'[q] = "OK" /\ "OK" \in Codes \ {"UNAVAILABLE"}
  BY ReplyFacts DEF Finish, Codes
<1>3. CASE pc[q] = "written"
  <2>1. pc[q] \in Working
    BY <1>3 DEF Working
  <2>2. body[q].picture => q \in avatars
    BY <1>3 DEF Sound, Pictured
  <2> QED
    BY <1>1, <1>2, <1>3, <2>1, <2>2, AtWork, RepliedSound
<1>4. CASE \E h \in ran[q] \ UNION {Followed, Commands, Endless} : Runs(q, h)
  <2>1. PICK h : h \notin Followed \cup Commands /\ Runs(q, h)
    BY <1>4
  <2>2. /\ pc[q] = "running" /\ Reached(Task(q)) = {h} /\ UnderWay(q) /\ pc[q] \in Working
        /\ Reached(Task(q)) \cap Commands = {}
    BY <2>1, RunsFacts DEF Sound, Working
  <2>3. Task(q) \notin {"getUserByCredential", "createUser"}
    <3>1. Task(q) \in {"getUserByCredential", "createUser"} => h = Task(q)
      BY <2>2, ReachedFacts DEF Reached, AuthHandlers, GigController
    <3> QED
      BY <2>1, <3>1 DEF Followed
  <2> QED
    BY <1>1, <1>2, <2>2, <2>3, AtWork, RepliedSound
<1> QED
  BY <1>3, <1>4 DEF Finish

LEMMA UploadSound ==
  ASSUME TypeOK, NEW q \in Requests, Sound(q), UploadAvatar(q)
  PROVE  Sound(q)'
<1>1. /\ UNCHANGED <<route, body, todo, ran, cut, wrote>> /\ avatars' = avatars \cup {q}
      /\ pc'[q] = "uploaded" /\ pc[q] \in Working
  BY DEF UploadAvatar, request, Goto, TypeOK, Runs, Working
<1>2. Task(q) = "createUser" /\ route[q] = "createUser" /\ pc[q] # "written"
  BY <1>1, SignUpWork DEF UploadAvatar
<1> QED
  BY <1>1, <1>2, MovedSound

LEMMA CreateUserSound ==
  ASSUME TypeOK, NEW q \in Requests, Sound(q), CreateUser(q)
  PROVE  Sound(q)'
<1>1. /\ UNCHANGED <<route, body, todo, ran, cut, avatars>> /\ pc[q] \in Working
      /\ body[q].picture => q \in avatars
  BY DEF CreateUser, request, Runs, Working, Sound, Pictured
<1>2. /\ Task(q) = "createUser" /\ Reached(Task(q)) \cap Commands # {} /\ route[q] = "createUser"
      /\ pc[q] # "written"
  BY <1>1, SignUpWork DEF CreateUser, Commands
<1>3. CASE Reply(q, "ALREADY_EXISTS") /\ UNCHANGED <<wrote, valid, password>>
  <2>1. pc'[q] = "replied" /\ reply'[q] = "ALREADY_EXISTS"
    BY <1>3, ReplyFacts
  <2>2. "ALREADY_EXISTS" \in Codes \ {"UNAVAILABLE"}
    BY DEF Codes
  <2> QED
    BY <1>1, <1>2, <1>3, <2>1, <2>2, AtWork, RepliedSound
<1>4. CASE wrote' = wrote \cup {q} /\ Goto(q, "written")
  <2>1. pc'[q] = "written"
    BY <1>4 DEF Goto, TypeOK
  <2> QED
    BY <1>1, <1>2, <1>4, <2>1, MovedSound
<1> QED
  BY <1>3, <1>4 DEF CreateUser

LEMMA GetUserSound ==
  ASSUME TypeOK, NEW q \in Requests, Sound(q), GetUser(q)
  PROVE  Sound(q)'
<1>1. /\ UNCHANGED <<route, body, todo, ran, wrote, avatars, cut, valid, password>>
      /\ UnderWay(q) /\ pc[q] = "running" /\ Reached(Task(q)) = {"getUserById"}
      /\ pc[q] \in Working
  BY RunsFacts DEF GetUser, request, store, Sound, Working
<1>2. PICK code \in {"OK", "NOT_FOUND"} : Reply(q, code)
  BY DEF GetUser
<1>3. pc'[q] = "replied" /\ reply'[q] = code
  BY <1>2, ReplyFacts
<1>4. Reached(Task(q)) \cap Commands = {}
  BY <1>1 DEF Commands
<1>5. Task(q) = "getUserById"
  BY <1>1, TaskOf DEF Followed
<1>6. route[q] # "loginUser"
  BY <1>1, <1>5, AtWork
<1>7. code \in Codes \ {"UNAVAILABLE"}
  BY DEF Codes
<1> QED
  BY <1>1, <1>3, <1>4, <1>5, <1>6, <1>7, AtWork, RepliedSound

LEMMA VerifySound ==
  ASSUME TypeOK, NEW q \in Requests, Sound(q), VerifyPassword(q)
  PROVE  Sound(q)'
<1>1. /\ UNCHANGED <<route, body, todo, ran, wrote, avatars, cut, valid, password>>
      /\ pc[q] = "found" /\ Task(q) = "getUserByCredential" /\ pc[q] \in Working
  BY DEF VerifyPassword, request, store, Working
<1>2. PICK code \in {"OK", "NOT_FOUND"} :
         Reply(q, code) /\ (code = "OK" <=> row[q] = body[q].word)
  BY DEF VerifyPassword
<1>3. pc'[q] = "replied" /\ reply'[q] = code
  BY <1>2, ReplyFacts
<1>4. Reached(Task(q)) \cap Commands = {}
  BY <1>1, ReachedFacts DEF Commands
<1>5. ASSUME route[q] = "loginUser" PROVE IF code = "OK" THEN Right(q) ELSE Wrong(q)
  <2>1. body[q].exact /\ row[q] \in valid[q]
    BY <1>1, <1>5 DEF Sound, Judged
  <2> QED
    BY <1>2, <2>1 DEF Right, Wrong
<1>6. code \in Codes \ {"UNAVAILABLE"}
  BY DEF Codes
<1> QED
  BY <1>1, <1>3, <1>4, <1>5, <1>6, AtWork, RepliedSound

LEMMA ResetSound ==
  ASSUME TypeOK, NEW q \in Requests, Sound(q), ResetPassword(q)
  PROVE  Sound(q)'
<1>1. /\ UNCHANGED <<route, body, todo, ran, cut, avatars>> /\ wrote' = wrote \cup {q}
      /\ pc[q] = "found" /\ Task(q) = "resetPassword" /\ pc[q] \in Working
      /\ pc'[q] = "written"
  BY DEF ResetPassword, request, Working, Goto, TypeOK
<1>2. route[q] = "resetPassword" /\ ~body[q].picture
  BY <1>1, AtWork, BusyFacts
<1>3. Reached(Task(q)) \cap Commands # {}
  <2>1. "resetPassword" \notin DOMAIN GigController
    BY DEF GigController
  <2> QED
    BY <1>1, <2>1 DEF Reached, AuthHandlers, Commands
<1> QED
  BY <1>1, <1>2, <1>3, MovedSound

(* A handler may fail after it has written; the code says so.              *)
LEMMA ThrowsSound ==
  ASSUME TypeOK, NEW q \in Requests, Sound(q), HandlerThrows(q)
  PROVE  Sound(q)'
<1>1. PICK h : Fails(q, h) /\ Reply(q, Failure(h))
  BY DEF HandlerThrows
<1>2. /\ UNCHANGED <<route, body, todo, ran, wrote, avatars, cut, valid, password>>
      /\ pc[q] \in Working /\ h \in Reached(Task(q))
  BY <1>1 DEF HandlerThrows, request, store, Fails
<1>3. pc'[q] = "replied" /\ reply'[q] = Failure(h)
  BY <1>1, ReplyFacts
<1>4. Failure(h) \in Unexpected /\ Failure(h) \in Codes \ {"UNAVAILABLE", "OK", "NOT_FOUND"}
  BY EndFacts DEF Codes, Unexpected
<1>5. Task(q) = "createUser" => Failure(h) = "INTERNAL"
  <2>1. Task(q) = "createUser" => h = "createUser"
    BY <1>2 DEF Reached, AuthHandlers, GigController
  <2> QED
    BY <2>1, EndFacts
<1> QED
  BY <1>2, <1>3, <1>4, <1>5, AtWork, RepliedSound

(* The row that is found is the password the account has now.              *)
LEMMA FindRowSound ==
  ASSUME TypeOK, NEW q \in Requests, Sound(q), FindRow(q)
  PROVE  Sound(q)'
<1> DEFINE a == IF route[q] = "resetPassword" THEN who[q] ELSE body[q].account
<1>1. /\ UNCHANGED <<route, body, todo, answer, ran, wrote, avatars, cut, valid, password>>
      /\ pc[q] = "running" /\ pc[q] \in Working
  BY DEF FindRow, request, store, Runs, Working
<1>2. /\ Busy(q) /\ UnderWay(q) /\ Judged(q)
      /\ Task(q) \in {"getUserByCredential", "resetPassword"}
      /\ body[q].good /\ body[q].word \in Words
  BY <1>1, AtWork, FollowedFacts DEF FindRow
<1>3. route[q] = "loginUser" => /\ body[q].account \in Accounts /\ a = body[q].account
                                /\ password[body[q].account] \in valid[q]
  <2>1. body[q] \in Bodies(route[q])
    BY <1>2, BusyFacts
  <2>2. route[q] = "loginUser" => body[q].account \in Accounts
    BY <1>2, <2>1, BodyFacts
  <2>3. route[q] = "loginUser" => password[body[q].account] \in valid[q]
    BY <1>1, <1>2 DEF Judged
  <2> QED
    BY <2>2, <2>3
<1>4. CASE ~(body[q].exact /\ Registered(a))
  <2>1. pc'[q] = "replied" /\ reply'[q] = "NOT_FOUND"
    BY <1>4, ReplyFacts DEF FindRow
  <2>2. ASSUME route[q] = "loginUser" PROVE Wrong(q)
    <3>1. ~body[q].exact \/ password[body[q].account] = NoWord
      BY <1>3, <1>4, <2>2 DEF Registered
    <3> QED
      BY <1>2, <1>3, <2>2, <3>1, NobodyAssumption DEF Wrong
  <2>3. "NOT_FOUND" \in Codes \ {"UNAVAILABLE"}
    BY DEF Codes
  <2> QED
    BY <1>1, <1>2, <2>1, <2>2, <2>3, AtWork, RepliedSound
<1>5. CASE body[q].exact /\ Registered(a)
  <2>1. pc'[q] = "found" /\ row'[q] = password[a] /\ UNCHANGED reply
    BY <1>5 DEF FindRow, Goto, TypeOK
  <2>2. Task(q)' = Task(q)
    BY <1>1 DEF Task
  <2>3. UnderWay(q)'
    <3>1. /\ route[q] \in Routes /\ body[q] \in Bodies(route[q]) /\ todo[q] \in Left(route[q])
      BY <1>2, BusyFacts
    <3>2. (body[q] \in Bodies(route[q]))'
      BY <1>1, <3>1 DEF Bodies
    <3> QED
      BY <1>1, <1>2, <2>1, <2>2, <3>1, <3>2 DEF UnderWay
  <2>4. Obeyed(q)'
    BY <1>1, <2>1, <2>2 DEF Sound, Obeyed, Working
  <2>5. Admitted(q)' /\ Unstarted(q)' /\ Pictured(q)'
    BY <1>1, <2>1, AtWork DEF Admitted, Unstarted, Sound, Pictured, Got
  <2>6. Judged(q)'
    BY <1>1, <1>2, <1>3, <1>5, <2>1, <2>2 DEF Judged, Got, Busy
  <2> QED
    BY <2>3, <2>4, <2>5, <2>6 DEF Sound
<1> QED
  BY <1>4, <1>5

LEMMA ActorSound ==
  ASSUME TypeOK, NEW q \in Requests, Sound(q), Arrive(q) \/ Step(q)
  PROVE  Sound(q)'
BY ArriveSound, PipeSound, SendSound, ReceiveSound, DecodeSound, RefuseSound, WriteSound,
   FinishSound, UploadSound, CreateUserSound, GetUserSound, FindRowSound, VerifySound,
   ResetSound, ThrowsSound DEF Step
-----------------------------------------------------------------------------
(* The steps of one request as the others see them.                        *)
Elsewhere(k) == /\ route'[k] = route[k] /\ body'[k] = body[k] /\ pc'[k] = pc[k]
                /\ todo'[k] = todo[k] /\ reply'[k] = reply[k] /\ answer'[k] = answer[k]
                /\ ran'[k] = ran[k] /\ row'[k] = row[k]
                /\ k \in wrote' <=> k \in wrote
                /\ k \in avatars' <=> k \in avatars
                /\ k \in cut' <=> k \in cut

Unmoved(k) == /\ valid[k] \subseteq valid'[k]
              /\ Busy(k) /\ body[k].account \in Accounts /\ password[body[k].account] \in valid[k]
                    => password'[body[k].account] \in valid'[k]

LEMMA SetKeeps ==
  ASSUME TypeOK, NEW a, NEW w, SetPassword(a, w), NEW k \in Requests
  PROVE  Unmoved(k)
<1>1. /\ valid'[k] = IF pc[k] # "answered" /\ valid[k] # {} /\ body[k].account = a
                     THEN valid[k] \cup {w} ELSE valid[k]
      /\ \A b \in Accounts : password'[b] = IF b = a THEN w ELSE password[b]
  BY DEF SetPassword, TypeOK
<1>2. valid[k] \subseteq valid'[k]
  BY <1>1
<1>3. ASSUME Busy(k), body[k].account \in Accounts, password[body[k].account] \in valid[k]
      PROVE  password'[body[k].account] \in valid'[k]
  BY <1>1, <1>3 DEF Busy
<1> QED
  BY <1>2, <1>3 DEF Unmoved

LEMMA StepElsewhere ==
  ASSUME TypeOK, NEW q \in Requests, NEW k \in Requests, k # q, Arrive(q) \/ Step(q)
  PROVE  Elsewhere(k) /\ Unmoved(k)
<1> USE DEF Elsewhere
<1>a. ASSUME NEW status, Answer(q, status)
      PROVE  /\ pc'[k] = pc[k] /\ answer'[k] = answer[k] /\ todo'[k] = todo[k]
             /\ reply'[k] = reply[k] /\ row'[k] = row[k]
  BY <1>a DEF Answer, Goto, TypeOK
<1>r. ASSUME NEW code, Reply(q, code) PROVE pc'[k] = pc[k] /\ reply'[k] = reply[k]
  BY <1>r DEF Reply, Goto, TypeOK
<1>g. ASSUME NEW label, Goto(q, label) PROVE pc'[k] = pc[k]
  BY <1>g DEF Goto, TypeOK
<1>u. UNCHANGED <<valid, password>> => Unmoved(k)
  BY DEF Unmoved
<1>1. CASE Arrive(q)
  <2>1. /\ UNCHANGED <<ran, wrote, avatars, cut, password>>
        /\ route'[k] = route[k] /\ body'[k] = body[k] /\ valid'[k] = valid[k]
    BY <1>1 DEF Arrive, store, TypeOK
  <2>2. \/ Answer(q, 401)
        \/ /\ Goto(q, "ready") /\ UNCHANGED <<reply, answer, row>>
           /\ \E r \in Routes : todo' = [todo EXCEPT ![q] = Work(r)]
    BY <1>1 DEF Arrive
  <2>3. /\ pc'[k] = pc[k] /\ answer'[k] = answer[k] /\ todo'[k] = todo[k]
        /\ reply'[k] = reply[k] /\ row'[k] = row[k]
    BY <1>a, <1>g, <2>2 DEF TypeOK
  <2> QED
    BY <2>1, <2>3 DEF Unmoved
<1>2. CASE Pipe(q)
  <2>1. UNCHANGED <<route, body, ran, wrote, avatars, cut, valid, password>>
    BY <1>2 DEF Pipe, request, store
  <2>2. \/ \E status : Answer(q, status)
        \/ todo' = [todo EXCEPT ![q] = Tail(@)] /\ UNCHANGED <<pc, reply, answer, row>>
    BY <1>2 DEF Pipe
  <2> QED
    BY <1>a, <1>u, <2>1, <2>2 DEF TypeOK
<1>3. CASE Send(q)
  <2>1. UNCHANGED <<route, body, todo, answer, wrote, avatars, row, valid, password>>
    BY <1>3 DEF Send, request, store
  <2>2. \/ \E code : Reply(q, code)
        \/ Goto(q, "running") /\ UNCHANGED reply
    BY <1>3 DEF Send
  <2>3. /\ k \in cut' <=> k \in cut
        /\ ran'[k] = ran[k]
    BY <1>3 DEF Send, TypeOK
  <2> QED
    BY <1>g, <1>r, <1>u, <2>1, <2>2, <2>3
<1>4. CASE Receive(q)
  <2>1. UNCHANGED <<route, body, ran, wrote, avatars, cut, valid, password>>
    BY <1>4 DEF Receive, request
  <2>2. \/ \E status : Answer(q, status)
        \/ /\ Goto(q, "ready") /\ todo' = [todo EXCEPT ![q] = Tail(@)]
           /\ UNCHANGED <<reply, answer, row>>
    BY <1>4 DEF Receive
  <2> QED
    BY <1>a, <1>g, <1>u, <2>1, <2>2 DEF TypeOK
<1>5. CASE \/ DecodeToken(q) \/ Refuse(q) \/ Finish(q) \/ GetUser(q) \/ VerifyPassword(q)
           \/ HandlerThrows(q)
  <2>1. UNCHANGED <<route, body, todo, answer, ran, wrote, avatars, cut, row, valid, password>>
    BY <1>5 DEF DecodeToken, Refuse, Finish, GetUser, VerifyPassword, HandlerThrows, request, store
  <2>2. \E code : Reply(q, code)
    BY <1>5 DEF DecodeToken, Refuse, Finish, GetUser, VerifyPassword, HandlerThrows
  <2> QED
    BY <1>r, <1>u, <2>1, <2>2
<1>6. CASE Write(q) \/ UploadAvatar(q) \/ CreateUser(q) \/ ResetPassword(q)
  <2>1. UNCHANGED <<route, body, todo, answer, ran, cut, row>>
    BY <1>6 DEF Write, UploadAvatar, CreateUser, ResetPassword, request
  <2>2. (\E code : Reply(q, code)) \/ ((\E label : Goto(q, label)) /\ UNCHANGED reply)
    BY <1>6 DEF Write, UploadAvatar, CreateUser, ResetPassword
  <2>3. (k \in wrote' <=> k \in wrote) /\ (k \in avatars' <=> k \in avatars)
    BY <1>6 DEF Write, UploadAvatar, CreateUser, ResetPassword
  <2>4. UNCHANGED <<valid, password>> \/ \E a, w : SetPassword(a, w)
    BY <1>6 DEF Write, UploadAvatar, CreateUser, ResetPassword, store
  <2>5. Unmoved(k)
    BY <1>u, <2>4, SetKeeps
  <2> QED
    BY <1>g, <1>r, <2>1, <2>2, <2>3, <2>5
<1>7. CASE FindRow(q)
  <2>1. UNCHANGED <<route, body, todo, answer, ran, wrote, avatars, cut, valid, password>>
    BY <1>7 DEF FindRow, request, store
  <2>2. \/ Reply(q, "NOT_FOUND") /\ UNCHANGED row
        \/ Goto(q, "found") /\ UNCHANGED reply /\ \E v : row' = [row EXCEPT ![q] = v]
    BY <1>7 DEF FindRow
  <2> QED
    BY <1>g, <1>r, <1>u, <2>1, <2>2 DEF TypeOK
<1> QED
  BY <1>1, <1>2, <1>3, <1>4, <1>5, <1>6, <1>7 DEF Step

LEMMA OthersSound ==
  ASSUME TypeOK, NEW k \in Requests, Sound(k), Elsewhere(k), Unmoved(k)
  PROVE  Sound(k)'
<1>1. Busy(k) /\ body[k].good /\ route[k] = "loginUser" => body[k].account \in Accounts
  BY BodyFacts DEF Sound, UnderWay
<1> QED
  BY <1>1, OthersKeep DEF Elsewhere, Unmoved

(* Its service died: the request is replied to or hangs.                   *)
LEMMA DiesSound ==
  ASSUME TypeOK, \A q \in Requests : Sound(q), NEW s \in Services, ServiceDies(s),
         NEW k \in Requests
  PROVE  Sound(k)'
<1> DEFINE had == {q \in Requests : /\ pc[q] \in Working \cup {"replied"}
                                    /\ ServiceOf(Task(q)) = s}
<1>1. /\ UNCHANGED <<route, body, todo, answer, ran, wrote, avatars, row, valid, password>>
      /\ cut' = cut \cup had
      /\ Task(k)' = Task(k)
  BY DEF ServiceDies, request, store, Task
<1>2. PICK fate \in {"replied", "hung"} :
         pc' = [q \in Requests |-> IF q \in had THEN fate ELSE pc[q]]
  BY DEF ServiceDies
<1>3. reply' = [q \in Requests |-> IF q \in had THEN Unreachable(s) ELSE reply[q]]
  BY DEF ServiceDies
<1>4. CASE k \in had
  <2>1. pc[k] \in {"running", "uploaded", "found", "written", "replied"}
    BY <1>4 DEF Working
  <2>2. /\ pc'[k] = fate /\ reply'[k] \in {"none", "UNAVAILABLE"} /\ k \in cut'
    BY <1>1, <1>2, <1>3, <1>4 DEF Unreachable
  <2> HIDE DEF had
  <2>3. /\ UnderWay(k) /\ Judged(k) /\ Busy(k) /\ Task(k) # "pipe"
        /\ route[k] \in Routes /\ body[k] \in Bodies(route[k]) /\ todo[k] \in Left(route[k])
        /\ Task(k) \notin {"pipe", "decodeToken"} => body[k].good
    BY <2>1 DEF Sound, UnderWay, Busy
  <2>4. (body[k] \in Bodies(route[k]))'
    BY <1>1, <2>3 DEF Bodies
  <2>5. UnderWay(k)'
    BY <1>1, <2>2, <2>3, <2>4 DEF UnderWay, Codes
  <2>6. Obeyed(k)' /\ Admitted(k)' /\ Unstarted(k)' /\ Pictured(k)'
    BY <2>2 DEF Obeyed, Admitted, Unstarted, Pictured, Got
  <2>7. Judged(k)'
    BY <1>1, <2>1, <2>2, <2>3 DEF Judged, Right, Wrong, Got, Busy
  <2> QED
    BY <2>5, <2>6, <2>7 DEF Sound
<1>5. CASE k \notin had
  <2>1. pc'[k] = pc[k] /\ reply'[k] = reply[k] /\ (k \in cut' <=> k \in cut)
    BY <1>1, <1>2, <1>3, <1>5
  <2> HIDE DEF had
  <2>2. Elsewhere(k) /\ Unmoved(k)
    BY <1>1, <2>1 DEF Elsewhere, Unmoved
  <2> QED
    BY <2>2, OthersSound
<1> QED
  BY <1>4, <1>5
-----------------------------------------------------------------------------
LEMMA InvStep == IndInv /\ [Next]_vars => IndInv'
<1> SUFFICES ASSUME IndInv, [Next]_vars PROVE IndInv'
  OBVIOUS
<1>1. TypeOK /\ \A q \in Requests : Sound(q) /\ UnderWay(q)
  BY DEF IndInv, Sound
<1>2. TypeOK'
  BY <1>1, TypeStep
<1>3. ASSUME NEW k \in Requests PROVE Sound(k)'
  <2>1. ASSUME NEW q \in Requests, Arrive(q) \/ Step(q) PROVE Sound(k)'
    <3>1. CASE k = q
      BY <1>1, <2>1, <3>1, ActorSound
    <3>2. CASE k # q
      BY <1>1, <2>1, <3>2, StepElsewhere, OthersSound
    <3> QED
      BY <3>1, <3>2
  <2>2. ASSUME NEW s \in Services, ServiceDies(s) PROVE Sound(k)'
    BY <1>1, <2>2, DiesSound
  <2>3. CASE Lapse \/ UNCHANGED vars
    <3>1. Elsewhere(k) /\ Unmoved(k)
      BY <2>3 DEF Lapse, vars, request, store, Elsewhere, Unmoved
    <3> QED
      BY <1>1, <3>1, OthersSound
  <2> QED
    BY <2>1, <2>2, <2>3 DEF Next
<1> QED
  BY <1>2, <1>3 DEF IndInv

LEMMA Inductive == Spec => []IndInv
BY InitSound, InvStep, PTL DEF Spec

(* Every variable of the gateway keeps its type: in particular the tasks   *)
(* left to a request, the codes and the statuses are those of the tables   *)
(* of the controllers and of the mapper.                                   *)
THEOREM TypeCorrect == Spec => []TypeOK
<1>1. IndInv => TypeOK
  BY DEF IndInv
<1> QED
  BY <1>1, Inductive, PTL

(* The status the client gets is truthful, whatever its route, whatever    *)
(* the services answer and whenever they die: a command answered 200 wrote *)
(* what it should and stored its picture, and a refusal came before any    *)
(* write, leaving at most the picture of a sign-up that came too late.     *)
THEOREM Truthful == Spec => []StatusIsTruthful
<1>1. IndInv => StatusIsTruthful
  <2> SUFFICES ASSUME IndInv, NEW q \in Requests
               PROVE  /\ Got(q, 200) /\ ran[q] \cap Commands # {} =>
                            q \in wrote /\ (body[q].picture => q \in avatars)
                      /\ \A refusal \in {400, 401, 404, 409} : Got(q, refusal) =>
                            q \in cut \/ (q \notin wrote /\ (q \in avatars => refusal = 409))
    BY DEF StatusIsTruthful
  <2>1. Obeyed(q) /\ Admitted(q) /\ Pictured(q)
    BY DEF IndInv, Sound
  <2>2. Got(q, 200) /\ ran[q] \cap Commands # {} =>
           q \in wrote /\ (body[q].picture => q \in avatars)
    BY <2>1 DEF Obeyed, Pictured, Got, Working
  <2>3. \A refusal \in {400, 401, 404, 409} : Got(q, refusal) =>
           q \in cut \/ (q \notin wrote /\ (q \in avatars => refusal = 409))
    BY <2>1 DEF Admitted, Pictured, Got
  <2> QED
    BY <2>2, <2>3
<1> QED
  BY <1>1, Inductive, PTL

(* A login is judged by a password the account had while it was under way. *)
THEOREM Judgement == Spec => []LoginIsJudged
<1>1. IndInv => LoginIsJudged
  <2> SUFFICES ASSUME IndInv, NEW q \in Requests, route[q] = "loginUser"
               PROVE  /\ Got(q, 200) => body[q].exact /\ body[q].word \in valid[q]
                      /\ Got(q, 404) => \/ q \in cut \/ ~body[q].exact
                                        \/ \E w \in valid[q] : w # body[q].word
    BY DEF LoginIsJudged
  <2>1. pc[q] # "idle" /\ Judged(q) => (Got(q, 200) => Right(q)) /\ (Got(q, 404) => Wrong(q))
    BY DEF Judged
  <2>2. Judged(q)
    BY DEF IndInv, Sound
  <2> QED
    BY <2>1, <2>2 DEF Got, Right, Wrong
<1> QED
  BY <1>1, Inductive, PTL
=============================================================================
