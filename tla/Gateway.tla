------------------------------ MODULE Gateway ------------------------------
(***************************************************************************)
(* The HTTP gateway: what becomes of a request, from its route to the      *)
(* status it is answered with.                                             *)
(*                                                                         *)
(* A route is named after its controller method.  The guard asks the auth  *)
(* service to decode the cookie, the pipe looks at the form, the service   *)
(* method sends one or two messages to the auth and user services (gRPC)   *)
(* or the gig service (TCP), and a failure is mapped to a status.  Signing *)
(* up, logging in and setting a password are followed down to the row of   *)
(* the account; of the other handlers the order of what they do is kept:   *)
(* the refusals, the writes, the end.                                      *)
(*                                                                         *)
(* Abstractions.  Requests come from one browser and each is sent once.  A *)
(* cookie holds a token, or what is none, and a token its account.  An     *)
(* account stands for its address; exact is FALSE when the client types it *)
(* with capitals; a form that signs up may have a picture.  valid is a     *)
(* history of the passwords an account had during a request.               *)
(***************************************************************************)
EXTENDS Naturals, Sequences

CONSTANTS Requests,   \* what the browser sends
          Accounts,   \* people who may sign up
          Words,      \* passwords they type
          Nobody,     \* no account
          Garbled,    \* whose cookie is no token
          NoWord      \* the password of an account that is not there

ASSUME NobodyAssumption == /\ {Nobody, Garbled} \cap Accounts = {} /\ Nobody # Garbled
                           /\ NoWord \notin Words

VARIABLES route,     \* the route of each request
          body,      \* what it carries
          who,       \* the account of its cookie
          pc,        \* where it stands
          todo,      \* what the gateway still has to do for it
          reply,     \* the code of the last reply
          answer,    \* the HTTP status, 0 until there is one
          ran,       \* handlers that ran for it
          wrote,     \* requests that changed a database
          avatars,   \* requests whose picture is in S3
          cut,       \* requests that met a dead service
          row,       \* the password the handler of each request read
          valid,     \* passwords the account named had meanwhile
          password,  \* of each account, in the auth table
          jar        \* the account of the browser's cookies

request == <<route, body, who>>
store   == <<password, jar>>
vars    == <<request, pc, todo, reply, answer, ran, wrote, avatars, cut, row, valid, store>>

Services == {"auth", "user", "gig"}

-----------------------------------------------------------------------------
(* The messages each method of the gateway's services sends.               *)

AuthService == [getUserByToken |-> <<"getUserById">>,
                createUser |-> <<"createUser">>,
                loginUser |-> <<"getUserByCredential", "createToken">>,
                verifyEmail |-> <<"verifyEmail">>,
                forgotPassword |-> <<"forgotPassword">>,
                resetPassword |-> <<"resetPassword">>,
                resetPasswordWithToken |-> <<"resetPasswordWithToken">>,
                resendEmail |-> <<"resendEmail">>,
                seedUser |-> <<"seedUser">>]

SearchService == [searchInAuth |-> <<"searchGigs">>]

SellerService == [getSellerById |-> <<"getSellerById">>, createSeller |-> <<"createSeller">>]

BuyerService == [getUserBuyerWithEmail |-> <<"getUserBuyerWithEmail">>]

GigService == [createGig |-> <<"more-like-this">>,
               getGigById |-> <<"more-like-this">>,
               getActiveGigByUserId |-> <<"more-like-this">>,
               getInactiveGigByUserId |-> <<"get-inactive-gig-by-user-id">>,
               updateGig |-> <<"update-gig">>,
               updateStatusGig |-> <<"update-gig-status">>,
               deleteGig |-> <<"delete-gig">>]

(* These two give 400 for whatever failed. *)
GigSearches == [searchGigs |-> <<"search-gigs">>, moreLikeThis |-> <<"more-like-this">>]

(* These give 500, the seed because nothing maps its errors. *)
CategoryService == [listCategories |-> <<"get_categories">>,
                    listSubcategories |-> <<"get_subcategories">>,
                    getCategoryTree |-> <<"get_all_categories_with_subcategories">>,
                    searchCategories |-> <<"search_categories_and_subcategories">>]
Seed == [seedGig |-> <<"seed-gig">>]

AuthRoutes == DOMAIN AuthService \cup DOMAIN SearchService
UserRoutes == DOMAIN SellerService \cup DOMAIN BuyerService
GigRoutes == UNION {DOMAIN GigService, DOMAIN GigSearches, DOMAIN CategoryService, DOMAIN Seed}
Routes == AuthRoutes \cup UserRoutes \cup GigRoutes

Messages(r) == CASE r \in DOMAIN AuthService -> AuthService[r]
                 [] r \in DOMAIN SearchService -> SearchService[r]
                 [] r \in DOMAIN SellerService -> SellerService[r]
                 [] r \in DOMAIN BuyerService -> BuyerService[r]
                 [] r \in DOMAIN GigService -> GigService[r]
                 [] r \in DOMAIN GigSearches -> GigSearches[r]
                 [] r \in DOMAIN CategoryService -> CategoryService[r]
                 [] r \in DOMAIN Seed -> Seed[r]

(* Routes behind JwtAuthGuard. *)
AuthGuarded == {"getUserByToken", "resetPassword", "seedUser"}
GigGuarded == {"createGig", "updateGig", "updateStatusGig", "deleteGig",
               "getActiveGigByUserId", "getInactiveGigByUserId", "seedGig"}
Guarded == AuthGuarded \cup UserRoutes \cup GigGuarded

(* Routes whose form the global ValidationPipe looks at.  A mistake in a   *)
(* list of the seller form has no constraint of its own and breaks the     *)
(* pipe's exceptionFactory; a name or an address that is not a string has  *)
(* no toLowerCase for the transformation of the form that signs up.        *)
AuthForms == DOMAIN AuthService \ {"getUserByToken"}
GigForms == {"createGig", "updateGig", "updateStatusGig", "searchGigs", "searchCategories"}
Forms == AuthForms \cup GigForms \cup {"searchInAuth", "createSeller"}
PipeStatus(r) == IF r \in {"createSeller", "createUser"} THEN {400, 500} ELSE {400}

(* The gateway's work: the guard's question, the pipe, the messages.       *)
Work(r) == (IF r \in Guarded THEN <<"decodeToken">> ELSE <<>>) \o <<"pipe">> \o Messages(r)

-----------------------------------------------------------------------------
(* The handlers of the services and how they end.                          *)

AuthHandlers == {"createUser", "getUserById", "verifyEmail", "forgotPassword",
                 "resetPassword", "resetPasswordWithToken", "resendEmail",
                 "getUserByCredential", "createToken", "decodeToken", "seedUser", "searchGigs"}

SellerHandlers == {"createSeller", "updateSeller", "getSellerById"}
BuyerHandlers == {"getUserBuyerWithEmail", "getUserBuyerWithUsername"}

(* Of two handlers of one pattern the one registered last is kept.         *)
GigController ==
    [m \in {"get-inactive-gig-by-user-id", "get-active-gig-by-user-id", "create-gig",
            "delete-gig", "update-gig", "update-gig-status", "search-gigs", "seed-gig"} |->
        IF m = "search-gigs" THEN "more-like-this" ELSE m]

CategoryHandlers == {CategoryService[r][1] : r \in DOMAIN CategoryService}

ServiceOf(m) == CASE m \in AuthHandlers -> "auth"
                  [] m \in SellerHandlers \cup BuyerHandlers -> "user"
                  [] OTHER -> "gig"

(* The handler a message reaches; a pattern without one reaches none.      *)
Reached(m) == CASE m \in DOMAIN GigController -> {GigController[m]}
                [] m \in AuthHandlers \cup SellerHandlers \cup BuyerHandlers
                         \cup CategoryHandlers -> {m}
                [] OTHER -> {}

(* Handlers that change a database when they come to their end.            *)
Commands == {"createUser", "verifyEmail", "forgotPassword", "resetPassword",
             "resendEmail", "seedUser", "createSeller", "seed-gig"}

(* Handlers that never come to their end: the password of a reset link is  *)
(* lost on the way to hash(), and toJSON() of null throws in all that      *)
(* change a gig.                                                           *)
Endless == {"resetPasswordWithToken", "update-gig", "update-gig-status", "delete-gig"}

Followed == {"createUser", "getUserById", "getUserByCredential", "resetPassword", "decodeToken"}

(* How a handler that is not followed may refuse what it was asked for.    *)
Refusals(h) == CASE h \in {"verifyEmail", "forgotPassword"} -> {"UNAUTHENTICATED"}
                 [] h \in {"resendEmail", "resetPasswordWithToken",
                           "getUserBuyerWithEmail"} -> {"NOT_FOUND"}
                 [] h = "createSeller" -> {"ALREADY_EXISTS"}
                 [] OTHER -> {}

(* How a handler fails, of itself or with its database; createUser maps    *)
(* every error, the others none.                                           *)
Failure(h) == IF h = "createUser" THEN "INTERNAL"
              ELSE IF ServiceOf(h) = "gig" THEN "none" ELSE "UNKNOWN"

-----------------------------------------------------------------------------
(* ErrorStatusMapper and the exception filter around it. *)
HttpStatus == [OK |-> 200, CANCELLED |-> 405, UNKNOWN |-> 502, INVALID_ARGUMENT |-> 422,
               DEADLINE_EXCEEDED |-> 408, NOT_FOUND |-> 404, ALREADY_EXISTS |-> 409,
               PERMISSION_DENIED |-> 403, RESOURCE_EXHAUSTED |-> 429,
               FAILED_PRECONDITION |-> 428, ABORTED |-> 405, OUT_OF_RANGE |-> 413,
               UNIMPLEMENTED |-> 501, INTERNAL |-> 500, UNAVAILABLE |-> 404,
               DATA_LOSS |-> 500, UNAUTHENTICATED |-> 401]

(* Mutant: an error without a code is given no status. *)
FilterStatusMissing(code) == IF code \in DOMAIN HttpStatus THEN HttpStatus[code] ELSE 0

(* An error without a gRPC code, as all those of TCP, is a 500. *)
FilterStatus(code) == IF code \in DOMAIN HttpStatus THEN HttpStatus[code] ELSE 500

Status(r, code) == CASE r \in DOMAIN GigSearches -> 400
                     [] r \in DOMAIN CategoryService \cup DOMAIN Seed -> 500
                     [] OTHER -> FilterStatus(code)

-----------------------------------------------------------------------------
Blank == [account |-> Nobody, word |-> NoWord, exact |-> TRUE, picture |-> FALSE, good |-> TRUE]

Named == [account : Accounts, word : Words, exact : BOOLEAN, picture : BOOLEAN, good : {TRUE}]

Bodies(r) == (IF r \in Forms THEN {[Blank EXCEPT !.good = FALSE]} ELSE {})
             \cup CASE r = "loginUser" -> {b \in Named : ~b.picture}
                    [] r = "createUser" -> {b \in Named : b.exact}
                    [] r = "resetPassword" -> {[Blank EXCEPT !.word = w] : w \in Words}
                    [] OTHER -> {Blank}

Registered(a) == a \in Accounts /\ password[a] # NoWord

Init == /\ route = [q \in Requests |-> "none"] /\ body = [q \in Requests |-> Blank]
        /\ who = [q \in Requests |-> Nobody] /\ pc = [q \in Requests |-> "idle"]
        /\ todo = [q \in Requests |-> <<>>] /\ reply = [q \in Requests |-> "none"]
        /\ answer = [q \in Requests |-> 0] /\ ran = [q \in Requests |-> {}]
        /\ wrote = {} /\ avatars = {} /\ cut = {} /\ row = [q \in Requests |-> NoWord]
        /\ valid = [q \in Requests |-> {}]
        /\ password \in [Accounts -> Words \cup {NoWord}]
        /\ jar \in {a \in Accounts : password[a] # NoWord} \cup {Nobody, Garbled}

Goto(q, label) == pc' = [pc EXCEPT ![q] = label]

Answer(q, status) == /\ Goto(q, "answered")
                     /\ answer' = [answer EXCEPT ![q] = status]
                     /\ todo' = [todo EXCEPT ![q] = <<>>]
                     /\ reply' = [reply EXCEPT ![q] = "none"]
                     /\ row' = [row EXCEPT ![q] = NoWord]

Reply(q, code) == Goto(q, "replied") /\ reply' = [reply EXCEPT ![q] = code]

(* The request arrives with the browser's cookie; the guard refuses one    *)
(* that has none.                                                          *)
Arrive(q) ==
    /\ pc[q] = "idle"
    /\ \E r \in Routes : \E b \in Bodies(r) :
          /\ route' = [route EXCEPT ![q] = r]
          /\ body' = [body EXCEPT ![q] = b]
          /\ valid' = IF r = "loginUser" /\ b.good
                      THEN [valid EXCEPT ![q] = {password[b.account]}] ELSE valid
          /\ IF r \in Guarded /\ jar = Nobody
             THEN Answer(q, 401)
             ELSE /\ Goto(q, "ready") /\ UNCHANGED <<reply, answer, row>>
                  /\ todo' = [todo EXCEPT ![q] = Work(r)]
    /\ who' = [who EXCEPT ![q] = jar]
    /\ UNCHANGED <<ran, wrote, avatars, cut, store>>

Task(q) == Head(todo[q])

(* The global ValidationPipe. *)
Pipe(q) == /\ pc[q] = "ready" /\ Task(q) = "pipe"
           /\ IF body[q].good
              THEN todo' = [todo EXCEPT ![q] = Tail(@)] /\ UNCHANGED <<pc, reply, answer, row>>
              ELSE \E status \in PipeStatus(route[q]) : Answer(q, status)
           /\ UNCHANGED <<request, ran, wrote, avatars, cut, valid, store>>

(* What the client library reports of a service it cannot reach: gRPC has  *)
(* a code for it, an error of a TCP socket has not.                        *)
Unreachable(s) == IF s = "gig" THEN "none" ELSE "UNAVAILABLE"

Send(q) == /\ pc[q] = "ready" /\ Task(q) # "pipe"
           /\ \/ /\ Reply(q, Unreachable(ServiceOf(Task(q))))
                 /\ cut' = cut \cup {q} /\ UNCHANGED ran
              \/ /\ ran' = [ran EXCEPT ![q] = @ \cup Reached(Task(q))]
                 /\ IF Reached(Task(q)) = {}
                    THEN Reply(q, "none")
                    ELSE Goto(q, "running") /\ UNCHANGED reply
                 /\ UNCHANGED cut
           /\ UNCHANGED <<request, todo, answer, wrote, avatars, row, valid, store>>

Runs(q, h) == pc[q] = "running" /\ h \in Reached(Task(q))

(* auth: decodeToken.                                                      *)
DecodeToken(q) ==
    /\ Runs(q, "decodeToken")
    /\ Reply(q, IF who[q] = Garbled THEN "UNAUTHENTICATED" ELSE "OK")
    /\ UNCHANGED <<request, todo, answer, ran, wrote, avatars, cut, row, valid, store>>

(* Mutant: the handler writes before it looks. *)
RefuseLate(q) ==
    /\ \E h \in ran[q] \ Followed : /\ pc[q] \in {"running", "written"} /\ h \in Reached(Task(q))
                                    /\ \E code \in Refusals(h) : Reply(q, code)
    /\ UNCHANGED <<request, todo, answer, ran, wrote, avatars, cut, row, valid, store>>

(* A handler that is not followed looks at what is there before it writes. *)
Refuse(q) ==
    /\ \E h \in ran[q] \ Followed : Runs(q, h) /\ \E code \in Refusals(h) : Reply(q, code)
    /\ UNCHANGED <<request, todo, answer, ran, wrote, avatars, cut, row, valid, store>>

Write(q) ==
    /\ \E h \in Commands \ Followed : Runs(q, h)
    /\ wrote' = wrote \cup {q}
    /\ Goto(q, "written")
    /\ UNCHANGED <<request, todo, reply, answer, ran, avatars, cut, row, valid, store>>

(* A command ends when it has written, a query that is not followed when   *)
(* it likes.                                                               *)
Finish(q) ==
    /\ \/ pc[q] = "written"
       \/ \E h \in ran[q] \ UNION {Followed, Commands, Endless} : Runs(q, h)
    /\ Reply(q, "OK")
    /\ UNCHANGED <<request, todo, answer, ran, wrote, avatars, cut, row, valid, store>>

(* The password of account a becomes w. *)
SetPassword(a, w) ==
    /\ password' = [password EXCEPT ![a] = w]
    /\ valid' = [q \in Requests |-> IF pc[q] # "answered" /\ valid[q] # {} /\ body[q].account = a
                                    THEN valid[q] \cup {w} ELSE valid[q]]

(* auth: createUser.  The picture goes to S3 before the row is written.    *)
UploadAvatar(q) ==
    /\ Runs(q, "createUser") /\ body[q].picture
    /\ avatars' = avatars \cup {q}
    /\ Goto(q, "uploaded")
    /\ UNCHANGED <<request, todo, reply, answer, ran, wrote, cut, row, valid, store>>

(* The insert, of an address the form put in lower case.  Nobody takes the *)
(* picture away when the address is taken.                                 *)
CreateUser(q) ==
    /\ pc[q] = "uploaded" \/ (Runs(q, "createUser") /\ ~body[q].picture)
    /\ IF Registered(body[q].account)
       THEN Reply(q, "ALREADY_EXISTS") /\ UNCHANGED <<wrote, valid, password>>
       ELSE /\ SetPassword(body[q].account, body[q].word)
            /\ wrote' = wrote \cup {q}
            /\ Goto(q, "written") /\ UNCHANGED reply
    /\ UNCHANGED <<request, todo, answer, ran, avatars, cut, row, jar>>

(* auth: getAuthUserById. *)
GetUser(q) ==
    /\ Runs(q, "getUserById")
    /\ Reply(q, IF Registered(who[q]) THEN "OK" ELSE "NOT_FOUND")
    /\ UNCHANGED <<request, todo, answer, ran, wrote, avatars, cut, row, valid, store>>

(* auth: getUserByCredential and resetPassword read the row first.         *)
FindRow(q) ==
    LET a == IF route[q] = "resetPassword" THEN who[q] ELSE body[q].account IN
    /\ Runs(q, "getUserByCredential") \/ Runs(q, "resetPassword")
    /\ IF body[q].exact /\ Registered(a)
       THEN Goto(q, "found") /\ row' = [row EXCEPT ![q] = password[a]] /\ UNCHANGED reply
       ELSE Reply(q, "NOT_FOUND") /\ UNCHANGED row
    /\ UNCHANGED <<request, todo, answer, ran, wrote, avatars, cut, valid, store>>

(* Mutant: the result of verifyPassword is not awaited, and a promise is true. *)
VerifyUnawaited(q) ==
    /\ pc[q] = "found" /\ Task(q) = "getUserByCredential"
    /\ Reply(q, "OK")
    /\ UNCHANGED <<request, todo, answer, ran, wrote, avatars, cut, row, valid, store>>

(* verifyPassword takes its time. *)
VerifyPassword(q) ==
    /\ pc[q] = "found" /\ Task(q) = "getUserByCredential"
    /\ Reply(q, IF row[q] = body[q].word THEN "OK" ELSE "NOT_FOUND")
    /\ UNCHANGED <<request, todo, answer, ran, wrote, avatars, cut, row, valid, store>>

(* So does hashPassword. *)
ResetPassword(q) ==
    /\ pc[q] = "found" /\ Task(q) = "resetPassword"
    /\ SetPassword(who[q], body[q].word)
    /\ wrote' = wrote \cup {q}
    /\ Goto(q, "written")
    /\ UNCHANGED <<request, todo, reply, answer, ran, avatars, cut, row, jar>>

Working == {"running", "uploaded", "found", "written"}

(* Those that only reckon do not fail. *)
Fails(q, h) == pc[q] \in Working /\ h \in Reached(Task(q)) \ {"decodeToken", "createToken"}

(* Mutant: the failure leaves the call without an end. *)
HandlerHangs(q) ==
    /\ \E h \in ran[q] : Fails(q, h)
    /\ Goto(q, "hung")
    /\ UNCHANGED <<request, todo, reply, answer, ran, wrote, avatars, cut, row, valid, store>>

(* The handler, PostgreSQL, S3, MongoDB or RabbitMQ fails under it; what   *)
(* was written before stays.                                               *)
HandlerThrows(q) ==
    /\ \E h \in ran[q] : Fails(q, h) /\ Reply(q, Failure(h))
    /\ UNCHANGED <<request, todo, answer, ran, wrote, avatars, cut, row, valid, store>>

(* The reply comes back.  The guard's failures go to the filter directly,  *)
(* those of a method through what it makes of them.  The last reply of a   *)
(* sign-up or a login sets both cookies.                                   *)
Receive(q) ==
    /\ pc[q] = "replied"
    /\ IF reply[q] # "OK"
       THEN /\ Answer(q, IF Task(q) = "decodeToken" THEN FilterStatus(reply[q])
                                                    ELSE Status(route[q], reply[q]))
            /\ UNCHANGED jar
       ELSE IF Len(todo[q]) > 1
            THEN /\ Goto(q, "ready") /\ todo' = [todo EXCEPT ![q] = Tail(@)]
                 /\ UNCHANGED <<reply, answer, row, jar>>
            ELSE /\ Answer(q, 200)
                 /\ jar' = IF route[q] \in {"createUser", "loginUser"}
                           THEN body[q].account ELSE jar
    /\ UNCHANGED <<request, ran, wrote, avatars, cut, valid, password>>

Step(q) == \/ Pipe(q) \/ Send(q) \/ Receive(q)
           \/ DecodeToken(q) \/ Refuse(q) \/ Write(q) \/ Finish(q) \/ HandlerThrows(q)
           \/ UploadAvatar(q) \/ CreateUser(q) \/ GetUser(q)
           \/ FindRow(q) \/ VerifyPassword(q) \/ ResetPassword(q)

-----------------------------------------------------------------------------
(* A service dies with the requests it has, and starts again.  gRPC        *)
(* reports each; the TCP client may leave its caller waiting.              *)
ServiceDies(s) ==
    LET had == {q \in Requests : /\ pc[q] \in Working \cup {"replied"}
                                 /\ ServiceOf(Task(q)) = s} IN
    /\ had # {}
    /\ cut' = cut \cup had
    /\ \E fate \in IF s = "gig" THEN {"replied", "hung"} ELSE {"replied"} :
          pc' = [q \in Requests |-> IF q \in had THEN fate ELSE pc[q]]
    /\ reply' = [q \in Requests |-> IF q \in had THEN Unreachable(s) ELSE reply[q]]
    /\ UNCHANGED <<request, todo, answer, ran, wrote, avatars, row, valid, store>>

(* The access cookie lapses in the browser. *)
Lapse == /\ jar # Nobody /\ jar' = Nobody
         /\ UNCHANGED <<request, pc, todo, reply, answer, ran, wrote, avatars, cut, row, valid,
                        password>>

Next == \/ \E q \in Requests : Arrive(q) \/ Step(q)
        \/ \E s \in Services : ServiceDies(s)
        \/ Lapse

Spec == Init /\ [][Next]_vars

(* The event loops of the gateway and of the services carry on what they   *)
(* began and every call of a database returns.  Nothing else is owed.      *)
FairSpec == Spec /\ \A q \in Requests : WF_vars(Step(q))
-----------------------------------------------------------------------------
Tasks == {"pipe", "decodeToken"} \cup UNION {{Messages(r)[i] : i \in DOMAIN Messages(r)} : r \in Routes}

TypeOK == /\ route \in [Requests -> Routes \cup {"none"}]
          /\ body \in [Requests -> {Blank} \cup UNION {Bodies(r) : r \in Routes}]
          /\ who \in [Requests -> Accounts \cup {Nobody, Garbled}]
          /\ pc \in [Requests -> Working \cup {"idle", "ready", "replied", "hung", "answered"}]
          /\ todo \in [Requests -> Seq(Tasks)]
          /\ ran \in [Requests -> SUBSET UNION {Reached(m) : m \in Tasks}]
          /\ reply \in [Requests -> DOMAIN HttpStatus \cup {"none"}]
          /\ answer \in [Requests -> {0, 200, 400, 401, 404, 409, 500, 502}]
          /\ \A q \in Requests : answer[q] # 0 <=> pc[q] = "answered"
          /\ wrote \subseteq Requests /\ avatars \subseteq Requests /\ cut \subseteq Requests
          /\ row \in [Requests -> Words \cup {NoWord}]
          /\ valid \in [Requests -> SUBSET (Words \cup {NoWord})]
          /\ password \in [Accounts -> Words \cup {NoWord}]
          /\ jar \in Accounts \cup {Nobody, Garbled}

(* Some request's answer. *)
Got(q, status) == pc[q] = "answered" /\ answer[q] = status

(* A client may trust the status: a command answered 200 was carried out,  *)
(* its picture with it, and a request answered 400, 401, 404 or 409 left   *)
(* nothing behind, but for one thing: the picture of a sign-up that is     *)
(* told its address exists stays in S3, though no row names it.  A request *)
(* that met a service that died may be told 404 too and have been obeyed.  *)
StatusIsTruthful ==
    \A q \in Requests :
        /\ Got(q, 200) /\ ran[q] \cap Commands # {} =>
              q \in wrote /\ (body[q].picture => q \in avatars)
        /\ \A refusal \in {400, 401, 404, 409} : Got(q, refusal) =>
              q \in cut \/ (q \notin wrote /\ (q \in avatars => refusal = 409))

(* A login is judged by the password the account had at some moment of the *)
(* request, however resets and sign-ups race with it; an address typed     *)
(* otherwise than the row has it, or a dead service, counts as wrong.      *)
LoginIsJudged ==
    \A q \in Requests : route[q] = "loginUser" =>
        /\ Got(q, 200) => body[q].exact /\ body[q].word \in valid[q]
        /\ Got(q, 404) => \/ q \in cut \/ ~body[q].exact
                          \/ \E w \in valid[q] : w # body[q].word

(* Every request is answered, but one the gig service died with may hang.  *)
AnsweredUnlessGigDied ==
    \A q \in Requests :
        (pc[q] # "idle") ~> (pc[q] = "answered" \/ (pc[q] = "hung" /\ route[q] \in GigRoutes))

(* gateway gig.controller.ts: "Create a new gig", "The gig has been        *)
(* successfully created."  A good form sent by somebody who is signed in   *)
(* reaches createGig.                                                      *)
GigIsCreated ==
    \A q \in Requests :
        route[q] = "createGig" /\ pc[q] = "answered" /\ who[q] \in Accounts /\ body[q].good
            => "create-gig" \in ran[q] \/ q \in cut
=============================================================================
