# Freedome: TLA+ models, checks and proofs

Freedome is a freelance marketplace of NestJS microservices. A gateway turns
HTTP requests into gRPC calls (auth, user) and TCP messages (gig); the
services keep their data in stores of their own and tell each other about it
with RabbitMQ events. Nothing spans two stores or a store and the broker in one
transaction. That is where the system can go wrong, and what these modules are
about: what remains true when calls interleave, events are delayed, redelivered
or stranded, and a process or a store fails between two steps.

All paths below are paths of the repository under `src/`.

## The system

| Part | State | Operations | Hard behaviour |
|---|---|---|---|
| auth service, `microservices/auth` | the `Auth` table in PostgreSQL (unique `email`, links, password), avatars in S3; reads the gig index | createUser, verifyEmail, resendEmail, forgotPassword, resetPassword, resetPasswordWithToken, login and tokens, searchGigs, seedUser | avatar uploaded before the row may be refused, row committed before the event is published; rows read, then written by id after an await |
| user service, `microservices/user` | its MongoDB: `User` copies, `Buyer`, `Seller` | createBuyer (event), createSeller, updateSeller, counters (events) | two writes per sign-up event, redelivery, check-then-create, events older than the documents they are about |
| gig service, `microservices/gig` | its own MongoDB: `User` copies, `Gig`; the Elasticsearch index; categories in Redis | UserService.create (event), createGig, deleteGig, updateGig, updateGigReview, search, seed | three stores written one after the other; sort numbers taken from a count that lags; an index written by whoever changed the gig, without a lock |
| notifications service, `microservices/notifications` | none but its subscription | handleCreateAuthEmail, sendEmail | SMTP errors are swallowed, mails overtake each other |
| chat service, `microservices/chat` | the set of online users in Redis | LOGIN, LOGOUT and status events of sockets | a socket that disconnects without LOGOUT; one user on two sockets |
| gateway, `microservices/gateway` | none (the browser's cookies hold the tokens) | one HTTP handler per route: guard, form, one or two messages, status | message patterns without a handler, services that die with a request, errors mapped to statuses |
| broker (external) | exchanges and the queues bound to them | publish, deliver, ack, requeue | server-named queues, lost with their consumer |

How they interact. `POST /auth/signup` reaches `createUser`, which publishes the
verification mail on `email_notifications` and the account on `create_user`.
The user and gig services each consume `create_user` and keep a copy of the
account; the user service also opens the buyer. `createGig` publishes
`update_gig_count` on `user_seller`; the user service adds it to the seller.
`GET /search/gigs` asks the auth service, which queries the index the gig
service writes (both take its name from `GIG_ELASTIC_SEARCH_INDEX`). All
subscriptions are `@RabbitSubscribe` handlers without a queue name.

## Modules

| Module | Models | State that corresponds to the code |
|---|---|---|
| `AnonymousQueue` | one subscription of one handler, as the broker and the client library keep it | operators on a record: waiting, in a handler, delivered over a closed channel, stranded |
| `Signup` | `createUser` and the two `create_user` consumers | `auth` the table, `avatars` the bucket, `bus` the subscriptions, `docs` the `User` documents of each service, `buyers`; `pc` is the await a call stands at |
| `AccountDirectory` | what signing up promises, without queues, handlers or failures | accounts, copies, buyers |
| `AccountMail` | the mailed links of one account and the notifications service | the columns of the row, the subscription, what the holder received |
| `GigListing` | `createGig`, `update_gig_count`, index and refresh | `saved` MongoDB, `indexed` and `visible` Elasticsearch, `totalGigs` of each seller |
| `GigIndex` | what `GigListing` and `GigSearch` share | the gigs, and those `visible` to searches |
| `GigCatalog` | what searches can rely on about the index | sort numbers, visible gigs |
| `GigSearch` | `GET /search/gigs`, paged by one client | the catalog, `query`, `page`; the rest is the client's history |
| `Seller` | `createSeller` | `docs`, `buyers` and `sellers` of the user service |
| `SellerRoster` | what `SellerJobs` promises about who is a seller, without calls, races or failures | copies, sellers |
| `SellerJobs` | `Seller` composed with the handlers of order and review events | `jobs` the counters of each Seller, `bus` one subscription per handler, `stage` the orders |
| `GigDesk` | reviews, edits and deletion of a gig, and the top rated query | `gigs` MongoDB, `index` and `visible` Elasticsearch, `snap` the document a review is about to index |
| `Categories` | adding, listing and searching categories | `categories` the Redis set, `subcategories` the Redis hashes, one call per `Writers` and `Readers` |
| `Gateway` | every route of the gateway, the handlers it reaches, login and sessions | `todo` and `pc` of each request, `jar` the browser's cookies, `password` the auth table, `avatars` the bucket |
| `ChatPresence` | the chat gateway and its online set | `online` the Redis set, `wire` the messages of each socket on their way to it, `open` and `user` the clients |
| `SignupProofs`, `AccountMailProofs`, `SellerJobsProofs`, `GigListingProofs`, `GigDeskProofs`, `CategoriesProofs`, `GatewayProofs`, `ChatPresenceProofs` | theorems about the module each is named after; those of `GigListingProofs` are also about `GigSearch` | |
| `MC` modules | the instances TLC checks, one for each module with a run (`MCSellerJobs` has `Seller` in it) | |

`Signup`, `AccountMail`, `GigListing` and `SellerJobs` are composed with the
broker by instantiating `AnonymousQueue` with the steps of their handlers.
`SellerJobs` extends `Seller`: the events of an order are handled while the
Seller they are about is being opened. `GigDesk` carries on where `GigListing`
stores a gig, and keeps of `createGig` what races with a review. `GigListing`
and `Seller` see of sign-up only that copies and buyers appear
(`CopyArrives`, `BuyerOpens`), at any moment, which is all that `Signup`
guarantees about when; `GigListing` sees of sellers only that a user with a
copy becomes one (`OpenSeller`). That these are what the others do is proved
(see "What the modules assume of one another"). `GigSearch` sees of gig creation only a `GigCatalog`,
which `GigListing` implements (`ListsAsCatalog`), so what it shows holds for the
sort numbers the code really gives.

One action is one stretch of code between two awaits, so calls interleave as
the event loops let them. An action that stands for a failure counts itself in
`faults`.

### What is abstracted

- A call stands for the row or document it creates, a link for the call that
  drew it. Passwords, tokens, names, texts and prices do not appear; the fields
  the schemas require or make unique do (picture, device, cover, address, id).
- Messages are sets: the broker does not promise an order across handlers that
  run concurrently and are redelivered. The limit on unacknowledged messages is
  left out; handlers are delayed by scheduling anyway.
- The verification mail of a sign-up is published without waiting for it. Its
  effects are those of `AccountMail`; `AccountMail` starts right after it.
- In `AccountMail` and for rows and gigs a write that is applied but not
  confirmed is the write followed by a failure of the next step, which the
  models also have. Where that is not so (documents written by handlers, `$inc`)
  it is an action of its own (`StoreUnconfirmed`, `CountGigFails`).
- In `GigSearch` price stands for text and delivery time, which filter in the
  same way. The client carries on from the numbers of the page it holds, and `DEFAULT_SIZE` is
  a parameter (10 in the code).
- In `Categories` what a keyword matches is a set of names, and a scan is its
  first and its last command: Redis returns all that was there from one to the
  other. A write that is not confirmed is the write followed by `Fails`, or by
  nothing that is left to fail: the answers of writers are in no property.
- In `GigListing` and `SellerJobs` a lookup of a user or seller and the write
  that follows it are one step: neither is ever deleted.
- In `SellerJobs` the order and review services, which are not in the
  repository, publish what the handlers of the user service take. Of what one
  `$inc` adds together, one counter is kept. A review names its seller by
  `sellerId`, which the handler looks up as the id of a user; the model takes it
  to be one.
- In `GigDesk` a gig is its rating count and sum. An edit is followed to the
  lookup it fails at.
- In `Gateway` a token is the account it was made for, and a cookie holds a
  token, holds what is none (`Garbled`), or has lapsed. Sign-up, login and
  password reset are followed to the row, as they race for it, and sign-up to the
  bucket. Of the handlers modelled elsewhere the order is kept: they refuse
  (`Refuse`, with the codes of `Refusals`) before they write (`Write`), end
  (`Finish`) when they have written, those in `Endless` never, and may fail
  (`HandlerThrows`) at any moment. What they find in their stores is a choice.
- In `Seller` a form is filled or has an empty string that its DTO lets through
  and the schema does not (`seller.dto.ts:17`, `:90`; `seller.schema.ts:27`, `:37`).
- In `ChatPresence` the messages of one socket reach Redis in the order they
  were sent, as each is one command of one connection; those of two sockets in
  any order. Clients behave: one login at a time, logout after login.

## Runs

| Run | Instance | Shows |
|---|---|---|
| `signup` | 2 requests, 2 addresses, 1 failure, fairness | five invariants; half-applied sign-ups stay so; `Signup` implements `AccountDirectory`; answered sign-ups with a picture reach both copies, and the buyer when nothing fails |
| `gig` | 2 gigs, 2 owners, 1 failure, fairness | counts, index and store agree up to failures; sort numbers grow with what searches show; `GigListing` implements `GigCatalog`; a gig is listed in the end and its event retried until the owner is known |
| `gig_search` | 3 gigs, 2 prices, 4 requests | paging repeats nothing, misses only ties, and can turn round |
| `gig_desk` | 2 gigs, 3 reviews, 1 edit, 1 failure | stored ratings are those given; queries see a tally of some of them; when the index can be behind |
| `mail_links` | any 3 calls, 1 failure, fairness | the link in force is always one that was mailed; mailed links never become valid later; a link reported sent arrives |
| `mail_reset_link` | any 2 calls, no failure, fairness | finding: a reset link sets no password |
| `seller` | 2 calls of 1 user, 1 order, 1 failure, fairness of the calls | truthful answers, one of the racing calls wins, counters agree with the order |
| `seller_role_switch` | 2 calls, 2 users, no failure | finding: the buyer is never marked as a seller |
| `categories` | 3 writes, 1 reader, 1 failure | no subcategory is out of reach; trees and searches miss nothing stored before them |
| `gateway` | 2 requests, 1 account, 2 passwords, services die at will, fairness | statuses are truthful, logins are judged by a password of that moment, requests are answered |
| `gateway_create_gig` | 1 request | finding: `POST /gig` never reaches `createGig` |
| `chat` | 2 sockets, 2 users, 4 messages a socket, 1 failure | the online set is what the clients said, with two named exceptions |

### What each component owes, and what the runs show

**Sign-up.** An account is registered in one store, replicated to two others and
completed by a second write in one of them.
`EventAccounted` says that the answer "ok" is a promise: the event of that
account waits, is handled, was handled, or is stranded in a queue without a
consumer, never dropped. `HandledOnce` bounds redelivery. `ExistsIsTruthful`
says that `ALREADY_EXISTS` is the truth. `DamageOnlyAfterFault` is about what
nothing repairs: a row whose owner was told that sign-up failed, so that a retry
is told the address exists, and a `User` document without its `Buyer`. No race
leads there, only a failure; `HalfAppliedIsFinal` says that the second stays,
because the redelivered message is refused by the unique `userId`.
`CopiedUnlessLost` and `BecomesBuyer` are the liveness that is left.

**Mailed links.** Every call reads the row, awaits and writes it by id.
`LinksAreMailed` says that such races never leave an account that cannot be
verified, or a reset link in force, without a mail that carries it.
`StoredBeforeMailed` says that a link whose mail may have been read is never put
in force afterwards. `LinkArrives` is about the notifications service, which
swallows SMTP errors.

**Gigs.** `SearchableIsCounted` and `CountWithinFaults` relate MongoDB, the
index and `totalGigs` of another service: what is stored is listed and announced
up to failures, and the count is off by no more than the failures. The ordering
hazard of `updateOne` is in them: an event that meets no seller is lost for the
count, silently. `NewestSortsLast` is what the sort number is for.
`ListedEventually` and `RetriedUntilKnown` are the liveness.

**Gigs, afterwards.** `updateGigReview` has no caller at this commit: the consumer
that would call it is commented out (`gig.service.ts:366`), so what follows is
about the code as it will run once it is taken back in, and none of it is listed
among the hazards. `RatingsAreEarned` says that no interleaving of reviews
loses or repeats one in MongoDB, and that what queries see was true at some time
and for some of the reviews, so that a gig among the top rated has had nothing
but fives among those. `IndexIsCurrent` says exactly when the index may stay
behind: two writers side by side, `createGig` being one, or a failure.

**Search.** Pages are cut by a number several gigs may share, while gigs are
published. `NothingTwice` holds whatever is published meanwhile. `NothingMissed`
says exactly what can be passed over: gigs that share their number with one the
client got. It also says that a bound left out hides nothing, which depends on
the stand-in -1 being taken for no bound by the query. `ReturnTrip` says that
the backward order is turned before it is answered.

**Sellers.** Calls of one user that pass the check together end with one seller
and are answered truthfully, and a seller behind an error is there only after a
failure (`AnswersAreTruthful`). A call with an empty language or skill is refused by the
schema, not by the form, and ends in an error without any failure
(`CreateRefused`); those the schema accepts do not all lose (`SomeCallWins`).
`JobsAddUp` relates the counters to the orders whatever order the events are
handled in: they agree once all are handled, but for orders placed before the
Seller was there, whose increments meet nothing, and with a cancelled order
never taken off, since its handler looks for the Seller by the id of the user.

**Categories.** A subcategory is two writes and a listing is one read per
category. `SubcategoryListed` says that the order of the writes is right: what a
failure leaves is a category without the subcategory, never the reverse, which
no reader would find. `ReadsAreFresh` says that an answer pieced together from
several moments misses nothing that was stored when it was asked for. It need
not be what was stored at any one moment: a tree can show a subcategory added
late and lack a category added before it.

**Gateway.** `StatusIsTruthful` says what a status is worth to a client: a
command answered 200 was carried out, with its picture, and one answered 400,
401, 404 or 409 left nothing behind, unless its service died with it, which gRPC
reports as `UNAVAILABLE` and the gateway as 404. One thing is left behind:
`createUser` uploads the avatar before the insert may be refused
(`auth.service.ts:52`, `:66`), so the picture of a sign-up that is answered 409
stays in S3, and no row names it. The 500 of a sign-up promises nothing: it may
come after the upload or after the row. The other part of the property is about
the order inside the handlers: nothing refuses what was already written. `LoginIsJudged` says that a login that reads the row, compares
and answers later is right by a password the account had meanwhile.
`AnsweredUnlessGigDied` says that every other request ends, whatever dies: only
the TCP client of the gig service leaves its caller waiting.

**Chat.** `PresenceIsExplained` bounds the ways in which the online set can
disagree with the clients when nothing is under way and nothing failed, and does
not exclude them: a socket that closed without a logout leaves its user online,
and a logout on one of two sockets takes the user off.

**What no property catches.** Where the code goes wrong by itself a property can
only say how far. In the models, and excused by the properties next to them: the
event of a sign-up without a picture, which no consumer ever accepts
(`BecomesBuyer`); the gig counted for a user who has no Seller yet
(`SearchableIsCounted`); the mail SMTP refused (`LinkArrives`); the cancelled
order that stays ongoing (`JobsAddUp`).

### Bounds

Two requests that may share an address are enough for every race on the unique
index, and each of the two services runs its own copy of the events, so two
requests already give four concurrent handlers. A third request would repeat
one of the two. Three calls on one account are enough for a call that reads
before and writes after the two others. Two gigs are enough for one to be
counted while the other is stored, indexed or invisible; two owners for a count
that must not go to the wrong one. Three gigs and a page of one or two give full
pages, short pages and a tie across the edge of a page; the fourth request turns
round after a walk of three. Two calls of `createSeller` of one user are the
race; calls of different users share nothing. Three writes of categories are one
before the reader arrives, one between its commands and one that fails; readers
change nothing, so one of them is enough. In `seller` one call has a form the schema accepts and the
other has either, the calls being alike (`OneFilled`); in `seller_role_switch`
all four choices are there.

Two reviews side by side and a third in front or behind cover every order of
increments and index writes of one gig, with the second gig for one that is not
there yet. One order has every stage, and each of its four events runs in a
subscription of its own, so they are handled in every order; two calls race to
open the Seller meanwhile. Requests of the gateway depend on one another only
through the row and the cookies: `RivalOnly` gives the second request one of the
routes that write or judge these when the first has one, and a sign-up
otherwise, in either case without a picture and without a garbled cookie, which
only concern the request that has them. Two passwords tell the old from the new. Four messages let a socket
log in, log out, log in again and ask; two sockets are one user twice or two
users.

`MaxFaults` bounds the failures of one behaviour: a failed or unconfirmed write,
a failed publish, a lost connection, a crash. One failure is in every run of a
module that has the bound and no finding, and properties that speak of `faults`
say what holds before the first one; the theorems hold for any number. `Gateway` has no such bound: its services die as often as they like. The
calls of `mail_links` are ordered by operation, as they are interchangeable.
`MaxPages` bounds the requests of the searching client, `MaxSent` the messages of
a socket. The proofs use no bound: they hold for every value of the constants that meets
the assumptions below.

`CHECK_DEADLOCK FALSE` is in every run: the system is at rest when all calls are
answered and all events handled.

### Fairness

Assumed of a call or a handler that has started: the event loop carries it on
(weak fairness of the disjunction of its next steps that are not failures; the
failing alternatives are never owed). Assumed of the broker: a queue with a
consumer is delivered from. Assumed of Elasticsearch: it refreshes, as it does
every second by default. Assumed of the gateway: its event
loop, those of the services and the databases carry on with a request. Nothing is
assumed in `GigDesk` and `ChatPresence`, nor of the events of `SellerJobs`. Not
assumed: that anybody submits a request, that a
service comes up or reconnects, that anything fails or stops failing. A handler
that throws is redelivered at once, so a message that can never be accepted is
taken and rejected for ever without violating fairness.

### Findings

1. `mail_reset_link`: `ResetPasswordWithTokenRequest` (`proto/auth.proto:15`)
   has no password field, so the one the gateway sends is dropped,
   `hash(undefined)` throws, and the mailed reset link never sets a password.
2. `seller_role_switch`: `updateBuyerIsSellerProp` filters buyers by `email`, a
   field their schema does not have (`buyer.service.ts:83`), so the buyer of a
   new seller still says `isSeller: false`.
3. `gateway_create_gig`: `GigService.createGig` of the gateway sends the pattern
   `more-like-this` (`gateway/src/gig/gig.service.ts:36`), which no handler has,
   so `POST /gig` is answered 500 and no gig is created.

Met while modelling, in the models, and without a run of their own:

- The picture is optional at sign-up; without one `createUser` publishes
  `profilePublicId: null`, the `User` schema requires it
  (`common/src/schemas/user.schema.ts:16`), both consumers throw and the event is
  requeued for ever: such an account never becomes the buyer that `README.md:9`
  says it is by default (`BecomesBuyer` asks for the picture).
- The picture of a sign-up whose address is taken stays in S3 (the 409 in
  `StatusIsTruthful`).
- An empty language or skill passes the form of a seller and is refused by the
  schema, so `createSeller` ends in an unmapped error, 502 (`CreateRefused`).
- `update-gig`, `update-gig-status` and `delete-gig` always fail: they look the
  gig up by `userId`, which Gig documents do not have. The gateway documents
  them as working (`gateway/src/gig/gig.controller.ts:95`, `:112`, `:131`). The
  same field is missing from the index documents that the queries for a user's
  gigs ask for.
- `search-gigs` is registered twice (`gig.controller.ts:65` and `:69`), and
  answered by `moreLikeThis`.
- A login looks the address up as typed, a sign-up stores it in lower case
  (`auth.dto.ts:39`), so a login typed with capitals is refused
  (`exact` in `LoginIsJudged`).
- A mistake inside a list of the seller form has no constraint of its own and
  breaks the pipe's `exceptionFactory` (`main.ts:33`): 500 instead of 400. So is a
  username or address that is not a string: the form that signs up takes its
  `toLowerCase` (`auth.dto.ts:21`, `:39`).
- The handler of `approve_order` is an arrow property, which the library may not
  find; both cases are in `SellerJobs`. A handled review is announced on an
  exchange nobody listens to.
- A category search looks only at subcategories of categories whose own name
  matches (`category.service.ts:52`).

## Proofs

Every safety invariant, every action property and every refinement the passing
runs check is also a theorem, checked by TLAPS, for any sets of calls, users,
gigs, sockets and requests and any number of failures.

| Module | Theorem | States |
|---|---|---|
| `SignupProofs` | `TypeCorrect` | `TypeOK` |
| | `Safety` | `EventAccounted`, `HandledOnce`, `ExistsIsTruthful`, `DamageOnlyAfterFault`, and two that no run checks: `ReplicaBacked`, every copy and message comes from a committed row, and `NoEmailClash`, the unique address of a copy is never hit |
| | `HalfAppliedForEver` | `HalfAppliedIsFinal` |
| | `Refinement` | `Signup` implements `AccountDirectory` |
| `AccountMailProofs` | `TypeCorrect`, `LinksMailed`, `StoredFirst` | `TypeOK`, `LinksAreMailed`, `StoredBeforeMailed` |
| `SellerJobsProofs` | `TypeCorrect`, `Truthful`, `CountersAddUp` | `JobsTypeOK`, `AnswersAreTruthful`, `JobsAddUp` |
| | `Refinement` | `SellerJobs` implements `SellerRoster` |
| | `SoldAsRegistered` | `SellerJobs` beside an `AccountDirectory` |
| `GigListingProofs` | `TypeCorrect` | `TypeOK` of `GigListing` |
| | `Safety` | `CountWithinFaults`, `SearchableIsCounted`, `NewestSortsLast` |
| | `Refinement` | `GigListing` implements `GigCatalog` |
| | `SearchTyped`, `PagedOnce`, `PagedAll`, `TurningRound` | `SearchTypeOK`, `NothingTwice`, `NothingMissed`, `ReturnTrip` of `GigSearch` |
| | `ListedAsServed` | `GigListing` beside an `AccountDirectory` and a `SellerRoster` |
| | `SearchedAsListed` | the last three of a client that searches while `GigListing` creates gigs |
| `GigDeskProofs` | `TypeCorrect`, `Earnings`, `Currency` | `TypeOK`, `RatingsAreEarned`, `IndexIsCurrent` |
| `CategoriesProofs` | `Listed`, `Fresh` | `TypeOK` and `SubcategoryListed`, `ReadsAreFresh` |
| `GatewayProofs` | `TypeCorrect`, `Truthful`, `Judgement` | `TypeOK`, `StatusIsTruthful`, `LoginIsJudged` |
| `ChatPresenceProofs` | `TypeCorrect`, `Presence` | `TypeOK`, `PresenceIsExplained` |

### Assumptions

They stand in the modules that declare the constants, and TLC evaluates them in
every run.

| Assumption | Says | Because |
|---|---|---|
| `MaxFaultsAssumption`, `FaultsAssumption`, `PagesAssumption`, part of `PresenceAssumption` | the bounds on failures, messages and requests are numbers | they are bounds of the models; any number will do |
| `LinksAssumption`, `NobodyAssumption`, part of `PresenceAssumption` | `FirstLink`, `NoLink`, `NoWord`, `Nobody` and `Garbled` are none of the links, passwords, accounts or users | random tokens differ, and `NULL` is no token |
| `IdsAssumption` | the ids of Seller documents, calls in the model, are not ids of users | each has an ObjectId of its own |
| `GigsAssumption`, `OrdersAssumption`, `RatingAssumption` | finitely many gigs, orders and reviews; ratings from 1 to 5; an order has a seller | they are counted and summed |
| `PricesAssumption`, `SizesAssumption` | prices and sizes are numbers, 0 stands for one left out | `DEFAULT_SIZE` is 10 |

### Inductive invariants

No property here is inductive by itself, since each is about an end, and the
invariant has to say what is true on the way.

**Sign-up.** That a copy is backed by a row depends on messages being backed by
rows, that depends on where the call that published stands, and uniqueness of
addresses in a copy depends on all of it. `IndInv` is `TypeOK`, `RowsInv`
(addresses of rows are unique; a row is there exactly from its insert on; its
avatar came first) and `MessageInv` (a message exists only for a row whose call
reached the publish; it is in one place; what a handler has written is what its
step says; an answered call's event is accounted for). The argument goes by who
moves. `RowsStep`: only calls of `createUser` touch the table.
`CreateUserKeepsMessages`: they touch messages only at the publish, when there is
none of that request yet. `ConnectionKeepsMessages`: losing a connection or a
process only strands messages. `RequeueKeepsMessages` and `HandlerKeepsMessages`:
a handler's step moves one message of one service and writes at most that
account's documents. `HalfAppliedForEver` follows because the only write that
could create the missing buyer is made by a handler at `open`, which it reaches
only by writing the `User` document itself, and that is there already.
`Refinement` maps the row of a request to an account; the guards of the abstract
actions come from `IndInv`.

**Mailed links.** `Unmailed` says that the link of a call that is still running
has been seen by nobody, neither the broker nor the owner, and `AckedAfterSend`
that a mail is acknowledged only after it went out or after a failure. With the
first, `StoredBeforeMailed` holds at the write (`StoredFirst`); with both, a link
on its way stays accounted for (`StaysOnItsWay`), so every write of the row
leaves a link that is mailed (`RowStep`).

**Sellers.** `Standing` says which steps a call can stand at when it has created
its Seller and when another has; with `OneSeller` that is `AnswersAreTruthful`.
The counters need `InOnePlace` (an event is waiting, with a handler or gone, and
exists only once announced) and, for each counter, equality with a number of
orders: `Bounded`, up to failures, of those handled in any way, and `Exact`,
without failures and for a seller whose orders came after him (`OnTime`), of
those counted. `AfterSeller` says why an order that is not early has its Seller.
`EventCounted` is the step that matters: one `$inc` moves one order from open to
handled.

**Gigs.** `Followed` puts the event of a gig in one place, `Ranked` says that
what was counted for a gig was visible, and `Bounded` that `totalGigs` lies
between the gigs applied and those settled, whose event will not be counted
again, plus one for each failure (`CountedOnce` is the step that matters).
`CatalogStep` shows that each step stores with a number in the catalog's range,
shows, or stutters.

**Search.** The theorems are about `SearchSpec`, in which gigs are stored and
shown by any steps of a `GigCatalog`.
`Answered` says what every answer is, in whichever direction: the first of what
is found, as many as asked for, in ascending order (`Firsts`). `Walked` says that
a client that keeps to one direction has got nothing beyond the edge of its page,
and of what was there when it began everything in range up to that edge, or one
with the same number. `PageReaches` moves the edge. For the way back, `Traced`
remembers that the page before was an answer and the page was got by going on
from it. `OtherWay` shows that what is found on turning round is the page before,
whichever way that was got, and `OnePage` that distinct numbers leave one order.
`SearchedAsListed` closes the chain. `SearchedListing` is a client beside
`GigListing`: the two share `visible`, and `number` follows the sort numbers
`GigListing` stores (`Coupled`), so every step is one of `GigSearch`
(`SearchedStep`).

**Gigs, afterwards.** Ratings are sums over sets of reviews. `MapThenSumSet` adds
in an order of its choosing; that the order does not matter is proved first
(`SumsExist`, `TotalFacts`, `TotalRemove`), by taking a least set of reviews for
which it would, as finite sets are well-founded under inclusion. `Stored` says
that the document in MongoDB is the tally of the reviews counted, `Copied` that
the index, what searches see and what each writer holds are tallies of some of
them, and `Single` what the one writer there can be, without failures and
overlaps, holds. `IncStep` is the step that matters.

**Categories.** `Stage` fixes what a call may hold at each step; it gives
`SubcategoryListed`. `TreeUnderWay` and `SearchUnderWay` say that what was stored
when the reader arrived is in its answer or still on its list, which writes can
only add to.

**Gateway.** `Sound` is said of each request: what is left to do belongs to its
route (`UnderWay`), a command that ran has changed something, runs or has failed
(`Obeyed`), one that changed something has nothing left to refuse it
(`Admitted`), a picture is in S3 only at a sign-up that has come so far, and then
only the insert may still refuse it (`Pictured`), and each stage of a login has
read what the account had meanwhile (`Judged`). `ReachedFacts`, `MessageFacts`,
`StatusFacts` and `EndFacts` are the tables of the code (messages of a route,
handlers of a message, statuses of a code, refusals and failures of a handler) as
facts about any route. `MovedSound` is for a handler that goes on, `RepliedSound`
for one that replies. `ActorSound` is for the
request that moves, `OthersSound` for those that see the table or a cookie change
under them, `DiesSound` for a service that dies.

**Chat.** What matters is on the wire. `Sessions` says that the logins, logouts
and questions a socket has sent make sense in their order, `Doubling` who has
logged out elsewhere, and `Explained` what each message will make of the set:
whoever is shown has a socket, left one or has a logout under way, and a login is
shown or under way. `SendStep` and `TakeStep` are the two ends of the wire,
`CloseStep` cuts it anywhere.

### What the modules assume of one another

A module takes the others to be simpler than they are. The theorems close the
circle, each abstract specification being implemented by the module that owes it
and enough for those that rely on it:

| Abstract | Implemented by | Relied on by |
|---|---|---|
| `AccountDirectory` | `Signup` (`Refinement` of `SignupProofs`) | `SellerJobs` (`SoldAsRegistered`), `GigListing` (`ListedAsServed`) |
| `SellerRoster` | `SellerJobs` (`Refinement` of `SellerJobsProofs`) | `GigListing` (`ListedAsServed`) |
| `GigCatalog` | `GigListing` (`Refinement` of `GigListingProofs`) | `GigSearch` (`SearchedAsListed`) |

A composition (`RegisteredJobs`, `ServedListing`, `SearchedListing`) lets each
side take its own steps and makes the shared ones of both: the copy a directory
learns is the copy that arrives, the account it opens is a new `Buyer`, the user
the roster opens is a new seller. The theorem says that its behaviours are
behaviours of the module and of the abstract specifications alike. So the
steps a module leaves to its surroundings are ones it is ready for, and its own
steps do nothing to the shared state that the owner would not do: marking a
Buyer, for one, leaves the Buyers of the directory as they are (`OwnStep`).

A user of `SellerJobs` and `GigListing` is an account, a request of `Signup`.
`SellerRoster` needs `DocsKnown`: a call that is past its lookup has found the
copy, which is never deleted. That users, and not Seller documents, are opened
once is the unique index on `Seller.user` again (`Opens`).

### Model-checked only

Liveness: `CopiedUnlessLost`, `BecomesBuyer`, `LinkArrives`, `ListedEventually`,
`RetriedUntilKnown`, `SomeCallWins` and `AnsweredUnlessGigDied` rest on fairness,
which the prover does not do. The three findings are counterexamples, for which a
run is the proof.

## Not modelled

- `seedUser` and `seedGig` beyond their outcomes: they fill a database for
  development.
- What follows the lookup in `deleteGig`, `updateGig` and `updateActiveGigProp`:
  it is never reached.
- `updateSeller`: no route of the gateway sends it. It refuses with "Seller does
  not exists" exactly when the Seller exists. The purchased gigs of a Buyer: no
  caller.
- The `update_user` consumers and the order mails: nothing publishes or calls
  them. The user consumer of the chat service is not registered in its module.
- `searchGigs` of the gig service: a second handler takes its message pattern.
  The other queries of the gig service read once, without paging.
- Signatures and lifetimes of tokens: the access cookie lapses before its token
  (24 minutes and one day), so the browser decides.
- Health endpoints, configuration, logging: no state of their own.

## Plan

Every part with state of its own is modelled, and what is safety is proved. What
would carry this further:

1. `Signup` beside `AccountMail`: the verification mail of a sign-up is published
   in `createUser`, and `AccountMail` starts from there.
2. `GigListing` beside `GigDesk`, which share `createGig`. `GigDesk` keeps less
   of it, and counts failures in its own way, so that a step of one is not always
   one of the other.
3. An order or a review service, once the repository has one: its events are
   those of `SellerJobs`, and `updateGigReview` of `GigDesk` gets its caller.
