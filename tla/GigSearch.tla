------------------------------ MODULE GigSearch ------------------------------
(***************************************************************************)
(* Paging through GET /search/gigs while gigs are being published.         *)
(*                                                                         *)
(* The gateway fills in what the request leaves out, the auth service      *)
(* turns it into one Elasticsearch query, sorted by sortId and starting    *)
(* after the number given in from, and puts a backward page back in        *)
(* ascending order.  No state is kept between requests: the client carries *)
(* on from the last number it got, or from the first to go backward.       *)
(*                                                                         *)
(* Abstractions.  Of what a search asks of a gig the bounds on its price   *)
(* are kept; its text and its delivery time filter in the same way.  Sort  *)
(* numbers stand for their decimal strings.  A request that Elasticsearch  *)
(* fails is repeated by the client.                                        *)
(***************************************************************************)
EXTENDS Integers, Sequences, GigIndex

CONSTANTS Prices,        \* what gigs cost
          Sizes,         \* sizes a request asks for, 0 when it leaves it out
          DEFAULT_SIZE,
          MaxPages       \* bound on the requests of a behaviour

ASSUME PricesAssumption == Prices \subseteq Nat \ {0}
ASSUME SizesAssumption == Sizes \subseteq Nat /\ DEFAULT_SIZE \in Nat \ {0}
ASSUME PagesAssumption == MaxPages \in Nat

VARIABLES price, number,  \* of each gig
          query,     \* what the client asks for: min, max, size
          dir,       \* direction of the last request
          page,      \* its answer
          before,    \* history: the page before it and the gigs visible then
          at,        \* history: gigs visible when page was made
          walk,      \* history: has the client kept to one direction?
          start,     \* history: gigs visible at its first request
          seen,      \* history: gigs it got since
          received,  \* history: how many, repeated ones included
          pages      \* requests made

catalog    == <<number, visible>>
client     == <<query, dir, page, before, at, walk, start, seen, received, pages>>
searchVars == <<price, catalog, client>>

Source == INSTANCE GigCatalog

EMPTY_NUMBER == -1
NoFrom == 0

Directions == {"forward", "backward"}
Bounds == {0, EMPTY_NUMBER} \cup Prices
Queries == [min : Bounds, max : Bounds, size : Sizes]

Items(s) == {s[i] : i \in DOMAIN s}

(* Mutant: 0 stands for a number left out. *)
GivenOrZero(n) == IF n = EMPTY_NUMBER THEN 0 ELSE n

(* What the gateway sends for a number left out or 0. *)
Given(n) == IF n = 0 THEN EMPTY_NUMBER ELSE n

Size == IF query.size = 0 THEN DEFAULT_SIZE ELSE query.size

InRange(g) == LET min == Given(query.min)
                  max == Given(query.max)
              IN /\ min >= 0 => price[g] >= min
                 /\ max >= 0 /\ max >= min => price[g] <= max

(* Mutant: search_after is taken for an inclusive bound. *)
AtOrAfter(type, from, g) == \/ from = NoFrom
                            \/ type = "forward" /\ number[g] >= from
                            \/ type = "backward" /\ number[g] <= from

After(type, from, g) == \/ from = NoFrom
                        \/ type = "forward" /\ number[g] > from
                        \/ type = "backward" /\ number[g] < from

(* Mutant: gigs are found before Elasticsearch shows them. *)
MatchingStored(type, from) == {g \in Source!Stored : InRange(g) /\ After(type, from, g)}

Matching(type, from) == {g \in visible : InRange(g) /\ After(type, from, g)}

Precedes(type, g, h) == IF type = "forward" THEN number[g] <= number[h]
                                            ELSE number[g] >= number[h]

(* What Elasticsearch may answer: the first gigs in the order of the       *)
(* request, those with equal numbers in any order.                         *)
Hits(type, from) ==
    LET all == Matching(type, from)
        len == IF Size < Cardinality(all) THEN Size ELSE Cardinality(all)
    IN {s \in [1..len -> all] :
           /\ \A i, j \in 1..len : i < j => s[i] # s[j] /\ Precedes(type, s[i], s[j])
           /\ \A g \in all \ Items(s), i \in 1..len : Precedes(type, s[i], g)}

(* Mutant: hits are given as they come. *)
Unsorted(type, hits) == hits

(* sortBy(hits, ['sortId']) when going backward. *)
Answer(type, hits) == IF type = "backward"
                      THEN [i \in DOMAIN hits |-> hits[Len(hits) + 1 - i]]
                      ELSE hits

-----------------------------------------------------------------------------
SearchInit == /\ Source!Init
              /\ price \in [Gigs -> Prices]
              /\ query \in Queries
              /\ dir \in Directions
              /\ page = <<>> /\ before = [page |-> <<>>, at |-> {}] /\ at = {}
              /\ walk = FALSE /\ start = {} /\ seen = {} /\ received = 0
              /\ pages = 0

Request(type, from) == /\ pages < MaxPages /\ pages' = pages + 1
                       /\ \E hits \in Hits(type, from) : page' = Answer(type, hits)
                       /\ dir' = type
                       /\ before' = [page |-> page, at |-> at]
                       /\ at' = visible
                       /\ UNCHANGED <<price, catalog, query>>

(* The first request, from either end. *)
Start(type) == /\ pages = 0
               /\ Request(type, NoFrom)
               /\ walk' = TRUE
               /\ start' = visible
               /\ seen' = Items(page')
               /\ received' = Len(page')

Cursor(type) == number[page[IF type = "forward" THEN Len(page) ELSE 1]]

(* The next page, or back when type is not the direction of the last. *)
Continue(type) == /\ page # <<>>
                  /\ Request(type, Cursor(type))
                  /\ walk' = (walk /\ type = dir)
                  /\ seen' = seen \cup Items(page')
                  /\ received' = received + Len(page')
                  /\ UNCHANGED start

Publish == Source!Next /\ UNCHANGED <<price, client>>

SearchNext == Publish \/ \E type \in Directions : Start(type) \/ Continue(type)

SearchSpec == SearchInit /\ [][SearchNext]_searchVars
-----------------------------------------------------------------------------
SearchTypeOK == /\ price \in [Gigs -> Prices]
                /\ number \in [Gigs -> Nat]
                /\ visible \subseteq Source!Stored
                /\ query \in Queries /\ dir \in Directions
                /\ page \in Seq(visible) /\ before.page \in Seq(visible)
                /\ before.at \subseteq at /\ at \subseteq visible
                /\ walk \in BOOLEAN /\ start \subseteq Gigs /\ seen \subseteq Gigs
                /\ received \in Nat /\ pages \in 0..MaxPages

(* A client that keeps to one direction never gets a gig twice, whatever   *)
(* is published meanwhile.                                                 *)
NothingTwice == walk => received = Cardinality(seen)

(* The gigs the client asked for, by their price. *)
Wanted(g) == /\ query.min > 0 => price[g] >= query.min
             /\ query.max > 0 => price[g] <= query.max

(* Once it got a page that is not full, it has every gig it asked for that *)
(* was there at its first request, but for gigs that share their sort      *)
(* number with one it got: those at the edge of a page are passed over.    *)
NothingMissed ==
    walk /\ Len(page) < Size =>
        \A g \in start : Wanted(g) => \E h \in seen : number[h] = number[g]

(* Turning round brings back the page before, if nothing was shown between *)
(* and sort numbers are distinct.                                          *)
ReturnTrip ==
    [][(/\ dir' # dir /\ pages > 1 /\ before.at = visible
        /\ \A g, h \in visible : number[g] = number[h] => g = h)
          => page' = before.page]_searchVars
=============================================================================
