----------------------------- MODULE Categories -----------------------------
(***************************************************************************)
(* The categories of gigs: a Redis set of categories and, for each of      *)
(* them, a Redis hash of its subcategories.                                *)
(*                                                                         *)
(* addSubcategory writes the set and then the hash; the tree and the       *)
(* search read the set and then one hash after the other.  No two Redis    *)
(* commands make up a transaction, and calls run side by side.             *)
(*                                                                         *)
(* Abstractions.  What a keyword matches is a set of names.  A scan is its *)
(* first and its last command: Redis returns all that was there from one   *)
(* to the other and some of what was added since.  Answers are sets, so a  *)
(* name that a scan returns twice counts once.                             *)
(***************************************************************************)
EXTENDS Naturals

CONSTANTS Writers, Readers,  \* calls
          Names,             \* names of categories
          Subnames,          \* names of subcategories
          MaxFaults          \* bound on the failures injected in a behaviour

ASSUME MaxFaultsAssumption == MaxFaults \in Nat

VARIABLES call,      \* what each call asks for
          pc,        \* where it stands
          todo,      \* categories whose hash a reader has still to read
          hash,      \* the one whose hash it is scanning
          opened,    \* what was there when its scan began
          answer,    \* what it has collected
          categories, subcategories,  \* what Redis stores
          atCall,    \* history: what it stored when the reader arrived
          faults

local == <<todo, hash, opened, answer>>
redis == <<categories, subcategories>>
vars  == <<call, pc, local, redis, atCall, faults>>

Calls == Writers \cup Readers

Writes == [op : {"add_category"}, category : Names]
            \cup [op : {"add_subcategory"}, category : Names, subcategory : Subnames]
Reads  == [op : {"tree"}] \cup [op : {"search"}, keyword : SUBSET (Names \cup Subnames)]

Contents == [categories : SUBSET Names, subcategories : [Names -> SUBSET Subnames]]
Nothing  == [categories |-> {}, subcategories |-> [c \in Names |-> {}]]
Content  == [categories |-> categories, subcategories |-> subcategories]

NoHash == "no hash"

(* Mutant: a subcategory is added without its category. *)
HashOnly(op) == CASE op = "add_category" -> "sadd" [] op = "add_subcategory" -> "hset"
                  [] op = "tree" -> "smembers"     [] op = "search" -> "sscan"

FirstCommand(op) == CASE op \in {"add_category", "add_subcategory"} -> "sadd"
                      [] op = "tree" -> "smembers"
                      [] op = "search" -> "sscan"

-----------------------------------------------------------------------------
Init == /\ call \in {f \in [Calls -> Writes \cup Reads] :
                        \A i \in Calls : f[i] \in Writes <=> i \in Writers}
        /\ pc = [i \in Calls |-> IF i \in Readers THEN "idle" ELSE FirstCommand(call[i].op)]
        /\ todo = [i \in Readers |-> {}]
        /\ hash = [i \in Readers |-> NoHash]
        /\ opened = [i \in Readers |-> {}]
        /\ answer = [i \in Readers |-> Nothing]
        /\ categories = {} /\ subcategories = Nothing.subcategories
        /\ atCall = [i \in Readers |-> Nothing]
        /\ faults = 0

Goto(i, label) == pc' = [pc EXCEPT ![i] = label]

(* addCategory, also the first half of addSubcategory. *)
AddCategory(i) == /\ pc[i] = "sadd"
                  /\ categories' = categories \cup {call[i].category}
                  /\ Goto(i, IF call[i].op = "add_category" THEN "ok" ELSE "hset")
                  /\ UNCHANGED <<call, local, subcategories, atCall, faults>>

AddSubcategory(i) ==
    /\ pc[i] = "hset"
    /\ subcategories' = [subcategories EXCEPT ![call[i].category] = @ \cup {call[i].subcategory}]
    /\ Goto(i, "ok")
    /\ UNCHANGED <<call, local, categories, atCall, faults>>

-----------------------------------------------------------------------------
Arrive(i) == /\ pc[i] = "idle"
             /\ Goto(i, FirstCommand(call[i].op))
             /\ opened' = [opened EXCEPT ![i] = categories]
             /\ atCall' = [atCall EXCEPT ![i] = Content]
             /\ UNCHANGED <<call, todo, hash, answer, redis, faults>>

(* The call has read these categories: it takes their hashes one by one.   *)
ReadSet(i, found, label) ==
    /\ answer' = [answer EXCEPT ![i].categories = found]
    /\ todo' = [todo EXCEPT ![i] = found]
    /\ Goto(i, IF found = {} THEN "ok" ELSE label)

(* Mutant: the answer is given after the first hash. *)
ReadOneHash(i, c, found, label) ==
    /\ answer' = [answer EXCEPT ![i].subcategories[c] = found]
    /\ todo' = [todo EXCEPT ![i] = @ \ {c}]
    /\ Goto(i, "ok")

(* The call has read this of the hash of c. *)
ReadHash(i, c, found, label) ==
    /\ answer' = [answer EXCEPT ![i].subcategories[c] = found]
    /\ todo' = [todo EXCEPT ![i] = @ \ {c}]
    /\ Goto(i, IF todo[i] = {c} THEN "ok" ELSE label)

Tree(i) == \/ /\ pc[i] = "smembers"
              /\ ReadSet(i, categories, "hkeys")
           \/ /\ pc[i] = "hkeys"
              /\ \E c \in todo[i] : ReadHash(i, c, subcategories[c], "hkeys")

(* getAllCategoriesWithSubcategories *)
GetTree(i) == Tree(i) /\ UNCHANGED <<call, hash, opened, redis, atCall, faults>>

(* What a scan with MATCH may return of what is there now. *)
Batches(i, now) == {S \in SUBSET (now \cap call[i].keyword) :
                        opened[i] \cap call[i].keyword \subseteq S}

(* Mutant: the values of a hash are taken for fields of it. *)
WithValues(i, now) ==
    {IF S = {} \/ hash[i] = NoHash THEN S ELSE S \cup {"1"} : S \in Batches(i, now)}

Scanned(i, now) == Batches(i, now)

ScanSet(i) == /\ pc[i] = "sscan"
              /\ \E found \in Scanned(i, categories) : ReadSet(i, found, "open")
              /\ UNCHANGED <<hash, opened>>

OpenHash(i) == /\ pc[i] = "open"
               /\ \E c \in todo[i] : /\ hash' = [hash EXCEPT ![i] = c]
                                     /\ opened' = [opened EXCEPT ![i] = subcategories[c]]
               /\ Goto(i, "hscan")
               /\ UNCHANGED <<todo, answer>>

ScanHash(i) == /\ pc[i] = "hscan"
               /\ \E found \in Scanned(i, subcategories[hash[i]]) :
                      ReadHash(i, hash[i], found, "open")
               /\ hash' = [hash EXCEPT ![i] = NoHash]
               /\ opened' = [opened EXCEPT ![i] = {}]

(* searchCategoriesAndSubcategories *)
Search(i) == /\ ScanSet(i) \/ OpenHash(i) \/ ScanHash(i)
             /\ UNCHANGED <<call, redis, atCall, faults>>

-----------------------------------------------------------------------------
(* Redis cannot be reached, or the service crashes: the call fails with    *)
(* what it has written so far.                                             *)
Fails(i) == /\ pc[i] \notin {"idle", "ok", "error"}
            /\ faults < MaxFaults /\ faults' = faults + 1
            /\ Goto(i, "error")
            /\ UNCHANGED <<call, local, redis, atCall>>

Next == \/ \E i \in Writers : AddCategory(i) \/ AddSubcategory(i)
        \/ \E i \in Readers : Arrive(i) \/ GetTree(i) \/ Search(i)
        \/ \E i \in Calls : Fails(i)

Spec == Init /\ [][Next]_vars
-----------------------------------------------------------------------------
TypeOK ==
    /\ call \in [Calls -> Writes \cup Reads]
    /\ pc \in [Calls -> {"idle", "sadd", "hset", "smembers", "hkeys",
                         "sscan", "open", "hscan", "ok", "error"}]
    /\ todo \in [Readers -> SUBSET Names]
    /\ hash \in [Readers -> Names \cup {NoHash}]
    /\ opened \in [Readers -> SUBSET (Names \cup Subnames)]
    /\ answer \in [Readers -> Contents] /\ atCall \in [Readers -> Contents]
    /\ Content \in Contents
    /\ faults \in 0..MaxFaults

(* A subcategory is never out of reach: whatever fails between the two     *)
(* writes, a category that has one is in the set both readers start from.  *)
SubcategoryListed == \A c \in Names : subcategories[c] # {} => c \in categories

Answered(op) == {i \in Readers : call[i].op = op /\ pc[i] = "ok"}

(* A tree holds all that was stored when it was asked for and nothing that *)
(* is not stored, although it is pieced together from several moments.     *)
TreeIsFresh ==
    \A i \in Answered("tree") :
        /\ atCall[i].categories \subseteq answer[i].categories
        /\ answer[i].categories \subseteq categories
        /\ \A c \in Names :
              /\ atCall[i].subcategories[c] \subseteq answer[i].subcategories[c]
              /\ answer[i].subcategories[c] \subseteq subcategories[c]

(* The one list of subcategories a search answers with. *)
Found(i) == UNION {answer[i].subcategories[c] : c \in Names}

(* A search misses no match that was stored when it was asked for, among   *)
(* categories and among subcategories of matching categories, and returns  *)
(* no name that is not stored.                                             *)
SearchIsFresh ==
    \A i \in Answered("search") :
        LET keyword == call[i].keyword IN
        /\ atCall[i].categories \cap keyword \subseteq answer[i].categories
        /\ answer[i].categories \subseteq categories \cap keyword
        /\ \A c \in atCall[i].categories \cap keyword :
              atCall[i].subcategories[c] \cap keyword \subseteq Found(i)
        /\ \A s \in Found(i) : s \in keyword /\ \E c \in Names : s \in subcategories[c]

(* However the writes fall between the commands of a reader, its answer is *)
(* one of those moments pieced together, and nothing else.                 *)
ReadsAreFresh == TreeIsFresh /\ SearchIsFresh
=============================================================================
