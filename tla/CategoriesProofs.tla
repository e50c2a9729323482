-------------------------- MODULE CategoriesProofs --------------------------
(***************************************************************************)
(* Proofs about Categories, for any sets of calls, names and keywords and  *)
(* any number of failures.                                                 *)
(***************************************************************************)
EXTENDS Categories, TLAPS

(* What a call may carry.                                                  *)
LEMMA WriteFields ==
  ASSUME NEW w \in Writes
  PROVE  /\ w.op \in {"add_category", "add_subcategory"} /\ w.category \in Names
         /\ w.op = "add_subcategory" => w.subcategory \in Subnames
BY DEF Writes

LEMMA ReadFields ==
  ASSUME NEW r \in Reads
  PROVE  /\ r.op \in {"tree", "search"}
         /\ r.op = "search" => r.keyword \subseteq Names \cup Subnames
BY DEF Reads

(* Where a call stands agrees with what it is; the hash is written after   *)
(* the set.                                                                *)
Stage(i) ==
    /\ call[i] \in Writes <=> i \in Writers
    /\ pc[i] = "hset" /\ i \in Writers
          => call[i].op = "add_subcategory" /\ call[i].category \in categories
    /\ pc[i] \in {"smembers", "hkeys"} => call[i].op = "tree"
    /\ pc[i] \in {"sscan", "open", "hscan"} => call[i].op = "search"
    /\ pc[i] = "hscan" /\ i \in Readers => hash[i] \in Names

Asked == \A i \in Calls : Stage(i)

TypeInv == TypeOK /\ Asked /\ SubcategoryListed

LEMMA InitInv == Init => TypeInv
<1> SUFFICES ASSUME Init PROVE TypeInv
  OBVIOUS
<1>1. /\ call \in [Calls -> Writes \cup Reads] /\ \A i \in Calls : call[i] \in Writes <=> i \in Writers
  BY DEF Init
<1>2. ASSUME NEW i \in Calls
      PROVE  /\ pc[i] \in {"idle", "sadd", "smembers", "sscan"}
             /\ Stage(i)
  <2>1. call[i].op \in {"add_category", "add_subcategory", "tree", "search"}
    BY <1>1, WriteFields, ReadFields
  <2>2. pc[i] = IF i \in Readers THEN "idle" ELSE FirstCommand(call[i].op)
    BY DEF Init
  <2> QED
    BY <1>1, <2>1, <2>2 DEF FirstCommand, Stage
<1>3. Nothing \in Contents /\ Content = Nothing
  BY DEF Init, Nothing, Contents, Content
<1>4. pc \in [Calls -> {"idle", "sadd", "hset", "smembers", "hkeys",
                        "sscan", "open", "hscan", "ok", "error"}]
  <2>1. pc = [i \in Calls |-> IF i \in Readers THEN "idle" ELSE FirstCommand(call[i].op)]
    BY DEF Init
  <2> QED
    BY <1>2, <2>1
<1>5. TypeOK
  BY <1>1, <1>3, <1>4, MaxFaultsAssumption DEF Init, TypeOK
<1>6. SubcategoryListed
  BY DEF Init, SubcategoryListed, Nothing
<1> QED
  BY <1>2, <1>5, <1>6 DEF TypeInv, Asked

LEMMA WriteStep ==
  ASSUME TypeInv, NEW i \in Writers, AddCategory(i) \/ AddSubcategory(i)
  PROVE  TypeInv'
<1> USE DEF TypeInv, TypeOK, Asked, Stage, SubcategoryListed, Contents, Content, local, Goto
<1>0. i \in Calls /\ call[i] \in Writes /\ call[i].category \in Names
      /\ call[i].op \in {"add_category", "add_subcategory"}
  BY WriteFields DEF Calls
<1>1. CASE AddCategory(i)
  BY <1>0, <1>1 DEF AddCategory
<1>2. CASE AddSubcategory(i)
  <2>1. call[i].subcategory \in Subnames /\ call[i].category \in categories
    BY <1>0, <1>2, WriteFields DEF AddSubcategory
  <2> QED
    BY <1>0, <1>2, <2>1 DEF AddSubcategory
<1> QED
  BY <1>1, <1>2

(* What a reader has collected is a content.                               *)
LEMMA AnswerTyped ==
  ASSUME TypeOK, NEW i \in Readers
  PROVE  /\ \A S \in SUBSET Names : [answer EXCEPT ![i].categories = S] \in [Readers -> Contents]
         /\ \A c \in Names, S \in SUBSET Subnames :
               [answer EXCEPT ![i].subcategories[c] = S] \in [Readers -> Contents]
BY DEF TypeOK, Contents

LEMMA ReadStep ==
  ASSUME TypeInv, NEW i \in Readers, Arrive(i) \/ GetTree(i) \/ Search(i)
  PROVE  TypeInv'
<1> USE DEF TypeInv, TypeOK, Asked, Stage, SubcategoryListed, Content, redis, Goto
<1>0. i \in Calls
  BY DEF Calls
<1>1. CASE Arrive(i)
  <2>1. FirstCommand(call[i].op) \in {"sadd", "smembers", "sscan"}
        /\ (FirstCommand(call[i].op) = "smembers" => call[i].op = "tree")
        /\ (FirstCommand(call[i].op) = "sscan" => call[i].op = "search")
    BY <1>0, WriteFields, ReadFields DEF FirstCommand
  <2>2. Content \in Contents /\ categories \in SUBSET Names
    BY DEF Contents
  <2> QED
    BY <1>0, <1>1, <2>1, <2>2 DEF Arrive
<1>2. CASE GetTree(i)
  <2>1. categories \in SUBSET Names /\ \A c \in Names : subcategories[c] \in SUBSET Subnames
    BY DEF Contents
  <2>2. CASE pc[i] = "smembers" /\ ReadSet(i, categories, "hkeys")
    BY <1>0, <1>2, <2>1, <2>2, AnswerTyped DEF GetTree, ReadSet
  <2>3. CASE pc[i] = "hkeys" /\ \E c \in todo[i] : ReadHash(i, c, subcategories[c], "hkeys")
    <3>1. PICK c \in todo[i] : ReadHash(i, c, subcategories[c], "hkeys")
      BY <2>3
    <3>2. c \in Names
      OBVIOUS
    <3>3. answer' \in [Readers -> Contents]
      BY <2>1, <3>1, <3>2, AnswerTyped DEF ReadHash
    <3>4. todo' \in [Readers -> SUBSET Names]
      BY <3>1 DEF ReadHash
    <3> QED
      BY <1>0, <1>2, <2>3, <3>1, <3>3, <3>4 DEF GetTree, ReadHash
  <2> QED
    BY <1>2, <2>2, <2>3 DEF GetTree, Tree
<1>3. CASE Search(i)
  <2>1. categories \in SUBSET Names /\ \A c \in Names : subcategories[c] \in SUBSET Subnames
    BY DEF Contents
  <2>2. CASE ScanSet(i)
    <3>1. PICK S \in SUBSET Names : ReadSet(i, S, "open")
      BY <2>1, <2>2 DEF ScanSet, Scanned, Batches
    <3> QED
      BY <1>0, <1>3, <2>2, <3>1, AnswerTyped DEF Search, ScanSet, ReadSet
  <2>3. CASE OpenHash(i)
    BY <1>0, <1>3, <2>1, <2>3 DEF Search, OpenHash
  <2>4. CASE ScanHash(i)
    <3>1. PICK S \in SUBSET Subnames : ReadHash(i, hash[i], S, "open")
      BY <1>0, <2>1, <2>4 DEF ScanHash, Scanned, Batches
    <3> QED
      <4>1. hash[i] \in Names
        BY <1>0, <2>4 DEF ScanHash
      <4>2. answer' \in [Readers -> Contents]
        BY <3>1, <4>1, AnswerTyped DEF ReadHash
      <4>3. todo' \in [Readers -> SUBSET Names]
        BY <3>1 DEF ReadHash
      <4>4. /\ pc' \in [Calls -> {"idle", "sadd", "hset", "smembers", "hkeys",
                                  "sscan", "open", "hscan", "ok", "error"}]
            /\ pc'[i] \in {"ok", "open"} /\ \A j \in Calls \ {i} : pc'[j] = pc[j]
        BY <1>0, <3>1 DEF ReadHash
      <4>5. hash' \in [Readers -> Names \cup {NoHash}] /\ opened' \in [Readers -> SUBSET (Names \cup Subnames)]
            /\ \A j \in Readers \ {i} : hash'[j] = hash[j]
        BY <2>4 DEF ScanHash
      <4>6. UNCHANGED <<call, categories, subcategories, atCall, faults>> /\ call[i].op = "search"
        BY <1>0, <1>3, <2>4 DEF Search, ScanHash
      <4>7. TypeOK'
        BY <4>2, <4>3, <4>4, <4>5, <4>6
      <4>8. \A j \in Calls : Stage(j)'
        BY <1>0, <4>4, <4>5, <4>6
      <4> QED
        BY <4>6, <4>7, <4>8
  <2> QED
    BY <1>3, <2>2, <2>3, <2>4 DEF Search
<1> QED
  BY <1>1, <1>2, <1>3

LEMMA TypeStep == TypeInv /\ [Next]_vars => TypeInv'
<1> SUFFICES ASSUME TypeInv, [Next]_vars PROVE TypeInv'
  OBVIOUS
<1>1. ASSUME NEW i \in Calls, Fails(i) PROVE TypeInv'
  BY <1>1, MaxFaultsAssumption
  DEF Fails, TypeInv, TypeOK, Asked, Stage, SubcategoryListed, Content, local, redis, Goto
<1>2. CASE UNCHANGED vars
  BY <1>2 DEF vars, TypeInv, TypeOK, Asked, Stage, SubcategoryListed, Content, local, redis
<1> QED
  BY <1>1, <1>2, WriteStep, ReadStep DEF Next

(* Every variable keeps its type, and a subcategory is never out of reach: *)
(* whatever fails, and wherever, its category is in the set.               *)
THEOREM Listed == Spec => [](TypeOK /\ SubcategoryListed)
<1>1. TypeInv => TypeOK /\ SubcategoryListed
  BY DEF TypeInv
<1> QED
  BY <1>1, InitInv, TypeStep, PTL DEF Spec

-----------------------------------------------------------------------------
(* Redis only grows, and with every category the set had when a reader     *)
(* arrived it had those of the subcategories there were.                   *)
SnapshotStored(i) ==
    /\ atCall[i].categories \subseteq categories
    /\ \A c \in Names : /\ atCall[i].subcategories[c] \subseteq subcategories[c]
                        /\ atCall[i].subcategories[c] # {} => c \in atCall[i].categories

(* A tree under way: only what is left to do can still be missing from it. *)
TreeUnderWay(i) == call[i].op = "tree" =>
    /\ \A c \in Names : answer[i].subcategories[c] \subseteq subcategories[c]
    /\ pc[i] \in {"hkeys", "ok"} =>
          /\ atCall[i].categories \subseteq answer[i].categories
          /\ answer[i].categories \subseteq categories
          /\ \A c \in Names \ todo[i] : atCall[i].subcategories[c] \subseteq answer[i].subcategories[c]
    /\ pc[i] = "ok" => todo[i] = {}

(* A search under way, the same for what its keyword matches; a scan began *)
(* with all there was when the search was asked for.                       *)
SearchUnderWay(i) == call[i].op = "search" =>
    LET keyword == call[i].keyword IN
    /\ \A c \in Names : answer[i].subcategories[c] \subseteq subcategories[c] \cap keyword
    /\ pc[i] = "sscan" => opened[i] = atCall[i].categories
    /\ pc[i] \in {"open", "hscan", "ok"} =>
          /\ atCall[i].categories \cap keyword \subseteq answer[i].categories
          /\ answer[i].categories \subseteq categories \cap keyword
          /\ \A c \in answer[i].categories \ todo[i] :
                atCall[i].subcategories[c] \cap keyword \subseteq answer[i].subcategories[c]
    /\ pc[i] = "hscan" => hash[i] \in todo[i] /\ atCall[i].subcategories[hash[i]] \subseteq opened[i]
    /\ pc[i] = "ok" => todo[i] = {}

Reading(i) == SnapshotStored(i) /\ TreeUnderWay(i) /\ SearchUnderWay(i)

IndInv == TypeInv /\ \A i \in Readers : Reading(i)

LEMMA InitReading == Init => \A i \in Readers : Reading(i)
<1> SUFFICES ASSUME Init, NEW i \in Readers PROVE Reading(i)
  OBVIOUS
<1>1. pc[i] = "idle" /\ answer[i] = Nothing /\ atCall[i] = Nothing
  BY DEF Init, Calls
<1>2. SnapshotStored(i)
  BY <1>1 DEF SnapshotStored, Nothing
<1>3. TreeUnderWay(i)
  BY <1>1 DEF TreeUnderWay, Nothing
<1>4. SearchUnderWay(i)
  BY <1>1 DEF SearchUnderWay, Nothing
<1> QED
  BY <1>2, <1>3, <1>4 DEF Reading

(* A step of another call, or a failure, at most adds to what is stored.   *)
LEMMA OthersKeep ==
  ASSUME TypeOK, NEW i \in Readers, Reading(i),
         call'[i] = call[i], todo'[i] = todo[i], hash'[i] = hash[i], opened'[i] = opened[i],
         answer'[i] = answer[i], atCall'[i] = atCall[i], pc'[i] \in {pc[i], "error"},
         categories \subseteq categories',
         \A c \in Names : subcategories[c] \subseteq subcategories'[c]
  PROVE  Reading(i)'
<1>1. SnapshotStored(i)'
  BY DEF Reading, SnapshotStored
<1>2. TreeUnderWay(i)'
  BY DEF Reading, TreeUnderWay
<1>3. SearchUnderWay(i)'
  BY DEF Reading, SearchUnderWay
<1> QED
  BY <1>1, <1>2, <1>3 DEF Reading

(* The reader arrives: what there is now is what it is owed.               *)
LEMMA ArriveReads == ASSUME TypeInv, NEW i \in Readers, Reading(i), Arrive(i) PROVE Reading(i)'
<1> USE DEF TypeInv, TypeOK, redis, Goto
<1>0. /\ i \in Calls /\ atCall'[i] = Content /\ UNCHANGED <<call, categories, subcategories, answer>>
      /\ opened'[i] = categories /\ pc'[i] = FirstCommand(call[i].op)
  BY DEF Arrive, Calls
<1>1. SnapshotStored(i)'
  BY <1>0 DEF SnapshotStored, Content, SubcategoryListed
<1>2. TreeUnderWay(i)'
  BY <1>0 DEF Reading, TreeUnderWay, FirstCommand
<1>3. SearchUnderWay(i)'
  BY <1>0 DEF Reading, SearchUnderWay, FirstCommand, Content
<1> QED
  BY <1>1, <1>2, <1>3 DEF Reading

(* What a reader that has read the set, or a hash, has collected.          *)
LEMMA Collected ==
  ASSUME TypeOK, NEW i \in Readers
  PROVE  /\ \A S, label : ReadSet(i, S, label) =>
               /\ answer'[i].categories = S /\ answer'[i].subcategories = answer[i].subcategories
               /\ todo'[i] = S /\ pc'[i] = IF S = {} THEN "ok" ELSE label
         /\ \A c \in Names : \A S, label : ReadHash(i, c, S, label) =>
               /\ answer'[i].categories = answer[i].categories
               /\ answer'[i].subcategories[c] = S
               /\ \A d \in Names \ {c} : answer'[i].subcategories[d] = answer[i].subcategories[d]
               /\ todo'[i] = todo[i] \ {c} /\ pc'[i] = IF todo[i] = {c} THEN "ok" ELSE label
<1>0. i \in Calls /\ answer[i] \in Contents
  BY DEF TypeOK, Calls
<1>1. ASSUME NEW S, NEW label, ReadSet(i, S, label)
      PROVE  /\ answer'[i].categories = S /\ answer'[i].subcategories = answer[i].subcategories
             /\ todo'[i] = S /\ pc'[i] = IF S = {} THEN "ok" ELSE label
  BY <1>0, <1>1 DEF ReadSet, Goto, TypeOK, Contents
<1>2. ASSUME NEW c \in Names, NEW S, NEW label, ReadHash(i, c, S, label)
      PROVE  /\ answer'[i].categories = answer[i].categories
             /\ answer'[i].subcategories[c] = S
             /\ \A d \in Names \ {c} : answer'[i].subcategories[d] = answer[i].subcategories[d]
             /\ todo'[i] = todo[i] \ {c} /\ pc'[i] = IF todo[i] = {c} THEN "ok" ELSE label
  BY <1>0, <1>2 DEF ReadHash, Goto, TypeOK, Contents
<1> QED
  BY <1>1, <1>2

LEMMA TreeReads == ASSUME TypeInv, NEW i \in Readers, Reading(i), GetTree(i) PROVE Reading(i)'
<1> USE DEF TypeInv, TypeOK, redis
<1>0. /\ i \in Calls /\ UNCHANGED <<call, categories, subcategories, atCall>>
      /\ call[i].op = "tree"
  BY DEF GetTree, Tree, Calls, Asked, Stage
<1>1. SnapshotStored(i)'
  BY <1>0 DEF Reading, SnapshotStored
<1>2. TreeUnderWay(i)'
  <2>1. CASE pc[i] = "smembers" /\ ReadSet(i, categories, "hkeys")
    <3>1. /\ answer'[i].categories = categories /\ answer'[i].subcategories = answer[i].subcategories
          /\ todo'[i] = categories /\ pc'[i] \in {"ok", "hkeys"} /\ (pc'[i] = "ok" => categories = {})
      BY <2>1, Collected
    <3>2. \A c \in Names \ categories : atCall[i].subcategories[c] = {}
      BY DEF SubcategoryListed, Reading, SnapshotStored
    <3> QED
      BY <1>0, <3>1, <3>2 DEF Reading, TreeUnderWay, SnapshotStored
  <2>2. ASSUME NEW c \in todo[i], pc[i] = "hkeys", ReadHash(i, c, subcategories[c], "hkeys")
        PROVE  TreeUnderWay(i)'
    <3>0. c \in Names
      OBVIOUS
    <3>1. /\ answer'[i].categories = answer[i].categories
          /\ answer'[i].subcategories[c] = subcategories[c]
          /\ \A d \in Names \ {c} : answer'[i].subcategories[d] = answer[i].subcategories[d]
          /\ todo'[i] = todo[i] \ {c} /\ (pc'[i] = "ok" => todo[i] = {c})
      BY <2>2, <3>0, Collected
    <3> QED
      BY <1>0, <2>2, <3>0, <3>1 DEF Reading, TreeUnderWay, SnapshotStored
  <2> QED
    BY <2>1, <2>2 DEF GetTree, Tree
<1>3. SearchUnderWay(i)'
  BY <1>0 DEF SearchUnderWay
<1> QED
  BY <1>1, <1>2, <1>3 DEF Reading

LEMMA SearchReads == ASSUME TypeInv, NEW i \in Readers, Reading(i), Search(i) PROVE Reading(i)'
<1> USE DEF TypeInv, TypeOK, redis, Goto
<1>0. /\ i \in Calls /\ UNCHANGED <<call, categories, subcategories, atCall>>
      /\ call[i].op = "search"
  BY DEF Search, ScanSet, OpenHash, ScanHash, Calls, Asked, Stage
<1>1. SnapshotStored(i)'
  BY <1>0 DEF Reading, SnapshotStored
<1>2. TreeUnderWay(i)'
  BY <1>0 DEF TreeUnderWay
<1>3. SearchUnderWay(i)'
  <2>1. CASE ScanSet(i)
    <3>1. PICK S \in Batches(i, categories) : ReadSet(i, S, "open")
      BY <2>1 DEF ScanSet, Scanned
    <3>2. /\ S \subseteq categories \cap call[i].keyword
          /\ atCall[i].categories \cap call[i].keyword \subseteq S
      BY <1>0, <2>1 DEF ScanSet, Batches, Reading, SearchUnderWay
    <3>3. /\ answer'[i].categories = S /\ answer'[i].subcategories = answer[i].subcategories
          /\ todo'[i] = S /\ pc'[i] \in {"ok", "open"} /\ (pc'[i] = "ok" => S = {})
      BY <3>1, Collected
    <3> QED
      BY <1>0, <3>2, <3>3 DEF Reading, SearchUnderWay
  <2>2. CASE OpenHash(i)
    <3>1. PICK c \in todo[i] : hash'[i] = c /\ opened'[i] = subcategories[c]
      BY <2>2 DEF OpenHash
    <3>2. c \in Names /\ pc'[i] = "hscan" /\ UNCHANGED <<todo, answer>> /\ pc[i] = "open"
      BY <1>0, <2>2 DEF OpenHash
    <3> QED
      BY <1>0, <3>1, <3>2 DEF Reading, SearchUnderWay, SnapshotStored
  <2>3. CASE ScanHash(i)
    <3> DEFINE c == hash[i]
    <3>0. c \in Names /\ c \in todo[i] /\ pc[i] = "hscan"
      BY <1>0, <2>3 DEF ScanHash, Reading, SearchUnderWay
    <3>1. PICK S \in Batches(i, subcategories[c]) : ReadHash(i, c, S, "open")
      BY <2>3 DEF ScanHash, Scanned
    <3>2. /\ S \subseteq subcategories[c] \cap call[i].keyword
          /\ atCall[i].subcategories[c] \cap call[i].keyword \subseteq S
      BY <1>0, <3>0 DEF Batches, Reading, SearchUnderWay
    <3>3. /\ answer'[i].categories = answer[i].categories
          /\ answer'[i].subcategories[c] = S
          /\ \A d \in Names \ {c} : answer'[i].subcategories[d] = answer[i].subcategories[d]
          /\ todo'[i] = todo[i] \ {c} /\ pc'[i] \in {"ok", "open"} /\ (pc'[i] = "ok" => todo[i] = {c})
      BY <3>0, <3>1, Collected
    <3>4. /\ \A d \in Names : answer[i].subcategories[d] \subseteq subcategories[d] \cap call[i].keyword
          /\ atCall[i].categories \cap call[i].keyword \subseteq answer[i].categories
          /\ answer[i].categories \subseteq categories \cap call[i].keyword
          /\ \A d \in answer[i].categories \ todo[i] :
                atCall[i].subcategories[d] \cap call[i].keyword \subseteq answer[i].subcategories[d]
      BY <1>0, <3>0 DEF Reading, SearchUnderWay
    <3>5. answer[i].categories \subseteq Names
      BY DEF Contents
    <3> HIDE DEF c
    <3> QED
      BY <1>0, <3>0, <3>2, <3>3, <3>4, <3>5 DEF SearchUnderWay
  <2> QED
    BY <2>1, <2>2, <2>3 DEF Search
<1> QED
  BY <1>1, <1>2, <1>3 DEF Reading

LEMMA ReadingStep == IndInv /\ [Next]_vars => \A i \in Readers : Reading(i)'
<1> SUFFICES ASSUME IndInv, [Next]_vars, NEW i \in Readers PROVE Reading(i)'
  OBVIOUS
<1>0. TypeInv /\ TypeOK /\ Reading(i) /\ i \in Calls
  BY DEF IndInv, TypeInv, Calls
<1> USE DEF TypeOK, local, redis, Goto
<1>1. CASE Arrive(i) \/ GetTree(i) \/ Search(i)
  BY <1>0, <1>1, ArriveReads, TreeReads, SearchReads
<1>2. ASSUME NEW j \in Readers \ {i}, Arrive(j) \/ GetTree(j) \/ Search(j) PROVE Reading(i)'
  <2>0. j \in Calls
    BY DEF Calls
  <2>1. CASE Arrive(j)
    BY <1>0, <2>0, <2>1, OthersKeep DEF Arrive
  <2>2. CASE GetTree(j)
    BY <1>0, <2>0, <2>2, OthersKeep DEF GetTree, Tree, ReadSet, ReadHash
  <2>3. CASE Search(j)
    BY <1>0, <2>0, <2>3, OthersKeep DEF Search, ScanSet, OpenHash, ScanHash, ReadSet, ReadHash
  <2> QED
    BY <1>2, <2>1, <2>2, <2>3
<1>3. ASSUME NEW j \in Writers, AddCategory(j) \/ AddSubcategory(j) PROVE Reading(i)'
  <2>j. j \in Calls
    BY DEF Calls
  <2>0. /\ categories \subseteq categories'
        /\ \A c \in Names : subcategories[c] \subseteq subcategories'[c]
        /\ UNCHANGED <<call, local, atCall>>
        /\ \A k \in Calls \ {j} : pc'[k] = pc[k]
    <3>1. CASE AddCategory(j)
      BY <1>0, <2>j, <3>1 DEF AddCategory
    <3>2. CASE AddSubcategory(j)
      <4>1. subcategories \in [Names -> SUBSET Subnames]
        BY <1>0 DEF Content, Contents
      <4> QED
        BY <1>0, <2>j, <3>2, <4>1 DEF AddSubcategory
    <3> QED
      BY <1>3, <3>1, <3>2
  <2>1. CASE j # i
    BY <1>0, <2>0, <2>1, OthersKeep
  <2>2. CASE j = i
    <3>1. call[i].op # "tree" /\ call[i].op # "search"
      BY <1>0, <2>2, WriteFields DEF TypeInv, Asked, Stage
    <3> QED
      BY <1>0, <2>0, <3>1 DEF Reading, SnapshotStored, TreeUnderWay, SearchUnderWay
  <2> QED
    BY <2>1, <2>2
<1>4. ASSUME NEW j \in Calls, Fails(j) PROVE Reading(i)'
  BY <1>0, <1>4, OthersKeep DEF Fails
<1>5. CASE UNCHANGED vars
  BY <1>0, <1>5, OthersKeep DEF vars
<1> QED
  BY <1>1, <1>2, <1>3, <1>4, <1>5 DEF Next

(* Whatever is written between the commands of a reader, a tree holds all  *)
(* that was stored when it was asked for and nothing that is not stored; a *)
(* search misses no such match and invents none.                           *)
THEOREM Fresh == Spec => []ReadsAreFresh
<1>1. ASSUME IndInv PROVE TreeIsFresh
  BY <1>1 DEF IndInv, Reading, SnapshotStored, TreeUnderWay, TreeIsFresh, Answered
<1>2. ASSUME IndInv PROVE SearchIsFresh
  <2> SUFFICES ASSUME NEW i \in Answered("search")
               PROVE  /\ atCall[i].categories \cap call[i].keyword \subseteq answer[i].categories
                      /\ answer[i].categories \subseteq categories \cap call[i].keyword
                      /\ \A c \in atCall[i].categories \cap call[i].keyword :
                            atCall[i].subcategories[c] \cap call[i].keyword \subseteq Found(i)
                      /\ \A s \in Found(i) : s \in call[i].keyword /\ \E c \in Names : s \in subcategories[c]
    BY DEF SearchIsFresh
  <2>1. /\ i \in Readers /\ call[i].op = "search" /\ pc[i] = "ok" /\ todo[i] = {}
        /\ SearchUnderWay(i) /\ atCall[i].categories \subseteq Names
    BY <1>2 DEF Answered, IndInv, TypeInv, TypeOK, Contents, Reading, SearchUnderWay
  <2> QED
    BY <2>1 DEF SearchUnderWay, Found
<1>3. IndInv /\ [Next]_vars => IndInv'
  BY TypeStep, ReadingStep DEF IndInv
<1>4. Init => IndInv
  BY InitInv, InitReading DEF IndInv
<1>5. IndInv => ReadsAreFresh
  BY <1>1, <1>2 DEF ReadsAreFresh
<1> QED
  BY <1>3, <1>4, <1>5, PTL DEF Spec
=============================================================================
