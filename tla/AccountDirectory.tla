-------------------------- MODULE AccountDirectory --------------------------
(***************************************************************************)
(* What signing up promises, without queues, handlers or failures: an      *)
(* address is held by one account, a service knows an account only after   *)
(* it was registered, and a buyer is opened once, for an account the user  *)
(* service knows.  Module Signup implements this.                          *)
(***************************************************************************)
CONSTANTS Ids, Emails, Services

VARIABLES accounts,  \* registered accounts: records of an id and an address
          known,     \* ids each service has a copy of
          buyers     \* ids that have a buyer

vars == <<accounts, known, buyers>>

Accounts == [id : Ids, email : Emails]

RegisteredIds == {a.id : a \in accounts}

Init == /\ accounts = {}
        /\ known = [s \in Services |-> {}]
        /\ buyers = {}

Register(a) == /\ \A b \in accounts : b.id # a.id /\ b.email # a.email
               /\ accounts' = accounts \cup {a}
               /\ UNCHANGED <<known, buyers>>

Learn(s, i) == /\ i \in RegisteredIds \ known[s]
               /\ known' = [known EXCEPT ![s] = @ \cup {i}]
               /\ UNCHANGED <<accounts, buyers>>

Open(i) == /\ i \in known["user"] \ buyers
           /\ buyers' = buyers \cup {i}
           /\ UNCHANGED <<accounts, known>>

Next == \/ \E a \in Accounts : Register(a)
        \/ \E s \in Services, i \in Ids : Learn(s, i)
        \/ \E i \in Ids : Open(i)

Spec == Init /\ [][Next]_vars
=============================================================================
