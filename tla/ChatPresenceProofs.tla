------------------------- MODULE ChatPresenceProofs -------------------------
(***************************************************************************)
(* Proofs about ChatPresence, for any sets of sockets and users, any       *)
(* number of messages and any number of failures.                          *)
(***************************************************************************)
EXTENDS ChatPresence, TLAPS

(* What becomes of the messages of a socket: one more, one less, or only   *)
(* the first of them.                                                      *)
LEMMA Appended ==
  ASSUME NEW w \in Seq(Messages), NEW m \in Messages
  PROVE  /\ Append(w, m) \in Seq(Messages)
         /\ Len(Append(w, m)) = Len(w) + 1
         /\ Append(w, m)[Len(w) + 1] = m
         /\ \A i \in 1..Len(w) : Append(w, m)[i] = w[i]
OBVIOUS

LEMMA Taken ==
  ASSUME NEW w \in Seq(Messages), w # <<>>
  PROVE  /\ Tail(w) \in Seq(Messages)
         /\ Len(w) \in Nat \ {0} /\ Len(Tail(w)) = Len(w) - 1
         /\ w[1] = Head(w) /\ Head(w) \in Messages
         /\ \A i \in 1..Len(Tail(w)) : Tail(w)[i] = w[i + 1]
OBVIOUS

LEMMA Arrived ==
  ASSUME NEW w \in Seq(Messages), NEW v \in Prefixes(w)
  PROVE  /\ v \in Seq(Messages)
         /\ Range(v) \subseteq Range(w)
<1>1. PICK l \in 0..Len(w) : v = SubSeq(w, 1, l)
  BY DEF Prefixes
<1>2. Len(v) = l /\ \A i \in 1..l : v[i] = w[i]
  BY <1>1
<1>3. v \in Seq(Messages)
  BY <1>1
<1> QED
  BY <1>2, <1>3 DEF Range

LEMMA InRange ==
  ASSUME NEW w \in Seq(Messages), NEW m
  PROVE  m \in Range(w) <=> \E i \in 1..Len(w) : w[i] = m
BY DEF Range

-----------------------------------------------------------------------------
(* The shape of a step: it touches the wire of one socket, or closes       *)
(* sockets.                                                                *)
Sending(s) == \/ \E u \in Users : Login(s, u)
              \/ Logout(s) \/ Ask(s)

LEMMA InitTyped == Init => TypeOK
<1> SUFFICES ASSUME Init PROVE TypeOK
  OBVIOUS
<1>1. <<>> \in Seq(Messages)
  OBVIOUS
<1> QED
  BY <1>1, PresenceAssumption DEF Init, TypeOK

LEMMA TypeStep == TypeOK /\ [Next]_vars => TypeOK'
<1> SUFFICES ASSUME TypeOK, [Next]_vars PROVE TypeOK'
  OBVIOUS
<1> USE PresenceAssumption DEF TypeOK, clients
<1>1. ASSUME NEW s \in Sockets, NEW e \in {"LOGIN", "LOGOUT", "GET_USER_ONLINE_STATUS"},
             NEW u \in Users, Says(s, e, u)
      PROVE  /\ open' \subseteq Sockets /\ online' \subseteq Users /\ left' \subseteq Users
             /\ sent' \in [Sockets -> 0..MaxSent] /\ wire' \in [Sockets -> Seq(Messages)]
             /\ faults' \in 0..MaxFaults
  <2>1. [event |-> e, user |-> u] \in Messages
    BY DEF Messages
  <2>2. Append(wire[s], [event |-> e, user |-> u]) \in Seq(Messages)
    BY <2>1, Appended
  <2> QED
    BY <1>1, <2>2 DEF Says
<1>2. ASSUME NEW s \in Sockets, NEW u \in Users, Login(s, u) PROVE TypeOK'
  BY <1>1, <1>2 DEF Login
<1>3. ASSUME NEW s \in Sockets, Logout(s) PROVE TypeOK'
  BY <1>1, <1>3 DEF Logout
<1>4. ASSUME NEW s \in Sockets, Ask(s) PROVE TypeOK'
  BY <1>1, <1>4 DEF Ask
<1>5. ASSUME NEW s \in Sockets, Connect(s) PROVE TypeOK'
  BY <1>5 DEF Connect
<1>6. ASSUME NEW S \in SUBSET open, Gone(S)
      PROVE  /\ open' \subseteq Sockets /\ user' \in [Sockets -> Users \cup {Nobody}]
             /\ sent' \in [Sockets -> 0..MaxSent]
             /\ online' \subseteq Users /\ status' \in [Sockets -> {"none", "true", "false"}]
             /\ left' \subseteq Users /\ doubled' \subseteq Users
  <2>1. \A s \in S : \A m \in Range(wire[s]) : m.user \in Users
    <3> SUFFICES ASSUME NEW s \in S, NEW m \in Range(wire[s]) PROVE m.user \in Users
      OBVIOUS
    <3>1. wire[s] \in Seq(Messages)
      BY <1>6
    <3>2. PICK i \in 1..Len(wire[s]) : wire[s][i] = m
      BY <3>1, InRange
    <3>3. m \in Messages
      BY <3>1, <3>2
    <3> QED
      BY <3>3 DEF Messages
  <2> QED
    BY <1>6, <2>1 DEF Gone
<1>7. ASSUME NEW s \in Sockets, Disconnect(s) PROVE TypeOK'
  <2>1. PICK v \in Prefixes(wire[s]) : wire' = [wire EXCEPT ![s] = v]
    BY <1>7 DEF Disconnect
  <2>2. v \in Seq(Messages)
    BY <2>1, Arrived
  <2>3. {s} \in SUBSET open /\ Gone({s}) /\ faults' = faults
    BY <1>7 DEF Disconnect
  <2> QED
    BY <1>6, <2>1, <2>2, <2>3
<1>8. CASE ChatCrash
  <2>1. <<>> \in Seq(Messages)
    OBVIOUS
  <2>2. open \in SUBSET open /\ Gone(open)
    BY <1>8 DEF ChatCrash
  <2>3. faults' \in 0..MaxFaults /\ wire' \in [Sockets -> Seq(Messages)]
    BY <1>8, <2>1 DEF ChatCrash, Fault
  <2> QED
    BY <1>6, <2>2, <2>3
<1>9. ASSUME NEW s \in Sockets, wire[s] # <<>>, Done(s)
      PROVE  /\ Message(s) \in Messages /\ Message(s).user \in Users
             /\ wire' \in [Sockets -> Seq(Messages)]
             /\ UNCHANGED <<open, user, sent, left, doubled>>
  <2>1. wire[s] \in Seq(Messages)
    OBVIOUS
  <2>2. Tail(wire[s]) \in Seq(Messages) /\ Head(wire[s]) \in Messages
    BY <1>9, <2>1, Taken
  <2> QED
    BY <1>9, <2>2 DEF Done, Message, Messages
<1>10. ASSUME NEW s \in Sockets, Handle(s) \/ CommandFails(s) PROVE TypeOK'
  <2>1. CASE SaveUserLogin(s)
    BY <1>9, <2>1 DEF SaveUserLogin
  <2>2. CASE RemoveUserLogout(s)
    BY <1>9, <2>2 DEF RemoveUserLogout
  <2>3. CASE GetUserOnlineStatus(s)
    BY <1>9, <2>3 DEF GetUserOnlineStatus
  <2>4. CASE CommandFails(s)
    BY <1>9, <2>4 DEF CommandFails, Fault
  <2> QED
    BY <1>10, <2>1, <2>2, <2>3, <2>4 DEF Handle
<1>11. CASE UNCHANGED vars
  BY <1>11 DEF vars
<1> QED
  BY <1>2, <1>3, <1>4, <1>5, <1>7, <1>8, <1>10, <1>11 DEF Next

(* Every variable keeps its type. *)
THEOREM TypeCorrect == Spec => []TypeOK
<1>1. QED
  BY InitTyped, TypeStep, PTL DEF Spec
-----------------------------------------------------------------------------
(* The socket has said this in a message that is at one of the positions S *)
(* of its wire.                                                            *)
SaidAt(s, e, u, S) == \E i \in S : wire[s][i] = [event |-> e, user |-> u]

Places(s)     == 1..Len(wire[s])
Later(s, i)   == (i + 1)..Len(wire[s])
Between(i, k) == (i + 1)..(k - 1)

Said(s, e, u) == SaidAt(s, e, u, Places(s))

ASK == "GET_USER_ONLINE_STATUS"

(* What a socket says makes up sessions: after a login comes the logout,   *)
(* or the socket is still logged in; between a logout and what is said in  *)
(* the same name afterwards comes a login.                                 *)
EndedOrOn(s, i) ==
    LET u == wire[s][i].user IN
    wire[s][i].event # "LOGOUT" => user[s] = u \/ SaidAt(s, "LOGOUT", u, Later(s, i))

NewLogin(s, i) ==
    LET u == wire[s][i].user IN
    wire[s][i].event = "LOGOUT" =>
        /\ user[s] = u => SaidAt(s, "LOGIN", u, Later(s, i))
        /\ \A k \in Later(s, i) : wire[s][k] = [event |-> ASK, user |-> u]
              => SaidAt(s, "LOGIN", u, Between(i, k))

Sessions(s) == \A i \in Places(s) : EndedOrOn(s, i) /\ NewLogin(s, i)

(* A socket that is closed has no user, and those it spoke for have left.  *)
Silent(s) == /\ user[s] = Nobody /\ status[s] = "none"
             /\ \A i \in Places(s) : wire[s][i].user \in left

Socket(s) == /\ sent[s] = 0 => wire[s] = <<>>
             /\ s \in open => Sessions(s)
             /\ s \notin open => Silent(s)

(* Whoever logs out of one socket while he is logged in, or has not yet    *)
(* been logged out, on another, is doubled.                                *)
Doubling == \A s, t \in Sockets, u \in Users :
                s # t /\ Said(t, "LOGOUT", u) /\ (user[s] = u \/ Said(s, "LOGOUT", u))
                    => u \in doubled

(* Without failures: whoever is shown has said so, ...                     *)
Shown(u) == u \in online => \/ HasSocket(u) \/ u \in left
                            \/ \E s \in Sockets : Said(s, "LOGOUT", u)

(* ... a login of a socket is on its way or has been shown, ...            *)
Visible(u) == u \in online \/ u \in doubled

LoginShows(s) == user[s] # Nobody => Said(s, "LOGIN", user[s]) \/ Visible(user[s])

AskSees(s, i) == LET u == wire[s][i].user IN
                 wire[s][i].event = ASK => SaidAt(s, "LOGIN", u, 1..(i - 1)) \/ Visible(u)

(* ... and nobody else is told that he is not.                             *)
Told(s) == status[s] = "false" => user[s] \in doubled

SocketInv == (\A s \in Sockets : Socket(s)) /\ Doubling

Explained == faults = 0 => /\ \A u \in Users : Shown(u)
                           /\ \A s \in Sockets : Told(s)
                           /\ \A s \in open : LoginShows(s) /\ \A i \in Places(s) : AskSees(s, i)

IndInv == TypeOK /\ SocketInv /\ Explained

LEMMA InitInv == Init => SocketInv /\ Explained
<1> SUFFICES ASSUME Init PROVE SocketInv /\ Explained
  OBVIOUS
<1>1. \A s \in Sockets : wire[s] = <<>> /\ Places(s) = {} /\ user[s] = Nobody /\ status[s] = "none"
  BY DEF Init, Places
<1>2. open = {} /\ online = {}
  BY DEF Init
<1>3. \A s \in Sockets : Socket(s)
  BY <1>1, <1>2 DEF Socket, Silent
<1>4. Doubling
  BY <1>1 DEF Doubling, Said, SaidAt
<1>5. Explained
  BY <1>1, <1>2 DEF Explained, Shown, Told
<1> QED
  BY <1>3, <1>4, <1>5 DEF SocketInv

(* The invariant says what is promised. *)
LEMMA Explains == IndInv => PresenceIsExplained
<1> SUFFICES ASSUME IndInv, faults = 0 PROVE PresenceIsExplained
  BY DEF PresenceIsExplained
<1>1. \A s \in Sockets : wire[s] \in Seq(Messages)
  BY DEF IndInv, TypeOK
<1>2. ASSUME NEW u \in Users, ~Pending(u), NEW s \in Sockets, NEW e \in {"LOGIN", "LOGOUT"}
      PROVE  ~Said(s, e, u)
  <2>1. [event |-> e, user |-> u] \in Messages
    BY DEF Messages
  <2>2. [event |-> e, user |-> u] \notin Range(wire[s])
    BY <1>2, <2>1 DEF Pending
  <2> QED
    BY <1>1, <2>2, InRange DEF Said, SaidAt, Places
<1>3. ASSUME NEW u \in Users, ~Pending(u), u \in online PROVE HasSocket(u) \/ u \in left
  BY <1>2, <1>3 DEF IndInv, Explained, Shown
<1>4. ASSUME NEW u \in Users, ~Pending(u), HasSocket(u) PROVE u \in online \/ u \in doubled
  <2>1. PICK s \in open : user[s] = u
    BY <1>4 DEF HasSocket
  <2>2. s \in Sockets /\ u # Nobody
    BY PresenceAssumption DEF IndInv, TypeOK
  <2> QED
    BY <1>2, <1>4, <2>1, <2>2 DEF IndInv, Explained, LoginShows, Visible
<1> QED
  BY <1>3, <1>4 DEF PresenceIsExplained, IndInv, Explained, Told
-----------------------------------------------------------------------------
(* A socket says something.                                                *)
LEMMA SayFacts ==
  ASSUME TypeOK, NEW s \in Sockets, NEW e \in {"LOGIN", "LOGOUT", ASK},
         NEW u \in Users, Says(s, e, u)
  PROVE  /\ s \in open /\ UNCHANGED <<open, online, left, faults>>
         /\ sent'[s] # 0
         /\ \A t \in Sockets \ {s} : sent'[t] = sent[t] /\ wire'[t] = wire[t]
         /\ Len(wire[s]) \in Nat /\ Len(wire'[s]) = Len(wire[s]) + 1
         /\ wire'[s][Len(wire[s]) + 1] = [event |-> e, user |-> u]
         /\ \A i \in Places(s) : wire'[s][i] = wire[s][i]
         /\ \A i \in Places(s) : wire[s][i] \in Messages
<1>0. wire[s] \in Seq(Messages) /\ sent[s] \in Nat
  BY DEF TypeOK
<1>1. [event |-> e, user |-> u] \in Messages
  BY DEF Messages, ASK
<1>2. wire' = [wire EXCEPT ![s] = Append(wire[s], [event |-> e, user |-> u])]
  BY DEF Says
<1>3. wire'[s] = Append(wire[s], [event |-> e, user |-> u])
  BY <1>2 DEF TypeOK
<1>4. sent' = [sent EXCEPT ![s] = sent[s] + 1] /\ sent'[s] # 0
  BY <1>0 DEF Says, TypeOK
<1>5. \A i \in Places(s) : wire[s][i] \in Messages
  BY <1>0 DEF Places
<1> QED
  BY <1>0, <1>1, <1>2, <1>3, <1>4, <1>5, Appended DEF Says, TypeOK, Places

(* Who is logged in after it, by what was said.                            *)
LEMMA SendFacts ==
  ASSUME TypeOK, NEW s \in Sockets, Sending(s)
  PROVE  \E e \in {"LOGIN", "LOGOUT", ASK}, u \in Users :
            /\ Says(s, e, u)
            /\ \A t \in Sockets \ {s} : user'[t] = user[t] /\ status'[t] = status[t]
            /\ e = "LOGIN" => /\ user[s] = Nobody /\ user'[s] = u /\ status'[s] = "none"
                              /\ doubled' = IF LogoutUnderWay(s, u) THEN doubled \cup {u} ELSE doubled
            /\ e = "LOGOUT" => /\ user[s] = u /\ user'[s] = Nobody /\ status'[s] = "none"
                               /\ doubled' = IF Elsewhere(s, u) THEN doubled \cup {u} ELSE doubled
            /\ e = ASK => user[s] = u /\ user' = user /\ status' = status /\ doubled' = doubled
<1> USE DEF TypeOK, ASK
<1>1. ASSUME NEW u \in Users, Login(s, u)
      PROVE  /\ Says(s, "LOGIN", u)
             /\ \A t \in Sockets \ {s} : user'[t] = user[t] /\ status'[t] = status[t]
             /\ user[s] = Nobody /\ user'[s] = u /\ status'[s] = "none"
             /\ doubled' = IF LogoutUnderWay(s, u) THEN doubled \cup {u} ELSE doubled
  BY <1>1 DEF Login
<1>2. ASSUME Logout(s)
      PROVE  /\ user[s] \in Users /\ Says(s, "LOGOUT", user[s])
             /\ \A t \in Sockets \ {s} : user'[t] = user[t] /\ status'[t] = status[t]
             /\ user'[s] = Nobody /\ status'[s] = "none"
             /\ doubled' = IF Elsewhere(s, user[s]) THEN doubled \cup {user[s]} ELSE doubled
  BY <1>2 DEF Logout
<1>3. ASSUME Ask(s)
      PROVE  /\ user[s] \in Users /\ Says(s, ASK, user[s])
             /\ user' = user /\ status' = status /\ doubled' = doubled
  BY <1>3 DEF Ask
<1>4. CASE \E u \in Users : Login(s, u)
  BY <1>1, <1>4
<1>5. CASE Logout(s)
  BY <1>2, <1>5
<1>6. CASE Ask(s)
  BY <1>3, <1>6
<1> QED
  BY <1>4, <1>5, <1>6 DEF Sending

LEMMA SendKeepsSessions ==
  ASSUME TypeOK, SocketInv, NEW s \in Sockets, Sending(s)
  PROVE  Sessions(s)'
<1>0. PICK e \in {"LOGIN", "LOGOUT", ASK}, u \in Users :
            /\ Says(s, e, u)
            /\ e = "LOGIN" => user[s] = Nobody /\ user'[s] = u
            /\ e = "LOGOUT" => user[s] = u /\ user'[s] = Nobody
            /\ e = ASK => user[s] = u /\ user' = user
  BY SendFacts
<1> DEFINE n == Len(wire[s])
<1>1. /\ s \in open /\ n \in Nat /\ Len(wire'[s]) = n + 1
      /\ wire'[s][n + 1] = [event |-> e, user |-> u]
      /\ \A i \in 1..n : wire'[s][i] = wire[s][i] /\ wire[s][i] \in Messages
  BY <1>0, SayFacts DEF Places
<1>2. Sessions(s) /\ u # Nobody /\ \A i \in 1..n : wire[s][i].user # Nobody
  BY <1>1, PresenceAssumption DEF SocketInv, Socket, Messages
<1>3. \A d, v : \A S \in SUBSET (1..n) : SaidAt(s, d, v, S) => SaidAt(s, d, v, S)'
  BY <1>1 DEF SaidAt
<1> SUFFICES ASSUME NEW i \in 1..(n + 1) PROVE EndedOrOn(s, i)' /\ NewLogin(s, i)'
  BY <1>1 DEF Sessions, Places
<1>4. CASE i = n + 1
  <2>1. EndedOrOn(s, i)'
    BY <1>0, <1>1, <1>4 DEF EndedOrOn
  <2>2. NewLogin(s, i)'
    BY <1>0, <1>1, <1>2, <1>4 DEF NewLogin, Later, ASK
  <2> QED
    BY <2>1, <2>2
<1>5. CASE i \in 1..n
  <2> DEFINE v == wire[s][i].user
  <2>0. /\ wire'[s][i] = wire[s][i] /\ EndedOrOn(s, i) /\ NewLogin(s, i)
        /\ n + 1 \in Later(s, i)' /\ Later(s, i) \subseteq Later(s, i)' /\ Later(s, i) \in SUBSET (1..n)
        /\ Later(s, i)' = Later(s, i) \cup {n + 1}
    BY <1>1, <1>2, <1>5 DEF Sessions, Places, Later
  <2>m. \A d, x : \A S, T : S \subseteq T /\ SaidAt(s, d, x, S)' => SaidAt(s, d, x, T)'
    BY DEF SaidAt
  <2>1. EndedOrOn(s, i)'
    <3> SUFFICES ASSUME wire[s][i].event # "LOGOUT"
                 PROVE  user'[s] = v \/ SaidAt(s, "LOGOUT", v, Later(s, i))'
      BY <2>0 DEF EndedOrOn
    <3>1. CASE SaidAt(s, "LOGOUT", v, Later(s, i))
      BY <1>3, <2>0, <2>m, <3>1
    <3>2. CASE user[s] = v
      <4>1. CASE e = "LOGOUT"
        BY <1>0, <1>1, <2>0, <3>2, <4>1 DEF SaidAt
      <4> QED
        BY <1>0, <1>2, <3>2, <4>1, <1>5
    <3> QED
      BY <2>0, <3>1, <3>2 DEF EndedOrOn
  <2>2. ASSUME wire[s][i].event = "LOGOUT", user'[s] = v
        PROVE  SaidAt(s, "LOGIN", v, Later(s, i))'
    <3>1. CASE e = "LOGIN"
      BY <1>0, <1>1, <2>0, <2>2, <3>1 DEF SaidAt
    <3>2. CASE e # "LOGIN"
      <4>1. SaidAt(s, "LOGIN", v, Later(s, i))
        BY <1>0, <1>2, <1>5, <2>0, <2>2, <3>2 DEF NewLogin
      <4> QED
        BY <1>3, <2>0, <2>m, <4>1
    <3> QED
      BY <3>1, <3>2
  <2>3. ASSUME wire[s][i].event = "LOGOUT", NEW k \in Later(s, i)',
               wire'[s][k] = [event |-> ASK, user |-> v]
        PROVE  SaidAt(s, "LOGIN", v, Between(i, k))'
    <3>1. CASE k = n + 1
      <4>1. user[s] = v
        BY <1>0, <1>1, <2>3, <3>1 DEF ASK
      <4>2. SaidAt(s, "LOGIN", v, Later(s, i)) /\ Later(s, i) = Between(i, k)
        BY <1>1, <1>5, <2>0, <2>3, <3>1, <4>1 DEF NewLogin, Later, Between
      <4> QED
        BY <1>3, <2>0, <4>2 DEF Between
    <3>2. CASE k \in Later(s, i)
      <4>1. k \in 1..n /\ wire[s][k] = [event |-> ASK, user |-> v]
        BY <1>1, <2>0, <2>3, <3>2
      <4>2. SaidAt(s, "LOGIN", v, Between(i, k)) /\ Between(i, k) \in SUBSET (1..n)
        BY <1>1, <1>5, <2>0, <2>3, <3>2, <4>1 DEF NewLogin, Between
      <4> QED
        BY <1>3, <2>0, <4>2 DEF Between
    <3> QED
      BY <2>0, <2>3, <3>1, <3>2
  <2> QED
    BY <2>0, <2>1, <2>2, <2>3 DEF NewLogin, Between
<1> QED
  BY <1>1, <1>4, <1>5
LEMMA SendStep ==
  ASSUME TypeOK, SocketInv, Explained, NEW s \in Sockets, Sending(s)
  PROVE  SocketInv' /\ Explained'
<1>0. PICK e \in {"LOGIN", "LOGOUT", ASK}, u \in Users :
            /\ Says(s, e, u)
            /\ \A t \in Sockets \ {s} : user'[t] = user[t] /\ status'[t] = status[t]
            /\ e = "LOGIN" => /\ user[s] = Nobody /\ user'[s] = u /\ status'[s] = "none"
                              /\ doubled' = IF LogoutUnderWay(s, u) THEN doubled \cup {u} ELSE doubled
            /\ e = "LOGOUT" => /\ user[s] = u /\ user'[s] = Nobody /\ status'[s] = "none"
                               /\ doubled' = IF Elsewhere(s, u) THEN doubled \cup {u} ELSE doubled
            /\ e = ASK => user[s] = u /\ user' = user /\ status' = status /\ doubled' = doubled
  BY SendFacts
<1> DEFINE n == Len(wire[s])
<1>1. /\ s \in open /\ UNCHANGED <<open, online, left, faults>> /\ sent'[s] # 0
      /\ \A t \in Sockets \ {s} : sent'[t] = sent[t] /\ wire'[t] = wire[t]
      /\ n \in Nat /\ Len(wire'[s]) = n + 1
      /\ wire'[s][n + 1] = [event |-> e, user |-> u]
      /\ \A i \in 1..n : wire'[s][i] = wire[s][i] /\ wire[s][i] \in Messages
  BY <1>0, SayFacts DEF Places
<1>2. u # Nobody /\ doubled \subseteq doubled'
  BY <1>0, PresenceAssumption DEF ASK
<1>3. /\ Places(s) = 1..n /\ Places(s)' = 1..(n + 1)
      /\ \A t \in Sockets \ {s} : Places(t)' = Places(t)
  BY <1>1 DEF Places
<1>4. ASSUME NEW t \in Sockets, NEW d, NEW v
      PROVE  Said(t, d, v)' <=> Said(t, d, v) \/ (t = s /\ d = e /\ v = u)
  <2>1. CASE t # s
    BY <1>1, <1>3, <2>1 DEF Said, SaidAt
  <2>2. CASE t = s
    <3>1. Said(t, d, v)' <=> \E i \in 1..(n + 1) : wire'[s][i] = [event |-> d, user |-> v]
      BY <1>3, <2>2 DEF Said, SaidAt
    <3>2. Said(t, d, v) <=> \E i \in 1..n : wire'[s][i] = [event |-> d, user |-> v]
      BY <1>1, <1>3, <2>2 DEF Said, SaidAt
    <3>3. wire'[s][n + 1] = [event |-> d, user |-> v] <=> d = e /\ v = u
      BY <1>1
    <3> QED
      BY <1>1, <2>2, <3>1, <3>2, <3>3
  <2> QED
    BY <2>1, <2>2
<1>5. ASSUME NEW t \in Sockets PROVE Socket(t)'
  <2>1. CASE t = s
    <3>1. Sessions(s)'
      BY SendKeepsSessions
    <3> QED
      BY <1>1, <2>1, <3>1 DEF Socket
  <2>2. CASE t # s
    <3>1. Socket(t)
      BY DEF SocketInv
    <3>2. Sessions(t) => Sessions(t)'
      <4>1. user'[t] = user[t] /\ wire'[t] = wire[t] /\ Places(t)' = Places(t)
        BY <1>0, <1>1, <1>3, <2>2
      <4>2. \A i \in Places(t) : EndedOrOn(t, i) => EndedOrOn(t, i)'
        BY <4>1 DEF EndedOrOn, SaidAt, Later
      <4>3. \A i \in Places(t) : NewLogin(t, i) => NewLogin(t, i)'
        BY <4>1 DEF NewLogin, SaidAt, Later, Between
      <4> QED
        BY <4>1, <4>2, <4>3 DEF Sessions
    <3>3. Silent(t) => Silent(t)'
      BY <1>0, <1>1, <1>3, <2>2 DEF Silent
    <3> QED
      BY <1>1, <2>2, <3>1, <3>2, <3>3 DEF Socket
  <2> QED
    BY <2>1, <2>2
<1>6. ASSUME NEW r \in Sockets, NEW t \in Sockets, NEW v \in Users, r # t,
             Said(t, "LOGOUT", v)', user'[r] = v \/ Said(r, "LOGOUT", v)'
      PROVE  v \in doubled'
  <2>0. v # Nobody
    BY PresenceAssumption
  <2>1. CASE Said(t, "LOGOUT", v) /\ (user[r] = v \/ Said(r, "LOGOUT", v))
    BY <1>2, <1>6, <2>1 DEF SocketInv, Doubling
  <2>2. CASE e = "LOGIN" /\ r = s /\ v = u
    <3>1. Said(t, "LOGOUT", u) /\ t \in Sockets \ {s}
      BY <1>4, <1>6, <2>2
    <3>2. [event |-> "LOGOUT", user |-> u] \in Range(wire[t])
      BY <3>1, InRange DEF Said, SaidAt, Places, TypeOK
    <3>3. LogoutUnderWay(s, u)
      BY <3>1, <3>2 DEF LogoutUnderWay
    <3> QED
      BY <1>0, <2>2, <3>3
  <2>3. CASE e = "LOGOUT" /\ t = s /\ v = u
    <3>1. CASE Said(r, "LOGOUT", u)
      BY <1>0, <1>2, <1>6, <2>3, <3>1 DEF SocketInv, Doubling
    <3>2. CASE user[r] = u
      <4>1. r \in open \ {s}
        BY <1>2, <1>6, <2>3, <3>2 DEF SocketInv, Socket, Silent
      <4> QED
        BY <1>0, <2>3, <3>2, <4>1 DEF Elsewhere
    <3> QED
      BY <1>0, <1>4, <1>6, <2>3, <3>1, <3>2
  <2>4. CASE e = "LOGOUT" /\ r = s /\ v = u
    <3>1. Said(t, "LOGOUT", u) /\ user[s] = u
      BY <1>0, <1>4, <1>6, <2>4
    <3> QED
      BY <1>2, <1>6, <2>4, <3>1 DEF SocketInv, Doubling
  <2> QED
    BY <1>0, <1>4, <1>6, <2>0, <2>1, <2>2, <2>3, <2>4 DEF ASK
<1>7. SocketInv'
  BY <1>5, <1>6 DEF SocketInv, Doubling
<1> SUFFICES ASSUME faults = 0 PROVE Explained'
  BY <1>1, <1>7 DEF Explained
<1>8. ASSUME NEW v \in Users PROVE Shown(v)'
  <2>1. HasSocket(v) => HasSocket(v)' \/ Said(s, "LOGOUT", v)'
    <3> SUFFICES ASSUME NEW t \in open, user[t] = v PROVE HasSocket(v)' \/ Said(s, "LOGOUT", v)'
      BY DEF HasSocket
    <3>0. t \in Sockets /\ v # Nobody
      BY PresenceAssumption DEF TypeOK
    <3>1. CASE user'[t] = v
      BY <1>1, <3>1 DEF HasSocket
    <3>2. CASE t = s /\ e = "LOGOUT"
      BY <1>0, <1>4, <3>2
    <3> QED
      BY <1>0, <3>0, <3>1, <3>2
  <2>2. Shown(v)
    BY DEF Explained
  <2>3. (\E t \in Sockets : Said(t, "LOGOUT", v)) => \E t \in Sockets : Said(t, "LOGOUT", v)'
    BY <1>4
  <2> QED
    BY <1>1, <2>1, <2>2, <2>3 DEF Shown
<1>9. ASSUME NEW t \in Sockets PROVE Told(t)'
  BY <1>0, <1>2 DEF Explained, Told, ASK
<1>10. ASSUME NEW t \in open PROVE LoginShows(t)'
  <2>0. LoginShows(t) /\ t \in Sockets
    BY DEF Explained, TypeOK
  <2>v. \A x : Visible(x) => Visible(x)'
    BY <1>1, <1>2 DEF Visible
  <2>1. CASE user'[t] = user[t]
    BY <1>4, <2>0, <2>1, <2>v DEF LoginShows
  <2>2. CASE user'[t] # user[t]
    <3>1. t = s /\ (user'[s] = Nobody \/ (e = "LOGIN" /\ user'[s] = u))
      BY <1>0, <2>0, <2>2
    <3> QED
      BY <1>4, <2>0, <3>1 DEF LoginShows
  <2> QED
    BY <2>1, <2>2
<1>11. ASSUME NEW t \in open, NEW i \in Places(t)' PROVE AskSees(t, i)'
  <2>0. LoginShows(t) /\ t \in Sockets /\ \A j \in Places(t) : AskSees(t, j)
    BY DEF Explained, TypeOK
  <2>v. \A x : Visible(x) => Visible(x)'
    BY <1>1, <1>2 DEF Visible
  <2>1. CASE t # s
    <3>1. i \in Places(t) /\ wire'[t] = wire[t] /\ AskSees(t, i)
      BY <1>1, <1>3, <2>0, <2>1
    <3> QED
      BY <2>v, <3>1 DEF AskSees, SaidAt
  <2>2. CASE t = s /\ i \in 1..n
    <3>1. wire'[s][i] = wire[s][i] /\ \A j \in 1..(i - 1) : wire'[s][j] = wire[s][j]
      BY <1>1, <2>2
    <3>2. AskSees(s, i)
      BY <1>3, <2>0, <2>2
    <3> QED
      BY <2>2, <2>v, <3>1, <3>2 DEF AskSees, SaidAt
  <2>3. CASE t = s /\ i = n + 1
    <3> SUFFICES ASSUME e = ASK PROVE AskSees(s, i)'
      BY <1>1, <2>3 DEF AskSees
    <3>1. user[s] = u /\ i - 1 = n /\ wire'[s][i].user = u
      BY <1>0, <1>1, <2>3
    <3>2. SaidAt(s, "LOGIN", u, 1..n) \/ Visible(u)
      BY <1>2, <1>3, <2>0, <2>3, <3>1 DEF LoginShows, Said
    <3>3. SaidAt(s, "LOGIN", u, 1..n) => \E j \in 1..n : wire'[s][j] = [event |-> "LOGIN", user |-> u]
      BY <1>1 DEF SaidAt
    <3> QED
      BY <2>v, <3>1, <3>2, <3>3 DEF AskSees, SaidAt
  <2> QED
    BY <1>1, <1>3, <2>1, <2>2, <2>3
<1> QED
  BY <1>1, <1>8, <1>9, <1>10, <1>11 DEF Explained
-----------------------------------------------------------------------------
(* Redis sees a message, or refuses it.                                    *)
LEMMA TakeFacts ==
  ASSUME TypeOK, NEW s \in Sockets, wire[s] # <<>>, Done(s)
  PROVE  /\ UNCHANGED <<open, user, sent, left, doubled>>
         /\ \A t \in Sockets \ {s} : wire'[t] = wire[t]
         /\ Len(wire[s]) \in Nat \ {0} /\ Len(wire'[s]) = Len(wire[s]) - 1
         /\ wire[s][1] = Message(s) /\ Message(s).user \in Users
         /\ \E e \in {"LOGIN", "LOGOUT", ASK} :
               Message(s) = [event |-> e, user |-> Message(s).user]
         /\ \A i \in 1..(Len(wire[s]) - 1) : wire'[s][i] = wire[s][i + 1]
<1>1. wire[s] \in Seq(Messages) /\ wire' = [wire EXCEPT ![s] = Tail(wire[s])]
  BY DEF TypeOK, Done
<1>2. wire'[s] = Tail(wire[s]) /\ \A t \in Sockets \ {s} : wire'[t] = wire[t]
  BY <1>1 DEF TypeOK
<1>3. Message(s) \in Messages
  BY <1>1, Taken DEF Message
<1>4. Message(s).user \in Users /\ \E e \in {"LOGIN", "LOGOUT", ASK} :
          Message(s) = [event |-> e, user |-> Message(s).user]
  BY <1>3 DEF Messages, ASK
<1>5. /\ Len(wire[s]) \in Nat \ {0} /\ Len(Tail(wire[s])) = Len(wire[s]) - 1
      /\ wire[s][1] = Head(wire[s])
      /\ \A i \in 1..Len(Tail(wire[s])) : Tail(wire[s])[i] = wire[s][i + 1]
  BY <1>1, Taken
<1> QED
  BY <1>2, <1>4, <1>5 DEF Done, clients, Message

LEMMA TakeKeepsSessions ==
  ASSUME TypeOK, NEW s \in Sockets, wire[s] # <<>>, Done(s), Sessions(s)
  PROVE  Sessions(s)'
<1> DEFINE n == Len(wire[s])
<1>1. /\ user'[s] = user[s] /\ n \in Nat \ {0} /\ Len(wire'[s]) = n - 1
      /\ \A i \in 1..(n - 1) : wire'[s][i] = wire[s][i + 1]
  BY TakeFacts
<1> SUFFICES ASSUME NEW i \in 1..(n - 1) PROVE EndedOrOn(s, i)' /\ NewLogin(s, i)'
  BY <1>1 DEF Sessions, Places
<1> DEFINE v == wire[s][i + 1].user
<1>2. /\ i + 1 \in 1..n /\ wire'[s][i] = wire[s][i + 1]
      /\ EndedOrOn(s, i + 1) /\ NewLogin(s, i + 1)
  BY <1>1 DEF Sessions, Places
<1>3. ASSUME NEW d, NEW hi \in 1..n, NEW j \in (i + 2)..hi, wire[s][j] = [event |-> d, user |-> v]
      PROVE  \E k \in (i + 1)..(hi - 1) : wire'[s][k] = [event |-> d, user |-> v]
  <2>1. j - 1 \in (i + 1)..(hi - 1) /\ j - 1 \in 1..(n - 1) /\ (j - 1) + 1 = j
    BY <1>1, <1>3
  <2> QED
    BY <1>1, <1>3, <2>1
<1>4. ASSUME NEW d, SaidAt(s, d, v, Later(s, i + 1))
      PROVE  \E k \in (i + 1)..(n - 1) : wire'[s][k] = [event |-> d, user |-> v]
  BY <1>1, <1>3, <1>4 DEF SaidAt, Later
<1>5. EndedOrOn(s, i)'
  BY <1>1, <1>2, <1>4 DEF EndedOrOn, SaidAt, Later
<1>6. ASSUME wire[s][i + 1].event = "LOGOUT", NEW k \in (i + 1)..(n - 1),
             wire'[s][k] = [event |-> ASK, user |-> v]
      PROVE  \E j \in (i + 1)..(k - 1) : wire'[s][j] = [event |-> "LOGIN", user |-> v]
  <2>1. k + 1 \in Later(s, i + 1) /\ wire[s][k + 1] = [event |-> ASK, user |-> v]
    BY <1>1, <1>6 DEF Later
  <2>2. SaidAt(s, "LOGIN", v, Between(i + 1, k + 1))
    BY <1>2, <1>6, <2>1 DEF NewLogin
  <2>3. PICK j \in (i + 2)..k : wire[s][j] = [event |-> "LOGIN", user |-> v]
    BY <2>2 DEF SaidAt, Between
  <2> QED
    <3>1. k \in 1..n /\ j \in (i + 2)..k
      BY <1>1, <1>6
    <3> QED
      BY <1>3, <2>3, <3>1
<1>7. NewLogin(s, i)'
  BY <1>1, <1>2, <1>4, <1>6 DEF NewLogin, SaidAt, Later, Between
<1> QED
  BY <1>5, <1>7

(* What is still said after it.                                            *)
LEMMA TakeSaid ==
  ASSUME TypeOK, NEW s \in Sockets, wire[s] # <<>>, Done(s),
         NEW t \in Sockets, NEW d, NEW v
  PROVE  Said(t, d, v) <=> Said(t, d, v)' \/ (t = s /\ Message(s) = [event |-> d, user |-> v])
<1> DEFINE n == Len(wire[s])
<1>1. /\ \A r \in Sockets \ {s} : wire'[r] = wire[r]
      /\ n \in Nat \ {0} /\ Len(wire'[s]) = n - 1 /\ wire[s][1] = Message(s)
      /\ \A i \in 1..(n - 1) : wire'[s][i] = wire[s][i + 1]
  BY TakeFacts
<1>2. CASE t # s
  BY <1>1, <1>2 DEF Said, SaidAt, Places
<1>3. CASE t = s
  <2>1. Said(s, d, v)' <=> \E i \in 1..(n - 1) : wire[s][i + 1] = [event |-> d, user |-> v]
    BY <1>1 DEF Said, SaidAt, Places
  <2>2. ASSUME NEW i \in 1..n PROVE i = 1 \/ (i - 1 \in 1..(n - 1) /\ i = (i - 1) + 1)
    BY <1>1
  <2>3. Said(s, d, v) <=> \E i \in 1..n : wire[s][i] = [event |-> d, user |-> v]
    BY DEF Said, SaidAt, Places
  <2>4. 1 \in 1..n /\ \A i \in 1..(n - 1) : i + 1 \in 1..n
    BY <1>1
  <2>5. Said(s, d, v) => Said(s, d, v)' \/ Message(s) = [event |-> d, user |-> v]
    BY <1>1, <2>1, <2>2, <2>3
  <2>6. Said(s, d, v)' \/ Message(s) = [event |-> d, user |-> v] => Said(s, d, v)
    BY <1>1, <2>1, <2>3, <2>4
  <2> QED
    BY <1>3, <2>5, <2>6
<1> QED
  BY <1>2, <1>3

LEMMA TakeKeepsSockets ==
  ASSUME TypeOK, SocketInv, NEW s \in Sockets, wire[s] # <<>>, Done(s),
         \A t \in Sockets : status'[t] = status[t] \/ user[t] # Nobody
  PROVE  SocketInv'
<1> DEFINE n == Len(wire[s])
<1>1. /\ UNCHANGED <<open, user, sent, left, doubled>>
      /\ \A t \in Sockets \ {s} : wire'[t] = wire[t]
      /\ n \in Nat \ {0} /\ Len(wire'[s]) = n - 1
      /\ \A i \in 1..(n - 1) : wire'[s][i] = wire[s][i + 1]
  BY TakeFacts
<1>2. ASSUME NEW t \in Sockets \ {s} PROVE Socket(t)'
  <2>1. /\ user'[t] = user[t] /\ wire'[t] = wire[t] /\ Places(t)' = Places(t)
        /\ sent'[t] = sent[t] /\ Socket(t)
    BY <1>1 DEF Places, SocketInv
  <2>2. \A i \in Places(t) : EndedOrOn(t, i) => EndedOrOn(t, i)'
    BY <2>1 DEF EndedOrOn, SaidAt, Later
  <2>3. \A i \in Places(t) : NewLogin(t, i) => NewLogin(t, i)'
    BY <2>1 DEF NewLogin, SaidAt, Later, Between
  <2>4. Sessions(t) => Sessions(t)'
    BY <2>1, <2>2, <2>3 DEF Sessions
  <2>5. Silent(t) => Silent(t)'
    BY <1>1, <2>1 DEF Silent
  <2> QED
    BY <1>1, <2>1, <2>4, <2>5 DEF Socket
<1>3. Socket(s)'
  <2>1. Socket(s) /\ sent[s] # 0
    BY DEF SocketInv, Socket
  <2>2. s \in open => Sessions(s)'
    BY <2>1, TakeKeepsSessions DEF Socket
  <2>3. ASSUME s \notin open PROVE Silent(s)'
    <3>1. Silent(s)
      BY <2>1, <2>3 DEF Socket
    <3>2. \A i \in 1..(n - 1) : i + 1 \in 1..n
      BY <1>1
    <3>3. \A i \in 1..(n - 1) : wire'[s][i].user \in left
      BY <1>1, <3>1, <3>2 DEF Silent, Places
    <3> QED
      BY <1>1, <3>1, <3>3 DEF Silent, Places
  <2> QED
    BY <1>1, <2>1, <2>2, <2>3 DEF Socket
<1>4. Doubling'
  BY <1>1, TakeSaid DEF SocketInv, Doubling
<1> QED
  BY <1>2, <1>3, <1>4 DEF SocketInv
(* What a message Redis has obeyed leaves true of a user who is shown.     *)
LEMMA TakeStep ==
  ASSUME TypeOK, SocketInv, Explained, NEW s \in Sockets, Handle(s) \/ CommandFails(s)
  PROVE  SocketInv' /\ Explained'
<1>0. wire[s] # <<>> /\ Done(s)
  BY DEF Handle, SaveUserLogin, RemoveUserLogout, GetUserOnlineStatus, CommandFails
<1> DEFINE n == Len(wire[s])
           v == Message(s).user
<1>1. /\ UNCHANGED <<open, user, sent, left, doubled>>
      /\ \A t \in Sockets \ {s} : wire'[t] = wire[t]
      /\ n \in Nat \ {0} /\ Len(wire'[s]) = n - 1
      /\ wire[s][1] = Message(s) /\ v \in Users
      /\ \E e \in {"LOGIN", "LOGOUT", ASK} : Message(s) = [event |-> e, user |-> v]
      /\ \A i \in 1..(n - 1) : wire'[s][i] = wire[s][i + 1]
  BY <1>0, TakeFacts
<1>2. ASSUME NEW t \in Sockets, NEW d, NEW u
      PROVE  Said(t, d, u) <=> Said(t, d, u)' \/ (t = s /\ Message(s) = [event |-> d, user |-> u])
  BY <1>0, TakeSaid
<1>3. v # Nobody /\ 1 \in Places(s)
  BY <1>1, PresenceAssumption DEF Places
<1>4. SocketInv'
  <2>1. \A t \in Sockets : status'[t] = status[t] \/ user[t] # Nobody
    BY <1>3 DEF Handle, SaveUserLogin, RemoveUserLogout, GetUserOnlineStatus, CommandFails, TypeOK
  <2> QED
    BY <1>0, <2>1, TakeKeepsSockets
<1> SUFFICES ASSUME faults' = 0 PROVE Explained'
  BY <1>4 DEF Explained
<1>5. Handle(s) /\ faults = 0
  BY DEF CommandFails, Fault, Handle, SaveUserLogin, RemoveUserLogout, GetUserOnlineStatus, TypeOK
<1>6. /\ \A u \in Users : Shown(u)
      /\ \A t \in Sockets : Told(t)
      /\ \A t \in open : LoginShows(t) /\ \A i \in Places(t) : AskSees(t, i)
  BY <1>5 DEF Explained
<1>7. /\ Message(s) = [event |-> "LOGIN", user |-> v] => online' = online \cup {v} /\ status' = status
      /\ Message(s) = [event |-> "LOGOUT", user |-> v] => online' = online \ {v} /\ status' = status
      /\ Message(s) = [event |-> ASK, user |-> v] =>
            /\ online' = online
            /\ status' = status \/ (/\ user[s] = v
                                    /\ status' = [status EXCEPT ![s] = IF v \in online THEN "true" ELSE "false"])
  BY <1>5 DEF Handle, SaveUserLogin, RemoveUserLogout, GetUserOnlineStatus, ASK
<1>8. ASSUME NEW u \in Users, Visible(u) PROVE u \in online' \cup doubled' \/ (Message(s) = [event |-> "LOGOUT", user |-> v] /\ u = v)
  BY <1>1, <1>7, <1>8 DEF Visible
<1>9. ASSUME NEW u \in Users PROVE Shown(u)'
  <2> SUFFICES ASSUME u \in online' PROVE Shown(u)'
    BY DEF Shown
  <2>1. HasSocket(u) => HasSocket(u)'
    BY <1>1 DEF HasSocket
  <2>2. CASE u \in online
    <3>1. CASE HasSocket(u) \/ u \in left
      BY <1>1, <2>1, <3>1 DEF Shown
    <3>2. CASE \E t \in Sockets : Said(t, "LOGOUT", u)
      <4>1. PICK t \in Sockets : Said(t, "LOGOUT", u)
        BY <3>2
      <4>2. Message(s) # [event |-> "LOGOUT", user |-> u]
        BY <1>7
      <4>3. Said(t, "LOGOUT", u)'
        BY <1>2, <4>1, <4>2
      <4> QED
        BY <4>3 DEF Shown
    <3> QED
      BY <1>6, <2>2, <3>1, <3>2 DEF Shown
  <2>3. CASE u \notin online
    <3>1. Message(s) = [event |-> "LOGIN", user |-> v] /\ u = v
      BY <1>1, <1>7, <2>3
    <3>2. wire[s][1].event = "LOGIN" /\ wire[s][1].user = u
      BY <1>1, <3>1
    <3>3. CASE s \notin open
      BY <1>1, <1>3, <3>2, <3>3 DEF SocketInv, Socket, Silent, Shown
    <3>4. CASE s \in open
      <4>1. EndedOrOn(s, 1)
        BY <1>3, <3>4 DEF SocketInv, Socket, Sessions
      <4>2. CASE user[s] = u
        BY <1>1, <3>4, <4>2 DEF HasSocket, Shown
      <4>3. CASE SaidAt(s, "LOGOUT", u, Later(s, 1))
        <5>1. Said(s, "LOGOUT", u)
          BY <1>1, <4>3 DEF Said, SaidAt, Later, Places
        <5>2. Said(s, "LOGOUT", u)'
          BY <1>2, <3>1, <5>1
        <5> QED
          BY <5>2 DEF Shown
      <4> QED
        BY <3>2, <4>1, <4>2, <4>3 DEF EndedOrOn
    <3> QED
      BY <3>3, <3>4
  <2> QED
    BY <2>2, <2>3
<1>10. ASSUME NEW t \in Sockets PROVE Told(t)'
  <2>1. CASE status'[t] = status[t]
    BY <1>1, <1>6, <2>1 DEF Told
  <2>2. CASE status'[t] # status[t]
    <3>1. /\ t = s /\ user[s] = v /\ Message(s) = [event |-> ASK, user |-> v]
          /\ status'[s] = IF v \in online THEN "true" ELSE "false"
      BY <1>1, <1>7, <2>2 DEF TypeOK
    <3>2. s \in open
      BY <1>3, <3>1 DEF SocketInv, Socket, Silent
    <3>3. AskSees(s, 1) /\ wire[s][1].event = ASK /\ wire[s][1].user = v
      BY <1>1, <1>3, <1>6, <3>1, <3>2
    <3>4. Visible(v)
      BY <3>3 DEF AskSees, SaidAt
    <3> QED
      BY <1>1, <3>1, <3>4 DEF Told, Visible
  <2> QED
    BY <2>1, <2>2
<1>11. ASSUME NEW t \in open PROVE LoginShows(t)'
  <2> SUFFICES ASSUME user[t] # Nobody PROVE Said(t, "LOGIN", user[t])' \/ Visible(user[t])'
    BY <1>1 DEF LoginShows, Visible
  <2>0. t \in Sockets /\ user[t] \in Users
    BY DEF TypeOK
  <2>1. CASE Said(t, "LOGIN", user[t])
    <3>1. CASE Message(s) = [event |-> "LOGIN", user |-> user[t]] /\ t = s
      <4>1. v = user[t] /\ user[t] \in online'
        BY <1>7, <3>1
      <4> QED
        BY <4>1, <1>1 DEF Visible
    <3> QED
      BY <1>1, <1>2, <2>0, <2>1, <3>1
  <2>2. CASE Visible(user[t])
    <3>1. CASE Message(s) = [event |-> "LOGOUT", user |-> v] /\ user[t] = v
      <4>1. wire[s][1].event = "LOGOUT" /\ wire[s][1].user = v /\ Said(s, "LOGOUT", v)
        BY <1>1, <1>3, <3>1 DEF Said, SaidAt
      <4>2. CASE t = s
        <5>1. NewLogin(s, 1)
          BY <1>3, <4>2 DEF SocketInv, Socket, Sessions
        <5>2. SaidAt(s, "LOGIN", v, Later(s, 1))
          BY <3>1, <4>1, <4>2, <5>1 DEF NewLogin
        <5>3. Said(s, "LOGIN", v)
          BY <1>1, <5>2 DEF Said, SaidAt, Later, Places
        <5> QED
          BY <1>1, <1>2, <3>1, <4>2, <5>3
      <4>3. CASE t # s
        BY <1>1, <2>0, <3>1, <4>1, <4>3 DEF SocketInv, Doubling, Visible
      <4> QED
        BY <4>2, <4>3
    <3> QED
      BY <1>1, <1>8, <2>0, <2>2, <3>1 DEF Visible
  <2> QED
    BY <1>6, <2>1, <2>2 DEF LoginShows
<1>12. ASSUME NEW t \in open, NEW i \in Places(t)' PROVE AskSees(t, i)'
  <2>0. t \in Sockets
    BY DEF TypeOK
  <2>1. CASE t # s
    <3>0. wire'[t] = wire[t] /\ i \in Places(t) /\ wire[t] \in Seq(Messages)
      BY <1>1, <2>0, <2>1 DEF Places, TypeOK
    <3> DEFINE u == wire[t][i].user
    <3> SUFFICES ASSUME wire[t][i].event = ASK
                 PROVE  SaidAt(t, "LOGIN", u, 1..(i - 1)) \/ u \in online' \cup doubled'
      BY <3>0 DEF AskSees, SaidAt, Visible
    <3>1. u \in Users
      <4>1. wire[t][i] \in Messages
        BY <3>0 DEF Places
      <4> QED
        BY <4>1 DEF Messages
    <3>2. SaidAt(t, "LOGIN", u, 1..(i - 1)) \/ Visible(u)
      BY <1>6, <3>0 DEF AskSees
    <3>3. CASE Message(s) = [event |-> "LOGOUT", user |-> v] /\ u = v
      <4>1. Said(s, "LOGOUT", u)
        BY <1>1, <1>3, <3>3 DEF Said, SaidAt
      <4>2. EndedOrOn(t, i)
        BY <2>0, <3>0 DEF SocketInv, Socket, Sessions
      <4>3. user[t] = u \/ Said(t, "LOGOUT", u)
        BY <3>0, <4>2 DEF EndedOrOn, ASK, Said, SaidAt, Later, Places
      <4>4. u \in doubled
        BY <2>0, <2>1, <3>1, <4>1, <4>3 DEF SocketInv, Doubling
      <4> QED
        BY <1>1, <4>4 DEF Visible
    <3> QED
      BY <1>8, <3>1, <3>2, <3>3
  <2>2. CASE t = s
    <3>0. /\ i \in 1..(n - 1) /\ i + 1 \in 1..n /\ wire'[s][i] = wire[s][i + 1]
          /\ wire[s] \in Seq(Messages)
      BY <1>1, <2>2 DEF Places, TypeOK
    <3> DEFINE u == wire[s][i + 1].user
    <3> SUFFICES ASSUME wire[s][i + 1].event = ASK
                 PROVE  \/ \E j \in 1..(i - 1) : wire'[s][j] = [event |-> "LOGIN", user |-> u]
                        \/ u \in online' \cup doubled'
      BY <2>2, <3>0 DEF AskSees, SaidAt, Visible
    <3>1. u \in Users /\ wire[s][i + 1] = [event |-> ASK, user |-> u]
      <4>1. wire[s][i + 1] \in Messages
        BY <3>0
      <4> QED
        BY <4>1 DEF Messages
    <3>2. ASSUME NEW j \in 2..i, wire[s][j] = [event |-> "LOGIN", user |-> u]
          PROVE  \E k \in 1..(i - 1) : wire'[s][k] = [event |-> "LOGIN", user |-> u]
      <4>1. j - 1 \in 1..(i - 1) /\ j - 1 \in 1..(n - 1) /\ (j - 1) + 1 = j
        BY <3>0
      <4> QED
        BY <1>1, <3>2, <4>1
    <3>3. AskSees(s, i + 1)
      BY <1>6, <2>2, <3>0 DEF Places
    <3>4. CASE SaidAt(s, "LOGIN", u, 1..i)
      <4>1. PICK j \in 1..i : wire[s][j] = [event |-> "LOGIN", user |-> u]
        BY <3>4 DEF SaidAt
      <4>2. CASE j = 1
        <5>1. u = v /\ Message(s) = [event |-> "LOGIN", user |-> v]
          BY <1>1, <4>1, <4>2
        <5> QED
          BY <1>7, <5>1 DEF Visible
      <4> QED
        BY <3>2, <4>1, <4>2
    <3>5. CASE Visible(u)
      <4>1. CASE Message(s) = [event |-> "LOGOUT", user |-> v] /\ u = v
        <5>1. NewLogin(s, 1) /\ wire[s][1].event = "LOGOUT" /\ wire[s][1].user = u
          BY <1>1, <1>3, <2>2, <4>1 DEF SocketInv, Socket, Sessions
        <5>2. i + 1 \in Later(s, 1)
          BY <3>0 DEF Later
        <5>3. SaidAt(s, "LOGIN", u, Between(1, i + 1))
          BY <3>1, <5>1, <5>2 DEF NewLogin
        <5>4. PICK j \in 2..i : wire[s][j] = [event |-> "LOGIN", user |-> u]
          BY <3>0, <5>3 DEF SaidAt, Between
        <5> QED
          BY <3>2, <5>4
      <4> QED
        BY <1>8, <3>1, <3>5, <4>1
    <3>6. (i + 1) - 1 = i
      BY <3>0
    <3> QED
      BY <3>3, <3>4, <3>5, <3>6 DEF AskSees
  <2> QED
    BY <2>1, <2>2
<1> QED
  BY <1>1, <1>9, <1>10, <1>11, <1>12, <1>4 DEF Explained
-----------------------------------------------------------------------------
(* Sockets close; of what was on their wires something arrives.            *)
LEMMA CloseStep ==
  ASSUME TypeOK, TypeOK', SocketInv, Explained, NEW S \in SUBSET open, Gone(S),
         \A s \in open \ S : wire'[s] = wire[s],
         \A s \in Sockets : Range(wire'[s]) \subseteq Range(wire[s]),
         faults' = 0 => faults = 0
  PROVE  SocketInv' /\ Explained'
<1>1. /\ open' = open \ S /\ UNCHANGED <<sent, online, doubled>>
      /\ \A s \in Sockets : user'[s] = IF s \in S THEN Nobody ELSE user[s]
      /\ \A s \in Sockets : status'[s] = IF s \in S THEN "none" ELSE status[s]
      /\ left \subseteq left'
      /\ \A s \in S : \A m \in Range(wire[s]) : m.user \in left'
      /\ \A s \in S : user[s] # Nobody => user[s] \in left'
      /\ open \subseteq Sockets
  BY DEF Gone, TypeOK
<1>2. \A s \in Sockets : wire[s] \in Seq(Messages) /\ wire'[s] \in Seq(Messages)
  BY DEF TypeOK
<1>3. ASSUME NEW s \in Sockets, NEW i \in Places(s)'
      PROVE  \E j \in Places(s) : wire'[s][i] = wire[s][j]
  <2>1. wire'[s][i] \in Range(wire'[s])
    BY <1>2, <1>3, InRange DEF Places
  <2> QED
    BY <1>2, <1>3, <2>1, InRange DEF Places
<1>4. ASSUME NEW s \in Sockets, NEW d, NEW u, Said(s, d, u)' PROVE Said(s, d, u)
  BY <1>3, <1>4 DEF Said, SaidAt
<1>5. ASSUME NEW s \in Sockets PROVE Socket(s)'
  <2>0. Socket(s)
    BY DEF SocketInv
  <2>1. ASSUME sent[s] = 0 PROVE wire'[s] = <<>>
    <3>1. Places(s) = {}
      BY <2>0, <2>1 DEF Socket, Places
    <3>2. Places(s)' = {}
      BY <1>3, <3>1
    <3>3. Len(wire'[s]) \in Nat /\ 1 \notin 1..Len(wire'[s])
      BY <1>2, <3>2 DEF Places
    <3>4. Len(wire'[s]) = 0
      BY <3>3
    <3> QED
      BY <1>2, <3>4
  <2>2. ASSUME s \in open \ S PROVE Sessions(s)'
    <3>1. user'[s] = user[s] /\ wire'[s] = wire[s] /\ Places(s)' = Places(s) /\ Sessions(s)
      BY <1>1, <2>0, <2>2 DEF Places, Socket
    <3>2. \A i \in Places(s) : EndedOrOn(s, i) => EndedOrOn(s, i)'
      BY <3>1 DEF EndedOrOn, SaidAt, Later
    <3>3. \A i \in Places(s) : NewLogin(s, i) => NewLogin(s, i)'
      BY <3>1 DEF NewLogin, SaidAt, Later, Between
    <3> QED
      BY <3>1, <3>2, <3>3 DEF Sessions
  <2>3. ASSUME s \notin open \ S PROVE Silent(s)'
    <3>1. CASE s \in S
      <4>1. \A j \in Places(s) : wire[s][j].user \in left'
        BY <1>1, <1>2, <3>1, InRange DEF Places
      <4> QED
        BY <1>1, <1>3, <3>1, <4>1 DEF Silent
    <3>2. CASE s \notin open
      <4>1. Silent(s) /\ s \notin S
        BY <2>0, <3>2 DEF Socket
      <4>2. \A i \in Places(s)' : wire'[s][i].user \in left'
        BY <1>1, <1>3, <4>1 DEF Silent
      <4> QED
        BY <1>1, <4>1, <4>2 DEF Silent
    <3> QED
      BY <2>3, <3>1, <3>2
  <2> QED
    BY <1>1, <2>1, <2>2, <2>3 DEF Socket
<1>6. Doubling'
  <2> SUFFICES ASSUME NEW s \in Sockets, NEW t \in Sockets, NEW u \in Users, s # t,
                      Said(t, "LOGOUT", u)', user'[s] = u \/ Said(s, "LOGOUT", u)'
               PROVE  u \in doubled'
    BY DEF Doubling
  <2>1. Said(t, "LOGOUT", u) /\ (user[s] = u \/ Said(s, "LOGOUT", u))
    BY <1>1, <1>4, PresenceAssumption
  <2> QED
    BY <1>1, <2>1 DEF SocketInv, Doubling
<1>7. SocketInv'
  BY <1>5, <1>6 DEF SocketInv
<1> SUFFICES ASSUME faults' = 0 PROVE Explained'
  BY <1>7 DEF Explained
<1>8. ASSUME NEW u \in Users PROVE Shown(u)'
  <2> SUFFICES ASSUME u \in online PROVE Shown(u)'
    BY <1>1 DEF Shown
  <2>0. u # Nobody
    BY PresenceAssumption
  <2>1. CASE HasSocket(u)
    BY <1>1, <2>0, <2>1 DEF HasSocket, Shown
  <2>2. CASE u \in left
    BY <1>1, <2>2 DEF Shown
  <2>3. CASE \E s \in Sockets : Said(s, "LOGOUT", u)
    <3>1. PICK s \in Sockets : Said(s, "LOGOUT", u)
      BY <2>3
    <3>2. PICK i \in Places(s) : wire[s][i] = [event |-> "LOGOUT", user |-> u]
      BY <3>1 DEF Said, SaidAt
    <3>3. CASE s \in S
      <4>1. wire[s][i] \in Range(wire[s]) /\ wire[s][i].user = u
        BY <1>2, <3>2, InRange DEF Places
      <4> QED
        BY <1>1, <3>3, <4>1 DEF Shown
    <3>4. CASE s \in open \ S
      <4>1. Said(s, "LOGOUT", u)'
        BY <3>1, <3>4 DEF Said, SaidAt, Places
      <4> QED
        BY <4>1 DEF Shown
    <3>5. CASE s \notin open
      BY <1>1, <3>2, <3>5 DEF SocketInv, Socket, Silent, Shown
    <3> QED
      BY <3>3, <3>4, <3>5
  <2> QED
    BY <2>1, <2>2, <2>3 DEF Explained, Shown
<1>9. ASSUME NEW s \in Sockets PROVE Told(s)'
  BY <1>1 DEF Explained, Told
<1>10. ASSUME NEW s \in open \ S PROVE LoginShows(s)'
  BY <1>1 DEF Explained, LoginShows, Visible, Said, SaidAt, Places
<1>11. ASSUME NEW s \in open \ S, NEW i \in Places(s) PROVE AskSees(s, i)'
  BY <1>1 DEF Explained, AskSees, Visible, SaidAt, Places
<1>12. \A s \in open \ S : Places(s)' = Places(s)
  BY DEF Places
<1> QED
  BY <1>1, <1>7, <1>8, <1>9, <1>10, <1>11, <1>12 DEF Explained

LEMMA ConnectStep ==
  ASSUME TypeOK, SocketInv, Explained, NEW s \in Sockets, Connect(s)
  PROVE  SocketInv' /\ Explained'
<1>1. /\ open' = open \cup {s} /\ s \notin open /\ sent[s] = 0
      /\ UNCHANGED <<user, sent, wire, online, status, left, doubled, faults>>
  BY DEF Connect
<1>2. wire[s] = <<>> /\ user[s] = Nobody
  BY <1>1 DEF SocketInv, Socket, Silent
<1>3. Places(s) = {} /\ \A t : Places(t)' = Places(t)
  BY <1>1, <1>2 DEF Places
<1>4. ASSUME NEW t \in Sockets PROVE Socket(t)'
  <2>1. \A i \in Places(t) : EndedOrOn(t, i) => EndedOrOn(t, i)'
    BY <1>1 DEF EndedOrOn, SaidAt, Later
  <2>2. \A i \in Places(t) : NewLogin(t, i) => NewLogin(t, i)'
    BY <1>1 DEF NewLogin, SaidAt, Later, Between
  <2>3. Sessions(t) => Sessions(t)'
    BY <1>3, <2>1, <2>2 DEF Sessions
  <2>4. Silent(t) => Silent(t)'
    BY <1>1, <1>3 DEF Silent
  <2>5. t = s => Sessions(t)'
    BY <1>3 DEF Sessions
  <2> QED
    BY <1>1, <2>3, <2>4, <2>5 DEF SocketInv, Socket
<1>5. \A t, d, u : Said(t, d, u)' <=> Said(t, d, u)
  BY <1>1, <1>3 DEF Said, SaidAt
<1>6. Doubling'
  BY <1>1, <1>5 DEF SocketInv, Doubling
<1> SUFFICES ASSUME faults = 0 PROVE Explained'
  BY <1>1, <1>4, <1>6 DEF Explained, SocketInv
<1>7. \A u \in Users : Shown(u)'
  <2>1. \A u : HasSocket(u) => HasSocket(u)'
    BY <1>1 DEF HasSocket
  <2> QED
    BY <1>1, <1>5, <2>1 DEF Explained, Shown
<1>8. \A t \in Sockets : Told(t)'
  BY <1>1 DEF Explained, Told
<1>9. \A t \in open \cup {s} : LoginShows(t)'
  BY <1>1, <1>2, <1>5 DEF Explained, LoginShows, Visible
<1>10. \A t \in open \cup {s} : \A i \in Places(t) : AskSees(t, i)'
  BY <1>1, <1>3 DEF Explained, AskSees, Visible, SaidAt
<1> QED
  BY <1>1, <1>3, <1>7, <1>8, <1>9, <1>10 DEF Explained

-----------------------------------------------------------------------------
LEMMA InvStep == IndInv /\ [Next]_vars => IndInv'
<1> SUFFICES ASSUME IndInv, [Next]_vars PROVE SocketInv' /\ Explained'
  BY TypeStep DEF IndInv
<1>0. TypeOK /\ TypeOK' /\ SocketInv /\ Explained
  BY TypeStep DEF IndInv
<1>1. ASSUME NEW s \in Sockets, Connect(s) PROVE SocketInv' /\ Explained'
  BY <1>0, <1>1, ConnectStep
<1>2. ASSUME NEW s \in Sockets, Sending(s) PROVE SocketInv' /\ Explained'
  BY <1>0, <1>2, SendStep
<1>3. ASSUME NEW s \in Sockets, Handle(s) \/ CommandFails(s) PROVE SocketInv' /\ Explained'
  BY <1>0, <1>3, TakeStep
<1>4. ASSUME NEW s \in Sockets, Disconnect(s) PROVE SocketInv' /\ Explained'
  <2>1. PICK v \in Prefixes(wire[s]) : wire' = [wire EXCEPT ![s] = v]
    BY <1>4 DEF Disconnect
  <2>2. /\ {s} \in SUBSET open /\ Gone({s}) /\ faults' = faults
        /\ open \subseteq Sockets /\ wire[s] \in Seq(Messages)
    BY <1>0, <1>4 DEF Disconnect, TypeOK
  <2>3. wire'[s] = v /\ \A t \in Sockets \ {s} : wire'[t] = wire[t]
    BY <1>0, <2>1 DEF TypeOK
  <2>4. \A t \in Sockets : Range(wire'[t]) \subseteq Range(wire[t])
    BY <2>2, <2>3, Arrived
  <2>5. \A t \in open \ {s} : wire'[t] = wire[t]
    BY <2>2, <2>3
  <2> QED
    BY <1>0, <2>2, <2>4, <2>5, CloseStep
<1>5. CASE ChatCrash
  <2>1. Gone(open) /\ faults' # 0 /\ wire' = [s \in Sockets |-> <<>>]
    BY <1>0, <1>5 DEF ChatCrash, Fault, TypeOK
  <2>2. \A s \in Sockets : Range(wire'[s]) \subseteq Range(wire[s])
    BY <2>1 DEF Range
  <2>3. open \in SUBSET open /\ \A s \in open \ open : wire'[s] = wire[s]
    OBVIOUS
  <2> QED
    BY <1>0, <2>1, <2>2, <2>3, CloseStep
<1>6. CASE UNCHANGED vars
  <2> USE DEF vars, clients
  <2>1. \A s : Places(s)' = Places(s)
    BY <1>6 DEF Places
  <2>2. \A s \in Sockets : Socket(s)'
    BY <1>0, <1>6, <2>1 DEF SocketInv, Socket, Silent, Sessions, EndedOrOn, NewLogin, SaidAt, Later, Between
  <2>3. Doubling'
    BY <1>0, <1>6, <2>1 DEF SocketInv, Doubling, Said, SaidAt
  <2>4. Explained'
    BY <1>0, <1>6, <2>1 DEF Explained, Shown, Told, LoginShows, AskSees, Visible, HasSocket, Said, SaidAt
  <2> QED
    BY <2>2, <2>3, <2>4 DEF SocketInv
<1> QED
  BY <1>1, <1>2, <1>3, <1>4, <1>5, <1>6 DEF Next, Sending

(* Without failures, and once nothing about him is under way, a user who   *)
(* is shown online is logged in or left without saying so, one who is      *)
(* logged in is shown unless he logged out elsewhere, and no client is     *)
(* told otherwise.                                                         *)
THEOREM Presence == Spec => []PresenceIsExplained
<1>1. Init => IndInv
  BY InitTyped, InitInv DEF IndInv
<1> QED
  BY <1>1, InvStep, Explains, PTL DEF Spec
=============================================================================
