---------------------------- MODULE ChatPresence ----------------------------
(***************************************************************************)
(* Who is online in the chat: the Redis set user:online against the        *)
(* sockets of the clients.                                                 *)
(*                                                                         *)
(* A client opens a socket, says login with a user, may ask for a user's   *)
(* status and says logout; the gateway turns each message into one Redis   *)
(* command.  Opening and closing a socket only writes to the log, so what  *)
(* a client does not say is never known.  The set outlives the process.    *)
(*                                                                         *)
(* Abstractions.  The messages of one socket arrive in order and so do     *)
(* their commands; those of two sockets meet in Redis in any order.  A     *)
(* client is a well-behaved one: it says login once, and logout only       *)
(* after that.  faults and MaxFaults are those of module Signup.           *)
(***************************************************************************)
EXTENDS Naturals, Sequences, SequencesExt

CONSTANTS Sockets, Users,
          Nobody,      \* the user of a socket that is not logged in
          MaxSent,     \* bound on the messages a socket sends
          MaxFaults    \* bound on the failures injected in a behaviour

ASSUME PresenceAssumption == Nobody \notin Users /\ MaxSent \in Nat /\ MaxFaults \in Nat

VARIABLES open,      \* sockets that are connected
          user,      \* whom each socket has last said it is
          sent,      \* messages each socket has sent
          wire,      \* messages of each socket that Redis has not seen
          online,    \* the set user:online
          status,    \* the last status each socket was told, of its own user
          left,      \* history: users whose socket closed without a logout
                     \* that was handled
          doubled,   \* history: users who logged out of one socket while
                     \* logged in, or logging in, on another
          faults

clients == <<open, user, sent>>
vars    == <<clients, wire, online, status, left, doubled, faults>>

Messages == [event : {"LOGIN", "LOGOUT", "GET_USER_ONLINE_STATUS"}, user : Users]

-----------------------------------------------------------------------------
Init == /\ open = {}
        /\ user = [s \in Sockets |-> Nobody]
        /\ sent = [s \in Sockets |-> 0]
        /\ wire = [s \in Sockets |-> <<>>]
        /\ online = {}
        /\ status = [s \in Sockets |-> "none"]
        /\ left = {} /\ doubled = {}
        /\ faults = 0

Fault == faults < MaxFaults /\ faults' = faults + 1

(* handleConnection *)
Connect(s) == /\ s \notin open /\ sent[s] = 0
              /\ open' = open \cup {s}
              /\ UNCHANGED <<user, sent, wire, online, status, left, doubled, faults>>

Says(s, event, u) == /\ s \in open /\ sent[s] < MaxSent
                     /\ sent' = [sent EXCEPT ![s] = @ + 1]
                     /\ wire' = [wire EXCEPT ![s] = Append(@, [event |-> event, user |-> u])]
                     /\ UNCHANGED <<open, online, left, faults>>

LogoutUnderWay(s, u) ==
    \E t \in Sockets \ {s} : [event |-> "LOGOUT", user |-> u] \in Range(wire[t])

Login(s, u) == /\ user[s] = Nobody /\ Says(s, "LOGIN", u)
               /\ user' = [user EXCEPT ![s] = u]
               /\ status' = [status EXCEPT ![s] = "none"]
               /\ doubled' = IF LogoutUnderWay(s, u) THEN doubled \cup {u} ELSE doubled

Elsewhere(s, u) == \E t \in open \ {s} : user[t] = u

Logout(s) == /\ user[s] # Nobody /\ Says(s, "LOGOUT", user[s])
             /\ user' = [user EXCEPT ![s] = Nobody]
             /\ status' = [status EXCEPT ![s] = "none"]
             /\ doubled' = IF Elsewhere(s, user[s]) THEN doubled \cup {user[s]} ELSE doubled

Ask(s) == /\ user[s] # Nobody /\ Says(s, "GET_USER_ONLINE_STATUS", user[s])
          /\ UNCHANGED <<user, status, doubled>>

(* handleDisconnect.  What the socket had sent may have arrived or not.    *)
Gone(S) == /\ open' = open \ S
           /\ user' = [s \in Sockets |-> IF s \in S THEN Nobody ELSE user[s]]
           /\ left' = left \cup ({user[s] : s \in S} \ {Nobody})
                           \cup {m.user : m \in UNION {Range(wire[s]) : s \in S}}
           /\ status' = [s \in Sockets |-> IF s \in S THEN "none" ELSE status[s]]
           /\ UNCHANGED <<sent, online, doubled>>

(* Mutant: a socket that closes logs its user out. *)
DisconnectLogsOut(s) == /\ s \in open /\ Gone({s})
                        /\ wire' = IF user[s] = Nobody THEN wire
                                   ELSE [wire EXCEPT ![s] = Append(@, [event |-> "LOGOUT", user |-> user[s]])]
                        /\ UNCHANGED faults

Disconnect(s) == /\ s \in open /\ Gone({s})
                 /\ \E arrived \in Prefixes(wire[s]) : wire' = [wire EXCEPT ![s] = arrived]
                 /\ UNCHANGED faults

-----------------------------------------------------------------------------
(* saveUserLogin, removeUserLogout and getUserOnlineStatus, one command    *)
(* each.                                                                   *)

Message(s) == Head(wire[s])

Done(s) == /\ wire' = [wire EXCEPT ![s] = Tail(@)]
           /\ UNCHANGED <<clients, left, doubled>>

SaveUserLogin(s) == /\ wire[s] # <<>> /\ Message(s).event = "LOGIN"
                    /\ online' = online \cup {Message(s).user}
                    /\ Done(s) /\ UNCHANGED <<status, faults>>

RemoveUserLogout(s) == /\ wire[s] # <<>> /\ Message(s).event = "LOGOUT"
                       /\ online' = online \ {Message(s).user}
                       /\ Done(s) /\ UNCHANGED <<status, faults>>

(* Mutant: the reply of SISMEMBER is told as it is. *)
TellReply(s) == /\ wire[s] # <<>> /\ Message(s).event = "GET_USER_ONLINE_STATUS"
                /\ status' = [status EXCEPT ![s] = IF Message(s).user \in online THEN "1" ELSE "0"]
                /\ Done(s) /\ UNCHANGED <<online, faults>>

(* The answer to an earlier login of the socket is nothing to it now. *)
GetUserOnlineStatus(s) ==
    /\ wire[s] # <<>> /\ Message(s).event = "GET_USER_ONLINE_STATUS"
    /\ status' = IF user[s] # Message(s).user THEN status
                 ELSE [status EXCEPT ![s] = IF Message(s).user \in online THEN "true" ELSE "false"]
    /\ Done(s) /\ UNCHANGED <<online, faults>>

(* Redis refuses a command; the error is told to the socket. *)
CommandFails(s) == /\ wire[s] # <<>> /\ Fault
                   /\ Done(s) /\ UNCHANGED <<online, status>>

(* The process dies with its sockets; Redis keeps the set. *)
ChatCrash == /\ open # {} /\ Fault
             /\ Gone(open)
             /\ wire' = [s \in Sockets |-> <<>>]

Handle(s) == SaveUserLogin(s) \/ RemoveUserLogout(s) \/ GetUserOnlineStatus(s)

Next == \/ \E s \in Sockets : \/ Connect(s) \/ Disconnect(s)
                              \/ Logout(s) \/ Ask(s) \/ Handle(s) \/ CommandFails(s)
                              \/ \E u \in Users : Login(s, u)
        \/ ChatCrash

Spec == Init /\ [][Next]_vars
-----------------------------------------------------------------------------
TypeOK == /\ open \subseteq Sockets
          /\ user \in [Sockets -> Users \cup {Nobody}]
          /\ sent \in [Sockets -> 0..MaxSent]
          /\ wire \in [Sockets -> Seq(Messages)]
          /\ online \subseteq Users
          /\ status \in [Sockets -> {"none", "true", "false"}]
          /\ left \subseteq Users /\ doubled \subseteq Users
          /\ faults \in 0..MaxFaults

HasSocket(u) == \E s \in open : user[s] = u

Pending(u) == \E s \in Sockets, m \in Messages : m.user = u /\ m \in Range(wire[s])

(* What the set says of a user is what the clients said: someone shown     *)
(* online is logged in, unless one of his sockets closed without a logout; *)
(* someone logged in is shown, and told so when he asks, unless he logged  *)
(* out of another socket.  Messages under way and failures excuse either.  *)
PresenceIsExplained ==
    faults = 0 =>
        /\ \A u \in Users : ~Pending(u) =>
               /\ u \in online => HasSocket(u) \/ u \in left
               /\ HasSocket(u) => u \in online \/ u \in doubled
        /\ \A s \in Sockets : status[s] = "false" => user[s] \in doubled
=============================================================================
