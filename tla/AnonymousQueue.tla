--------------------------- MODULE AnonymousQueue ---------------------------
(***************************************************************************)
(* One @RabbitSubscribe without a queue name: the subscription of one      *)
(* handler of one service, as the broker and the client library keep it.   *)
(*                                                                         *)
(* At every (re)connection the library asserts a queue with no name, binds *)
(* it to the exchange and consumes it.  The broker invents a new name each *)
(* time, so what an older queue still holds has no consumer any more.  A   *)
(* handler that returns has its message acknowledged, one that throws has  *)
(* it put back in its queue.  Handlers run concurrently.                   *)
(*                                                                         *)
(* A message is published once, so sets describe the queue.  The operators *)
(* give the next state of a subscription from its present one.             *)
(***************************************************************************)
CONSTANTS Messages,
          Steps      \* what a running handler can be about to do

Subscription ==
    [bound : BOOLEAN,            \* is a consumed queue bound to the exchange?
     ready : SUBSET Messages,    \* waiting in it
     step  : [Messages -> Steps \cup {"none"}],  \* next step of each handler
     stale : SUBSET Messages,    \* delivered over a channel closed since
     lost  : SUBSET Messages]    \* in no queue that has a consumer

AtBoot(b) == [bound |-> b, ready |-> {}, step |-> [m \in Messages |-> "none"],
              stale |-> {}, lost |-> {}]

InHandler(q) == {m \in Messages : q.step[m] # "none"}

Seen(q) == q.ready \cup InHandler(q)

(* The exchange copies a message to the queues bound to it, if any. *)
Published(q, m) == IF q.bound THEN [q EXCEPT !.ready = @ \cup {m}]
                              ELSE [q EXCEPT !.lost = @ \cup {m}]

Subscribed(q) == [q EXCEPT !.bound = TRUE]

Delivered(q, m, s) == [q EXCEPT !.ready = @ \ {m}, !.step = [@ EXCEPT ![m] = s]]

MovedTo(q, m, s) == [q EXCEPT !.step = [@ EXCEPT ![m] = s]]

Acked(q, m) == [q EXCEPT !.step = [@ EXCEPT ![m] = "none"], !.stale = @ \ {m}]

(* Back to the queue it came from, which may have no consumer any more. *)
Requeued(q, m) ==
    IF m \in q.stale THEN [Acked(q, m) EXCEPT !.lost = @ \cup {m}]
                     ELSE [Acked(q, m) EXCEPT !.ready = @ \cup {m}]

(* The connection drops; handlers already running carry on. *)
Disconnected(q) == [q EXCEPT !.bound = FALSE, !.ready = {},
                             !.stale = InHandler(q), !.lost = @ \cup q.ready]

(* The process dies, its running handlers with it. *)
Crashed(q) == [AtBoot(FALSE) EXCEPT !.lost = q.lost \cup Seen(q)]

(* Nothing is dropped silently: waiting, in a handler, done, or stranded. *)
Accounts(q, m, done) == m \in Seen(q) \/ done \/ m \in q.lost
=============================================================================
