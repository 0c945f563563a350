------------------------------ MODULE JetStream ------------------------------
(***************************************************************************)
(* The NATS JetStream server as tasks-svc and notifier-svc use it: the one *)
(* stream TASKS (subjects tasks.>) and its one durable pull consumer       *)
(* "notifier-durable" with explicit acknowledgement.  The server is not    *)
(* part of the repository; its behaviour is what the two services rely on: *)
(*                                                                         *)
(*   - a stored message stays in the stream, in the order of storing;      *)
(*   - the consumer starts at the first message (nats.go's default         *)
(*     DeliverAll policy) and hands every message to ONE of the clients    *)
(*     that pull from it;                                                  *)
(*   - a message that is not acknowledged within AckWait is queued for     *)
(*     redelivery, again to any one client; redeliveries come before new   *)
(*     messages; an acknowledgement also takes a message off that queue.   *)
(*                                                                         *)
(* A message is identified with the write request whose event it carries.  *)
(* That tasks-svc stores at most one message per request is checked        *)
(* (PublishedOnce in EventPipeline).  The expiry of messages after MaxAge  *)
(* (24 h) is left out: every run is about less than a day.                 *)
(***************************************************************************)
EXTENDS Naturals, Sequences

CONSTANTS
  Requests,       \* the write requests made to tasks-svc, one message each
  StreamAtStart,  \* does the stream TASKS exist already (file storage)?
  FaultKinds,     \* the kinds of failure the environment may inject
  MaxFaults       \* bound: how many failures one behaviour contains

ASSUME FaultAssumption ==
  /\ StreamAtStart \in BOOLEAN
  /\ MaxFaults \in Nat

VARIABLES
  streamUp,    \* the stream TASKS has been created
  stream,      \* the messages stored, in order
  cursor,      \* how many of them the durable consumer has delivered once
  pending,     \* delivered and not acknowledged
  redeliver,   \* pending messages whose AckWait has passed
  acked,       \* acknowledged
  deliveries,  \* how often each message was handed to a client
  budget       \* failures the environment may still inject

jsVars == <<streamUp, stream, cursor, pending, redeliver, acked, deliveries>>

StreamedSet == {stream[i] : i \in 1..Len(stream)}

JSTypeOK ==
  /\ streamUp \in BOOLEAN
  /\ stream \in Seq(Requests)
  /\ cursor \in 0..Len(stream)
  /\ pending \subseteq Requests
  /\ redeliver \subseteq pending
  /\ acked \subseteq Requests
  /\ deliveries \in [Requests -> Nat]
  /\ budget \in 0..MaxFaults

JSInit ==
  /\ streamUp = StreamAtStart
  /\ stream = <<>>
  /\ cursor = 0
  /\ pending = {}
  /\ redeliver = {}
  /\ acked = {}
  /\ deliveries = [q \in Requests |-> 0]
  /\ budget = MaxFaults

(***************************************************************************)
(* Failures.  A step that is a failure of kind k says Fault(k), every other *)
(* step says NoFault.                                                      *)
(***************************************************************************)
Fault(k) == k \in FaultKinds /\ budget > 0 /\ budget' = budget - 1
NoFault  == UNCHANGED budget

(***************************************************************************)
(* The server's operations.                                                *)
(***************************************************************************)
\* js.AddStream: idempotent.
AddStream ==
  /\ streamUp' = TRUE
  /\ UNCHANGED <<stream, cursor, pending, redeliver, acked, deliveries>>

\* A publish that the server stores.  Without a stream there is no responder.
Store(q) ==
  /\ streamUp
  /\ stream' = Append(stream, q)
  /\ UNCHANGED <<streamUp, cursor, pending, redeliver, acked, deliveries>>

\* The server hands message q to one pulling client.
HandOut(q) ==
  /\ \/ /\ q \in redeliver
        /\ UNCHANGED cursor
     \/ /\ redeliver = {}
        /\ cursor < Len(stream)
        /\ q = stream[cursor + 1]
        /\ cursor' = cursor + 1
  /\ redeliver' = redeliver \ {q}
  /\ pending' = pending \cup {q}
  /\ deliveries' = [deliveries EXCEPT ![q] = @ + 1]
  /\ UNCHANGED <<streamUp, stream, acked>>

\* The server receives an acknowledgement of q.
TakeAck(q) ==
  /\ acked' = acked \cup {q}
  /\ pending' = pending \ {q}
  /\ redeliver' = redeliver \ {q}
  /\ UNCHANGED <<streamUp, stream, cursor, deliveries>>

\* AckWait passes for q.
AckWaitOver(q) ==
  /\ q \in pending \ redeliver
  /\ redeliver' = redeliver \cup {q}
  /\ UNCHANGED <<streamUp, stream, cursor, pending, acked, deliveries>>
==============================================================================
