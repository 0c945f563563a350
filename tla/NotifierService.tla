--------------------------- MODULE NotifierService ---------------------------
(***************************************************************************)
(* notifier-svc: pods that pull events from JetStream, write one row per   *)
(* event to the table notifications of their environment, acknowledge, and *)
(* fan the event out to the browsers connected to them (server-sent        *)
(* events).                                                                *)
(*                                                                         *)
(* pc[r] is where the goroutine Subscribe of pod r stands:                 *)
(*   "down"    the process does not run                                    *)
(*   "start"   New has returned; PullSubscribe not yet called              *)
(*   "gone"    PullSubscribe failed: the goroutine has returned while the  *)
(*             process, and its health check, live on                      *)
(*   "fetch"   in sub.Fetch; "insert", "fanout", "ack": in the loop over   *)
(*             the fetched messages, the first of batch[r] being the one   *)
(*             it works on                                                 *)
(***************************************************************************)
EXTENDS JetStream

CONSTANTS
  NotifierPods,  \* the pods of notifier-svc, of every environment
  Clients,       \* browsers with an EventSource
  Envs,          \* environments: one database schema each
  EnvOf,         \* EnvOf[p]: the environment a pod runs in
  ClientEnv,     \* the environment whose host name a browser uses
  FetchSize,     \* messages per Fetch (10 in the code)
  ChanCap,       \* capacity of a subscriber's channel (16 in the code)
  NoReplica      \* no pod

ASSUME NotifierAssumption ==
  /\ FetchSize \in Nat \ {0}
  /\ ChanCap \in Nat \ {0}
  /\ \A r \in NotifierPods : EnvOf[r] \in Envs
  /\ ClientEnv \in [Clients -> Envs]
  /\ NoReplica \notin NotifierPods

VARIABLES
  pc,            \* control state of Subscribe on each pod
  batch,         \* the fetched messages not yet worked off
  rows,          \* rows[e][q]: rows for q in the table of environment e
  insertFailed,  \* messages of which some INSERT failed (history)
  conn,          \* the pod each browser is connected to
  chan,          \* the channel of that connection
  received       \* what was written to that connection (history)

notifierVars == <<pc, batch, rows, insertFailed, conn, chan, received>>

ControlStates == {"down", "start", "gone", "fetch", "insert", "fanout", "ack"}

NotifierTypeOK ==
  /\ pc \in [NotifierPods -> ControlStates]
  /\ batch \in [NotifierPods -> Seq(Requests)]
  /\ rows \in [Envs -> [Requests -> Nat]]
  /\ insertFailed \subseteq Requests
  /\ conn \in [Clients -> NotifierPods \cup {NoReplica}]
  /\ chan \in [Clients -> Seq(Requests)]
  /\ received \in [Clients -> Seq(Requests)]
  /\ \A r \in NotifierPods : Len(batch[r]) <= FetchSize
  /\ \A c \in Clients : Len(chan[c]) <= ChanCap

NotifierInit ==
  /\ pc = [r \in NotifierPods |-> "down"]
  /\ batch = [r \in NotifierPods |-> <<>>]
  /\ rows = [e \in Envs |-> [q \in Requests |-> 0]]
  /\ insertFailed = {}
  /\ conn = [c \in Clients |-> NoReplica]
  /\ chan = [c \in Clients |-> <<>>]
  /\ received = [c \in Clients |-> <<>>]

sseVars == <<conn, chan, received>>

Goto(r, state) == pc' = [pc EXCEPT ![r] = state]

\* The message pod r works on.
Current(r) == Head(batch[r])

InBatch(r, q) == \E i \in 1..Len(batch[r]) : batch[r][i] = q

\* main: New succeeds and the goroutine Subscribe starts.
StartNotifier(r) ==
  /\ pc[r] = "down"
  /\ Goto(r, "start")
  /\ NoFault
  /\ UNCHANGED <<batch, rows, insertFailed, sseVars, jsVars>>

(***************************************************************************)
(* PullSubscribe looks the stream up by its subject and creates or binds   *)
(* the durable consumer.  Any error ends the goroutine.                    *)
(***************************************************************************)
Subscribe(r) ==
  /\ pc[r] = "start"
  /\ \/ streamUp /\ Goto(r, "fetch") /\ NoFault
     \/ ~streamUp /\ Goto(r, "gone") /\ NoFault
     \/ Fault("subscribe") /\ Goto(r, "gone")
  /\ UNCHANGED <<batch, rows, insertFailed, sseVars, jsVars>>

\* During Fetch the server hands messages to the pod one by one.
Deliver(r, q) ==
  /\ pc[r] = "fetch"
  /\ Len(batch[r]) < FetchSize
  /\ HandOut(q)
  /\ batch' = [batch EXCEPT ![r] = Append(@, q)]
  /\ NoFault
  /\ UNCHANGED <<pc, rows, insertFailed, sseVars>>

\* Mutants of FetchReturns: a timeout leaves the loop; the messages are handled
\* in goroutines of their own, here last one first.
FetchReturns_timeoutEnds(r) ==
  /\ pc[r] = "fetch"
  /\ Goto(r, IF batch[r] = <<>> THEN "gone" ELSE "insert")
  /\ NoFault
  /\ UNCHANGED <<batch, rows, insertFailed, sseVars, jsVars>>
FetchReturns_unordered(r) ==
  /\ pc[r] = "fetch"
  /\ batch[r] # <<>>
  /\ Goto(r, "insert")
  /\ batch' = [batch EXCEPT ![r] = [i \in 1..Len(@) |-> @[Len(@) + 1 - i]]]
  /\ NoFault
  /\ UNCHANGED <<rows, insertFailed, sseVars, jsVars>>

\* Fetch returns what has arrived; with nothing it times out and is repeated.
FetchReturns(r) ==
  /\ pc[r] = "fetch"
  /\ batch[r] # <<>>
  /\ Goto(r, "insert")
  /\ NoFault
  /\ UNCHANGED <<batch, rows, insertFailed, sseVars, jsVars>>

\* Mutants of Insert: an error does not return from handle; an error is
\* answered by executing the INSERT again; the INSERT is skipped (say, for a
\* payload taken for malformed).
Insert_noReturn(r) ==
  /\ pc[r] = "insert"
  /\ \/ NoFault /\ rows' = [rows EXCEPT ![EnvOf[r]][Current(r)] = @ + 1]
     \/ Fault("insert") /\ UNCHANGED rows
  /\ Goto(r, "fanout")
  /\ UNCHANGED <<batch, insertFailed, sseVars, jsVars>>
Insert_retry(r) ==
  /\ pc[r] = "insert"
  /\ \/ NoFault /\ Goto(r, "fanout")
     \/ Fault("insert") /\ UNCHANGED pc
  /\ rows' = [rows EXCEPT ![EnvOf[r]][Current(r)] = @ + 1]
  /\ UNCHANGED <<batch, insertFailed, sseVars, jsVars>>
Insert_skipped(r) ==
  /\ pc[r] = "insert"
  /\ \/ rows' = [rows EXCEPT ![EnvOf[r]][Current(r)] = @ + 1] /\ Goto(r, "fanout")
     \/ UNCHANGED rows /\ Goto(r, "ack")
  /\ NoFault
  /\ UNCHANGED <<batch, insertFailed, sseVars, jsVars>>

(***************************************************************************)
(* handle, up to its INSERT.  An error, also one after the row was         *)
(* committed, returns from handle: the caller acknowledges all the same.   *)
(* A message that does not unmarshal is acknowledged without a row too; it *)
(* is left out, as tasks-svc publishes nothing but its own JSON.           *)
(***************************************************************************)
Insert(r) ==
  LET q == Current(r)
      RowAdded == rows' = [rows EXCEPT ![EnvOf[r]][q] = @ + 1]
  IN /\ pc[r] = "insert"
     /\ \/ /\ NoFault
           /\ RowAdded
           /\ Goto(r, "fanout")
           /\ UNCHANGED insertFailed
        \/ /\ Fault("insert")
           /\ RowAdded \/ UNCHANGED rows
           /\ Goto(r, "ack")
           /\ insertFailed' = insertFailed \cup {q}
     /\ UNCHANGED <<batch, sseVars, jsVars>>

\* Mutant of fanout: no room for the message, and no default branch either.
fanout_unbounded(r) ==
  /\ pc[r] = "fanout"
  /\ chan' = [c \in Clients |->
                IF conn[c] = r THEN Append(chan[c], Current(r)) ELSE chan[c]]
  /\ Goto(r, "ack")
  /\ NoFault
  /\ UNCHANGED <<batch, rows, insertFailed, conn, received, jsVars>>

\* fanout: to every connected browser whose channel has room.
fanout(r) ==
  /\ pc[r] = "fanout"
  /\ chan' = [c \in Clients |->
                IF conn[c] = r /\ Len(chan[c]) < ChanCap
                  THEN Append(chan[c], Current(r))
                  ELSE chan[c]]
  /\ Goto(r, "ack")
  /\ NoFault
  /\ UNCHANGED <<batch, rows, insertFailed, conn, received, jsVars>>

\* Mutant of Ack: the consumer's policy is AckAll instead of AckExplicit, an
\* acknowledgement covers every message delivered before this one.
Ack_all(r) ==
  /\ pc[r] = "ack"
  /\ LET covered == {stream[i] : i \in {j \in 1..Len(stream) :
                       \E k \in j..Len(stream) : stream[k] = Current(r)}}
     IN /\ acked' = acked \cup covered
        /\ pending' = pending \ covered
        /\ redeliver' = redeliver \ covered
  /\ NoFault
  /\ batch' = [batch EXCEPT ![r] = Tail(@)]
  /\ Goto(r, IF Len(batch[r]) = 1 THEN "fetch" ELSE "insert")
  /\ UNCHANGED <<rows, insertFailed, sseVars, streamUp, stream, cursor, deliveries>>

\* m.Ack(), whose error is discarded: the acknowledgement may get lost.
Ack(r) ==
  /\ pc[r] = "ack"
  /\ \/ TakeAck(Current(r)) /\ NoFault
     \/ Fault("ack") /\ UNCHANGED jsVars
  /\ batch' = [batch EXCEPT ![r] = Tail(@)]
  /\ Goto(r, IF Len(batch[r]) = 1 THEN "fetch" ELSE "insert")
  /\ UNCHANGED <<rows, insertFailed, sseVars>>

(***************************************************************************)
(* The process ends, by a kill or after SIGTERM: wherever Subscribe is, it *)
(* ends there (main never cancels its context), and every connection with  *)
(* what its channel held is gone.                                          *)
(***************************************************************************)
StopNotifier(r) ==
  /\ pc[r] # "down"
  /\ Fault("crash")
  /\ Goto(r, "down")
  /\ batch' = [batch EXCEPT ![r] = <<>>]
  /\ conn' = [c \in Clients |-> IF conn[c] = r THEN NoReplica ELSE conn[c]]
  /\ chan' = [c \in Clients |-> IF conn[c] = r THEN <<>> ELSE chan[c]]
  /\ received' = [c \in Clients |-> IF conn[c] = r THEN <<>> ELSE received[c]]
  /\ UNCHANGED <<rows, insertFailed, jsVars>>

(***************************************************************************)
(* AckWait passes: for a message nobody holds any more (its pod stopped or *)
(* its acknowledgement got lost) it does so sooner or later; for one that  *)
(* waits in a slow pod's batch this is a failure of kind "slow".           *)
(***************************************************************************)
Redeliver(q) ==
  /\ AckWaitOver(q)
  /\ IF \E r \in NotifierPods : InBatch(r, q) THEN Fault("slow") ELSE NoFault
  /\ UNCHANGED notifierVars

\* stream: a browser connects; its channel is registered with the pod.
Connect(c, r) ==
  /\ conn[c] = NoReplica
  /\ pc[r] # "down"
  /\ EnvOf[r] = ClientEnv[c]
  /\ conn' = [conn EXCEPT ![c] = r]
  /\ NoFault
  /\ UNCHANGED <<pc, batch, rows, insertFailed, chan, received, jsVars>>

\* stream: one message of the channel is written to the connection.
WriteEventTo(c) ==
  /\ chan[c] # <<>>
  /\ received' = [received EXCEPT ![c] = Append(@, Head(chan[c]))]
  /\ chan' = [chan EXCEPT ![c] = Tail(@)]
  /\ NoFault
  /\ UNCHANGED <<pc, batch, rows, insertFailed, conn, jsVars>>

\* stream: the browser is gone; the channel is removed with what it holds.
Disconnect(c) ==
  /\ conn[c] # NoReplica
  /\ conn' = [conn EXCEPT ![c] = NoReplica]
  /\ chan' = [chan EXCEPT ![c] = <<>>]
  /\ received' = [received EXCEPT ![c] = <<>>]
  /\ NoFault
  /\ UNCHANGED <<pc, batch, rows, insertFailed, jsVars>>

Consume(r) ==
  \/ StartNotifier(r)
  \/ Subscribe(r)
  \/ \E q \in Requests : Deliver(r, q)
  \/ FetchReturns(r)
  \/ Insert(r)
  \/ fanout(r)
  \/ Ack(r)

NotifierNext ==
  \/ \E r \in NotifierPods : Consume(r) \/ StopNotifier(r)
  \/ \E q \in Requests : Redeliver(q)
  \/ \E c \in Clients, r \in NotifierPods : Connect(c, r)
  \/ \E c \in Clients : WriteEventTo(c) \/ Disconnect(c)
==============================================================================
