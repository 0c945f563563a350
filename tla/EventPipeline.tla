---------------------------- MODULE EventPipeline ----------------------------
(***************************************************************************)
(* The task-event pipeline: tasks-svc, JetStream and notifier-svc together.*)
(* One next-state relation interleaves the handlers of tasks-svc, the      *)
(* Subscribe loops of notifier-svc, the server, the browsers and the       *)
(* failures that FaultKinds allows.                                        *)
(***************************************************************************)
EXTENDS TasksService, NotifierService

ASSUME PipelineAssumption == \A p \in TasksPods : EnvOf[p] \in Envs

vars == <<jsVars, budget, tasksVars, notifierVars>>

Init == JSInit /\ TasksInit /\ NotifierInit

Next ==
  \/ TasksNext /\ UNCHANGED notifierVars
  \/ NotifierNext /\ UNCHANGED tasksVars

Safety == Init /\ [][Next]_vars

(***************************************************************************)
(* Fairness: a pod that is down is restarted, a handler and the Subscribe  *)
(* loop keep running, and AckWait passes.  Clients and failures owe us     *)
(* nothing; the budget makes failures stop in the end, which is what       *)
(* "eventually" has to assume.                                             *)
(***************************************************************************)
Fairness ==
  /\ \A p \in TasksPods : WF_vars(StartTasksPod(p) /\ UNCHANGED notifierVars)
  /\ \A q \in Requests : WF_vars((publish(q) \/ reply(q)) /\ UNCHANGED notifierVars)
  /\ \A r \in NotifierPods : WF_vars(Consume(r) /\ UNCHANGED tasksVars)
  /\ \A q \in Requests : WF_vars(Redeliver(q) /\ UNCHANGED tasksVars)

Spec == Safety /\ Fairness

TypeOK == JSTypeOK /\ TasksTypeOK /\ NotifierTypeOK

-----------------------------------------------------------------------------
(***************************************************************************)
(* Safety.                                                                 *)
(***************************************************************************)
PositionOf(q) == CHOOSE i \in 1..Len(stream) : stream[i] = q

\* Every message in the stream tells of a create or update that is in the
\* table, whatever fails: publish runs after the statement has committed, and
\* no error path of a handler reaches it.
PublishedAreCommitted == StreamedSet \subseteq committed

\* No event is in the stream twice: a handler publishes in one attempt, also
\* when the server's answer is lost.
PublishedOnce ==
  \A i, j \in 1..Len(stream) : stream[i] = stream[j] => i = j

\* The client had its answer to q1 before q2 committed, and the publish of q1
\* was not given up, or else the two went out through the same connection.
MustPrecede(q1, q2) ==
  q1 \in before[q2] /\ (q1 \in late => req[q1].pod = req[q2].pod)

\* Events are in the stream in the order of the answers: publish precedes the
\* reply.  Only a message that was given up while its pod reconnected may come
\* behind that of a later request, and only one of another pod.  Overlapping
\* requests have no order.
RealTimeOrder ==
  \A q1, q2 \in StreamedSet : MustPrecede(q1, q2) => PositionOf(q1) < PositionOf(q2)

\* What a browser was shown, or has waiting in its channel, is a row of the
\* table of its environment: fanout runs only after the INSERT.
ShownArePersisted ==
  \A c \in Clients : \A s \in {chan[c], received[c]} : \A i \in 1..Len(s) :
    rows[ClientEnv[c]][s[i]] > 0

\* A message that JetStream will not deliver again has left a row, or an
\* INSERT of it was seen to fail: the only way an event gets lost between
\* the stream and the table, crashes, lost acks and redeliveries included.
AckedAreAccounted ==
  \A q \in acked : q \in insertFailed \/ \E e \in Envs : rows[e][q] > 0

\* Copies of a notification come from redeliveries only: one delivery never
\* writes two rows.
DuplicatesAreRedeliveries ==
  \A q \in Requests : \A e \in Envs : rows[e][q] <= deliveries[q]

\* One connection shows events in the order of the stream; an event that
\* comes late was redelivered.
StreamOrderPerConnection ==
  \A c \in Clients :
    LET shown == received[c] \o chan[c]
    IN  \A i, j \in 1..Len(shown) :
          i < j /\ PositionOf(shown[i]) >= PositionOf(shown[j])
            => deliveries[shown[j]] > 1

\* A notification is recorded in the environment the task belongs to.
EnvIsolation ==
  \A e \in Envs, q \in Requests : rows[e][q] > 0 => EnvOf[req[q].pod] = e

-----------------------------------------------------------------------------
(***************************************************************************)
(* Liveness.                                                               *)
(***************************************************************************)
\* An event in the stream is recorded in the end, although pods crash, acks
\* get lost and messages are redelivered.
PublishedEventuallyPersisted ==
  \A q \in Requests :
    q \in StreamedSet ~> \E e \in Envs : rows[e][q] > 0

-----------------------------------------------------------------------------
(***************************************************************************)
(* The pipeline implements the at-least-once bus as long as no INSERT      *)
(* fails.                                                                  *)
(***************************************************************************)
Bus == INSTANCE EventBus WITH
         Events    <- Requests,
         Places    <- Envs,
         published <- StreamedSet,
         recorded  <- rows,
         settled   <- acked

ImplementsBus == Bus!BusSafety
==============================================================================
