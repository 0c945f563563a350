----------------------------- MODULE TasksService -----------------------------
(***************************************************************************)
(* tasks-svc: pods that serve the task API and publish an event after      *)
(* every create and update.                                                *)
(*                                                                         *)
(* A handler has three points at which other actors can run: its one SQL   *)
(* statement (auto-commit), the publish that follows, and the reply.  A    *)
(* request q is "new" until its statement has run, then in "publish", then *)
(* in "reply", then "done" with the status the client saw ("lost" when the *)
(* pod died first).  Listing changes nothing and is left out; what a task  *)
(* row holds apart from its owner is abstracted away, its text being       *)
(* whatever the last request wrote.                                        *)
(***************************************************************************)
EXTENDS JetStream

CONSTANTS
  TasksPods,  \* the pods of tasks-svc, of every environment
  MaxTasks,   \* bound: how many values of the BIGSERIAL id are drawn
  Users,      \* the subjects of valid tokens
  Unborn,     \* an id not drawn yet
  Deleted,    \* the id of a deleted row; a serial is never drawn again
  NoPod       \* no pod

TaskIds == 1..MaxTasks

ASSUME TasksAssumption ==
  /\ MaxTasks \in Nat
  /\ Unborn \notin Users
  /\ Deleted \notin Users
  /\ Unborn # Deleted
  /\ NoPod \notin TasksPods

VARIABLES
  podUp,      \* podUp[p]: New has returned, the server listens
  tasks,      \* table tasks: the owner of each id
  req,        \* progress of each request
  committed,  \* the creates and updates that are in the table (history)
  before,     \* before[q]: requests answered with success when q committed
  backlog,    \* backlog[p]: the messages that wait in the connection of p to NATS
  late        \* the requests whose message was put there and given up (history)

outVars   == <<backlog, late>>
tasksVars == <<podUp, tasks, req, committed, before, outVars>>

Steps    == {"new", "publish", "reply", "done"}
Statuses == {"none", "ok", "rejected", "notFound", "error", "lost"}

TasksTypeOK ==
  /\ podUp \in [TasksPods -> BOOLEAN]
  /\ tasks \in [TaskIds -> Users \cup {Unborn, Deleted}]
  /\ req \in [Requests -> [at : Steps, status : Statuses,
                           pod : TasksPods \cup {NoPod}]]
  /\ committed \subseteq Requests
  /\ before \in [Requests -> SUBSET Requests]
  /\ backlog \in [TasksPods -> Seq(Requests)]
  /\ late \subseteq Requests

TasksInit ==
  /\ podUp = [p \in TasksPods |-> FALSE]
  /\ tasks = [t \in TaskIds |-> Unborn]
  /\ req = [q \in Requests |-> [at |-> "new", status |-> "none", pod |-> NoPod]]
  /\ committed = {}
  /\ before = [q \in Requests |-> {}]
  /\ backlog = [p \in TasksPods |-> <<>>]
  /\ late = {}

Answered == {q \in Requests : req[q].status = "ok"}

\* The handler of q, run by pod p, returns with this status.
Return(q, p, status) ==
  req' = [req EXCEPT ![q] = [at |-> "done", status |-> status, pod |-> p]]

\* The handler of q goes on to publish.
ToPublish(q, p) ==
  req' = [req EXCEPT ![q] = [at |-> "publish", status |-> "none", pod |-> p]]

Arrives(q, p) == req[q].at = "new" /\ podUp[p]

(***************************************************************************)
(* New: the pool and the NATS connection are up, the stream is created.    *)
(* The error of AddStream is discarded, so the pod also starts without it. *)
(***************************************************************************)
StartTasksPod(p) ==
  /\ ~podUp[p]
  /\ podUp' = [podUp EXCEPT ![p] = TRUE]
  /\ \/ AddStream /\ NoFault
     \/ Fault("addStream") /\ UNCHANGED jsVars
  /\ UNCHANGED <<tasks, req, committed, before, outVars>>

\* authMW answers 401; a bad id or body, 400: nothing else happens.
Refuse(q, p) ==
  /\ Arrives(q, p)
  /\ Return(q, p, "rejected")
  /\ NoFault
  /\ UNCHANGED <<podUp, tasks, committed, before, outVars, jsVars>>

\* Mutant of WriteEvent: the error branch lacks its return.
WriteEvent_noReturn(q, p, newTasks) ==
  /\ \/ /\ NoFault
        /\ tasks' = newTasks
        /\ committed' = committed \cup {q}
     \/ /\ Fault("tasksDb")
        /\ UNCHANGED <<tasks, committed>>
  /\ ToPublish(q, p)
  /\ before' = [before EXCEPT ![q] = Answered]
  /\ UNCHANGED <<podUp, outVars, jsVars>>

(***************************************************************************)
(* How a write statement ends, for a create or an update that makes the    *)
(* table newTasks: it commits and the handler goes on; it fails and the    *)
(* client sees 500; or it commits but the connection is lost or the 15 s   *)
(* context ends first, so that the handler sees an error all the same.     *)
(***************************************************************************)
WriteEvent(q, p, newTasks) ==
  /\ \/ /\ NoFault
        /\ ToPublish(q, p)
        /\ tasks' = newTasks
        /\ committed' = committed \cup {q}
     \/ /\ Fault("tasksDb")
        /\ Return(q, p, "error")
        /\ UNCHANGED <<tasks, committed>>
     \/ /\ Fault("tasksDb")
        /\ Return(q, p, "error")
        /\ tasks' = newTasks
        /\ committed' = committed \cup {q}
  /\ before' = [before EXCEPT ![q] = Answered]
  /\ UNCHANGED <<podUp, outVars, jsVars>>

\* No row matches WHERE id AND user_id; or the statement fails.
NotFound(q, p) ==
  /\ \/ NoFault /\ Return(q, p, "notFound")
     \/ Fault("tasksDb") /\ Return(q, p, "error")
  /\ UNCHANGED <<podUp, tasks, committed, before, outVars, jsVars>>

createTask(q, p, u) ==
  /\ Arrives(q, p)
  /\ \E t \in TaskIds :
       /\ tasks[t] = Unborn
       /\ \A s \in TaskIds : s < t => tasks[s] # Unborn
       /\ WriteEvent(q, p, [tasks EXCEPT ![t] = u])

updateTask(q, p, u, t) ==
  /\ Arrives(q, p)
  /\ \/ tasks[t] = u /\ WriteEvent(q, p, tasks)
     \/ tasks[t] # u /\ NotFound(q, p)

\* A delete publishes nothing: a success answers 204 at once.
deleteTask(q, p, u, t) ==
  /\ Arrives(q, p)
  /\ \/ /\ tasks[t] = u
        /\ \/ /\ NoFault
              /\ Return(q, p, "ok")
              /\ tasks' = [tasks EXCEPT ![t] = Deleted]
           \/ /\ Fault("tasksDb")
              /\ Return(q, p, "error")
              /\ tasks' \in {tasks, [tasks EXCEPT ![t] = Deleted]}
        /\ UNCHANGED <<podUp, committed, before, outVars, jsVars>>
     \/ tasks[t] # u /\ NotFound(q, p)

\* Mutants of publish: an error is answered by publishing again; the publish
\* runs in a goroutine of its own, which the reply does not wait for.
publish_retry(q) ==
  /\ req[q].at = "publish"
  /\ podUp[req[q].pod]
  /\ \/ Store(q) /\ NoFault /\ req' = [req EXCEPT ![q].at = "reply"]
     \/ Fault("publish") /\ (Store(q) \/ UNCHANGED jsVars) /\ UNCHANGED req
  /\ UNCHANGED <<podUp, tasks, committed, before, outVars>>
publish_async(q) ==
  /\ \/ /\ req[q].at = "publish"
        /\ podUp[req[q].pod]
        /\ req' = [req EXCEPT ![q].at = "reply"]
        /\ UNCHANGED jsVars
     \/ /\ req[q].status = "ok" /\ q \in committed \ StreamedSet
        /\ Store(q)
        /\ UNCHANGED req
  /\ NoFault
  /\ UNCHANGED <<podUp, tasks, committed, before, outVars>>

(***************************************************************************)
(* publish: one synchronous attempt, whose error is discarded, so that the *)
(* handler answers with success whatever has become of the message.  It    *)
(* was stored, and the server's answer arrived or got lost; or it was not  *)
(* (no stream, a full buffer); or it waits in the buffer that nats.go      *)
(* keeps while it reconnects, and js.Publish has given up on it.  While    *)
(* that buffer holds a message, no other one overtakes it.                 *)
(***************************************************************************)
publish(q) ==
  LET p == req[q].pod
  IN /\ req[q].at = "publish"
     /\ podUp[p]
     /\ \/ /\ backlog[p] = <<>> /\ Store(q)
           /\ NoFault \/ Fault("publish")
           /\ UNCHANGED outVars
        \/ /\ UNCHANGED <<jsVars, outVars>>
           /\ (backlog[p] = <<>> /\ ~streamUp /\ NoFault) \/ Fault("publish")
        \/ /\ backlog' = [backlog EXCEPT ![p] = Append(@, q)]
           /\ late' = late \cup {q}
           /\ (backlog[p] # <<>> /\ NoFault) \/ Fault("publish")
           /\ UNCHANGED jsVars
     /\ req' = [req EXCEPT ![q].at = "reply"]
     /\ UNCHANGED <<podUp, tasks, committed, before>>

\* The connection of p is back: what it has buffered goes out, in order.
Flush(p) ==
  /\ podUp[p] /\ backlog[p] # <<>>
  /\ \/ Store(Head(backlog[p]))
     \/ ~streamUp /\ UNCHANGED jsVars
  /\ backlog' = [backlog EXCEPT ![p] = Tail(@)]
  /\ NoFault
  /\ UNCHANGED <<podUp, tasks, req, committed, before, late>>

reply(q) ==
  /\ req[q].at = "reply"
  /\ podUp[req[q].pod]
  /\ Return(q, req[q].pod, "ok")
  /\ NoFault
  /\ UNCHANGED <<podUp, tasks, committed, before, outVars, jsVars>>

\* A pod stops; the requests it was serving are never answered, and what its
\* connection has buffered is gone.
StopTasksPod(p) ==
  /\ podUp[p]
  /\ Fault("crash")
  /\ podUp' = [podUp EXCEPT ![p] = FALSE]
  /\ req' = [q \in Requests |->
               IF req[q].pod = p /\ req[q].at \in {"publish", "reply"}
                 THEN [req[q] EXCEPT !.at = "done", !.status = "lost"]
                 ELSE req[q]]
  /\ backlog' = [backlog EXCEPT ![p] = <<>>]
  /\ UNCHANGED <<tasks, committed, before, late, jsVars>>

TasksHandler(q) ==
  \/ \E p \in TasksPods : Refuse(q, p)
  \/ \E p \in TasksPods, u \in Users : createTask(q, p, u)
  \/ \E p \in TasksPods, u \in Users, t \in TaskIds :
       updateTask(q, p, u, t) \/ deleteTask(q, p, u, t)
  \/ publish(q)
  \/ reply(q)

TasksNext ==
  \/ \E p \in TasksPods : StartTasksPod(p) \/ StopTasksPod(p) \/ Flush(p)
  \/ \E q \in Requests : TasksHandler(q)
==============================================================================
