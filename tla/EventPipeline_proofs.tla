------------------------- MODULE EventPipeline_proofs -------------------------
(***************************************************************************)
(* Proofs about EventPipeline, for any number of pods, requests, browsers, *)
(* environments and failures.                                              *)
(*                                                                         *)
(* The inductive invariant has five parts: how far a request has come and  *)
(* what is in the table and in the stream (ReqInv); what waits in the      *)
(* buffer of a pod's connection (BacklogInv); where a Subscribe loop       *)
(* stands and what has happened to the message it works on (LoopInv); that *)
(* only stored messages are delivered (PendingInv); and that a browser is  *)
(* connected to a pod of its environment (ConnInv).                        *)
(***************************************************************************)
EXTENDS EventPipeline, TLAPS

Accounted(q) == q \in insertFailed \/ \E e \in Envs : rows[e][q] > 0

ReqInv ==
  \A q \in Requests :
    /\ req[q].at = "new" => q \notin committed
    /\ req[q].at = "publish" => q \in committed
    /\ req[q].at \in {"new", "publish"} => q \notin StreamedSet
    /\ req[q].at \in {"publish", "reply"} => req[q].pod \in TasksPods

\* A message that waits in the buffer of p: it was published by p, once, and is
\* not stored.
Waits(q, p) ==
  /\ q \in committed /\ q \in late /\ q \notin StreamedSet
  /\ req[q].pod = p /\ req[q].at \in {"reply", "done"}

BacklogInv ==
  \A p \in TasksPods :
    /\ \A i \in 1..Len(backlog[p]) : Waits(backlog[p][i], p)
    /\ \A i, j \in 1..Len(backlog[p]) : backlog[p][i] = backlog[p][j] => i = j

LoopInv ==
  \A r \in NotifierPods :
    /\ pc[r] \in {"insert", "fanout", "ack"} => batch[r] # <<>>
    /\ pc[r] = "fanout" => rows[EnvOf[r]][Current(r)] > 0
    /\ pc[r] = "ack" => Accounted(Current(r))
    /\ \A i \in 1..Len(batch[r]) : batch[r][i] \in StreamedSet

PendingInv == pending \subseteq StreamedSet

ConnInv == \A c \in Clients : conn[c] # NoReplica => EnvOf[conn[c]] = ClientEnv[c]

IInv ==
  /\ TypeOK
  /\ ReqInv /\ BacklogInv /\ PublishedAreCommitted /\ PublishedOnce
  /\ PendingInv /\ LoopInv /\ ConnInv
  /\ ShownArePersisted /\ AckedAreAccounted

-----------------------------------------------------------------------------
(***************************************************************************)
(* What one step can do to the server and to the failure budget.           *)
(***************************************************************************)
ServerStep ==
  \/ UNCHANGED jsVars
  \/ AddStream
  \/ \E q \in Requests : Store(q) \/ HandOut(q) \/ TakeAck(q) \/ AckWaitOver(q)

BudgetStep == NoFault \/ \E k \in FaultKinds : Fault(k)

\* Storing a message adds it to the stored ones.
LEMMA StoreAdds ==
  ASSUME stream \in Seq(Requests), NEW q \in Requests, Store(q)
  PROVE  StreamedSet' = StreamedSet \cup {q}
<1>1. stream' = Append(stream, q)
  BY DEF Store
<1>2. Len(stream') = Len(stream) + 1 /\ stream'[Len(stream) + 1] = q
  BY <1>1
<1>3. \A i \in 1..Len(stream) : stream'[i] = stream[i]
  BY <1>1
<1>4. Len(stream) \in Nat
  OBVIOUS
<1> QED
  BY <1>2, <1>3, <1>4 DEF StreamedSet

\* The message a loop works on is one of its batch.
LEMMA HeadInBatch ==
  ASSUME NotifierTypeOK, NEW r \in NotifierPods, batch[r] # <<>>
  PROVE  /\ Current(r) \in Requests
         /\ Current(r) = batch[r][1]
         /\ Len(batch[r]) \in Nat \ {0}
  BY DEF NotifierTypeOK, Current

\* The operations of the server, and the failures, respect the types.
LEMMA ServerTypes ==
  ASSUME JSTypeOK, ServerStep, BudgetStep
  PROVE  JSTypeOK'
<1>1. budget' \in 0..MaxFaults
  BY FaultAssumption DEF JSTypeOK, BudgetStep, NoFault, Fault
<1>2. CASE UNCHANGED jsVars
  BY <1>1, <1>2 DEF JSTypeOK, jsVars
<1>3. CASE AddStream
  BY <1>1, <1>3 DEF JSTypeOK, AddStream
<1>4. ASSUME NEW q \in Requests, Store(q) PROVE JSTypeOK'
  BY <1>1, <1>4 DEF JSTypeOK, Store
<1>5. ASSUME NEW q \in Requests, HandOut(q) PROVE JSTypeOK'
  BY <1>1, <1>5 DEF JSTypeOK, HandOut
<1>6. ASSUME NEW q \in Requests, TakeAck(q) PROVE JSTypeOK'
  BY <1>1, <1>6 DEF JSTypeOK, TakeAck
<1>7. ASSUME NEW q \in Requests, AckWaitOver(q) PROVE JSTypeOK'
  BY <1>1, <1>7 DEF JSTypeOK, AckWaitOver
<1> QED
  BY <1>2, <1>3, <1>4, <1>5, <1>6, <1>7 DEF ServerStep

\* Every step is one of the server's operations and spends at most one failure.
LEMMA EveryStep ==
  ASSUME TypeOK, LoopInv, Next
  PROVE  ServerStep /\ BudgetStep
<1>1. ASSUME NEW p \in TasksPods, StartTasksPod(p) PROVE ServerStep /\ BudgetStep
  BY <1>1 DEF StartTasksPod, ServerStep, BudgetStep, Fault
<1>2. ASSUME NEW p \in TasksPods, StopTasksPod(p) PROVE ServerStep /\ BudgetStep
  BY <1>2 DEF StopTasksPod, ServerStep, BudgetStep, Fault
<1>7. ASSUME NEW p \in TasksPods, Flush(p) PROVE ServerStep /\ BudgetStep
  <2>1. Head(backlog[p]) \in Requests
    BY <1>7 DEF Flush, TypeOK, TasksTypeOK
  <2> QED
    BY <1>7, <2>1 DEF Flush, ServerStep, BudgetStep
<1>3. ASSUME NEW q \in Requests, TasksHandler(q) PROVE ServerStep /\ BudgetStep
  BY <1>3 DEF TasksHandler, Refuse, createTask, updateTask, deleteTask, publish, reply,
              WriteEvent, NotFound, ServerStep, BudgetStep, Fault
<1>4. ASSUME NEW r \in NotifierPods, Consume(r) \/ StopNotifier(r)
      PROVE  ServerStep /\ BudgetStep
  <2>1. CASE Ack(r)
    <3>1. Current(r) \in Requests
      BY <2>1, HeadInBatch DEF Ack, LoopInv, TypeOK
    <3> QED
      BY <2>1, <3>1 DEF Ack, ServerStep, BudgetStep, Fault
  <2> QED
    BY <1>4, <2>1
    DEF Consume, StopNotifier, StartNotifier, Subscribe, Deliver, FetchReturns, Insert,
        fanout, ServerStep, BudgetStep, Fault
<1>5. ASSUME NEW q \in Requests, Redeliver(q) PROVE ServerStep /\ BudgetStep
  BY <1>5 DEF Redeliver, ServerStep, BudgetStep, Fault
<1>6. ASSUME NEW c \in Clients,
             WriteEventTo(c) \/ Disconnect(c) \/ \E r \in NotifierPods : Connect(c, r)
      PROVE  ServerStep /\ BudgetStep
  BY <1>6 DEF WriteEventTo, Disconnect, Connect, ServerStep, BudgetStep
<1> QED
  BY <1>1, <1>2, <1>3, <1>4, <1>5, <1>6, <1>7 DEF Next, TasksNext, NotifierNext

-----------------------------------------------------------------------------
(***************************************************************************)
(* tasks-svc.                                                              *)
(***************************************************************************)
\* Moving one request on, to a well-formed state, keeps req well-formed.
LEMMA RequestMoves ==
  ASSUME TasksTypeOK, NEW q \in Requests, NEW p \in TasksPods,
         NEW status \in Statuses, Return(q, p, status) \/ ToPublish(q, p)
  PROVE  /\ req' \in [Requests -> [at : Steps, status : Statuses,
                                   pod : TasksPods \cup {NoPod}]]
         /\ \A x \in Requests \ {q} : req'[x] = req[x]
         /\ req'[q].at \in {"publish", "done"} /\ req'[q].pod = p
<1>1. PICK at \in {"publish", "done"}, s \in Statuses :
        req' = [req EXCEPT ![q] = [at |-> at, status |-> s, pod |-> p]]
  BY DEF Return, ToPublish, Statuses
<1>2. [at |-> at, status |-> s, pod |-> p] \in [at : Steps, status : Statuses, pod : TasksPods \cup {NoPod}]
  BY DEF Steps
<1> QED
  BY <1>1, <1>2 DEF TasksTypeOK

\* How a write ends: the table has a value it may have, and whatever the
\* request does next, it is not "new"; it publishes only if it has committed.
LEMMA WriteEnds ==
  ASSUME TasksTypeOK, NEW q \in Requests, NEW p \in TasksPods,
         NEW newTasks \in [TaskIds -> Users \cup {Unborn, Deleted}],
         WriteEvent(q, p, newTasks)
  PROVE  /\ TasksTypeOK'
         /\ UNCHANGED <<jsVars, outVars>>
         /\ \A x \in Requests \ {q} : req'[x] = req[x]
         /\ req'[q].at = "publish" => q \in committed'
         /\ req'[q].at \in {"publish", "done"} /\ req'[q].pod = p
         /\ committed \subseteq committed' /\ committed' \subseteq committed \cup {q}
<1>1. before' \in [Requests -> SUBSET Requests]
  BY DEF WriteEvent, TasksTypeOK, Answered
<1>2. Return(q, p, "error") \/ ToPublish(q, p)
  BY DEF WriteEvent
<1>3. /\ req' \in [Requests -> [at : Steps, status : Statuses,
                                pod : TasksPods \cup {NoPod}]]
      /\ \A x \in Requests \ {q} : req'[x] = req[x]
      /\ req'[q].at \in {"publish", "done"} /\ req'[q].pod = p
  BY <1>2, RequestMoves DEF Statuses
<1>4. Return(q, p, "error") => req'[q].at = "done"
  BY DEF Return, TasksTypeOK
<1> QED
  BY <1>1, <1>3, <1>4 DEF WriteEvent, TasksTypeOK, outVars

\* The request side of the invariant, kept by every step of tasks-svc.
TasksInv == TasksTypeOK /\ ReqInv /\ BacklogInv /\ PublishedAreCommitted /\ PublishedOnce

\* A step that leaves the server alone and moves one request on from "new".
LEMMA LeavesNew ==
  ASSUME TasksInv, NEW q \in Requests, req[q].at = "new", UNCHANGED <<jsVars, outVars>>,
         TasksTypeOK',
         \A x \in Requests \ {q} : req'[x] = req[x],
         req'[q].at = "publish" => q \in committed',
         req'[q].at \in {"publish", "done"}, req'[q].pod \in TasksPods,
         committed \subseteq committed', committed' \subseteq committed \cup {q}
  PROVE  TasksInv'
<1>1. StreamedSet' = StreamedSet
  BY DEF StreamedSet, jsVars
<1>2. ReqInv'
  BY <1>1 DEF ReqInv, TasksInv
<1>3. PublishedAreCommitted' /\ PublishedOnce'
  BY <1>1 DEF TasksInv, PublishedAreCommitted, PublishedOnce, jsVars
<1>4. BacklogInv'
  <2>1. \A x \in Requests, p \in TasksPods : Waits(x, p) => Waits(x, p)'
    <3> SUFFICES ASSUME NEW x \in Requests, NEW p \in TasksPods, Waits(x, p)
                 PROVE  Waits(x, p)'
      OBVIOUS
    <3>1. x # q
      BY DEF Waits
    <3> QED
      BY <1>1, <3>1 DEF Waits, outVars
  <2>2. \A p \in TasksPods : \A i \in 1..Len(backlog[p]) : backlog[p][i] \in Requests
    BY DEF TasksInv, TasksTypeOK
  <2> QED
    BY <2>1, <2>2 DEF BacklogInv, TasksInv, outVars
<1> QED
  BY <1>2, <1>3, <1>4 DEF TasksInv

LEMMA Returns ==
  ASSUME TasksInv, TasksTypeOK', NEW q \in Requests, NEW p \in TasksPods,
         NEW status \in Statuses, req[q].at = "new", Return(q, p, status),
         UNCHANGED <<committed, outVars, jsVars>>
  PROVE  TasksInv'
<1>1. /\ \A x \in Requests \ {q} : req'[x] = req[x]
      /\ req'[q].at = "done" /\ req'[q].pod = p
  BY DEF Return, TasksInv, TasksTypeOK
<1> QED
  BY <1>1, LeavesNew

\* While the buffers stay as they are, and the requests go on on their pods.
LEMMA RequestsGoOn ==
  ASSUME TasksTypeOK, BacklogInv, UNCHANGED <<StreamedSet, committed, late, backlog>>,
         \A x \in Requests : req[x].at \in {"reply", "done"} =>
           req'[x].at \in {"reply", "done"} /\ req'[x].pod = req[x].pod
  PROVE  BacklogInv'
<1>1. \A x \in Requests, p \in TasksPods : Waits(x, p) => Waits(x, p)'
  BY DEF Waits
<1>2. \A p \in TasksPods : \A i \in 1..Len(backlog[p]) : backlog[p][i] \in Requests
  BY DEF TasksTypeOK
<1> QED
  BY <1>1, <1>2 DEF BacklogInv

LEMMA PublishKeeps ==
  ASSUME TasksInv, JSTypeOK, NEW q \in Requests, publish(q)
  PROVE  TasksInv'
<1>1. PICK p \in TasksPods :
        /\ p = req[q].pod /\ req'[q].at = "reply" /\ req'[q].pod = p
        /\ \A x \in Requests \ {q} : req'[x] = req[x]
        /\ req' \in [Requests -> [at : Steps, status : Statuses, pod : TasksPods \cup {NoPod}]]
        /\ UNCHANGED <<podUp, tasks, committed, before>>
        /\ q \in committed /\ q \notin StreamedSet /\ req[q].at = "publish"
  <2>1. req[q].pod \in TasksPods /\ q \in committed /\ q \notin StreamedSet /\ req[q].at = "publish"
    BY DEF publish, TasksInv, ReqInv
  <2>2. req' = [req EXCEPT ![q].at = "reply"] /\ UNCHANGED <<podUp, tasks, committed, before>>
    BY DEF publish
  <2>3. /\ req'[q].at = "reply" /\ req'[q].pod = req[q].pod
        /\ \A x \in Requests \ {q} : req'[x] = req[x]
        /\ req' \in [Requests -> [at : Steps, status : Statuses, pod : TasksPods \cup {NoPod}]]
    BY <2>2 DEF TasksInv, TasksTypeOK, Steps
  <2> QED
    BY <2>1, <2>2, <2>3
<1>2. \A r \in TasksPods : /\ backlog[r] \in Seq(Requests) /\ Len(backlog[r]) \in Nat
                          /\ \A i \in 1..Len(backlog[r]) : backlog[r][i] # q
  <2>1. \A r \in TasksPods : ~Waits(q, r)
    BY <1>1 DEF Waits
  <2> QED
    BY <2>1 DEF TasksInv, TasksTypeOK, BacklogInv
<1>3. CASE Store(q) /\ UNCHANGED outVars
  <2>1. StreamedSet' = StreamedSet \cup {q}
    BY <1>3, StoreAdds DEF JSTypeOK
  <2>2. PublishedOnce'
    <3>1. stream' = Append(stream, q) /\ stream \in Seq(Requests)
      BY <1>3 DEF Store, JSTypeOK
    <3>2. \A i \in 1..Len(stream) : stream[i] # q
      BY <1>1 DEF StreamedSet
    <3> QED
      BY <3>1, <3>2 DEF PublishedOnce, TasksInv
  <2>3. BacklogInv'
    <3>1. \A x \in Requests \ {q}, r \in TasksPods : Waits(x, r) => Waits(x, r)'
      BY <1>1, <1>3, <2>1 DEF Waits, outVars
    <3>2. \A r \in TasksPods : \A i \in 1..Len(backlog[r]) : backlog[r][i] \in Requests \ {q}
      BY <1>2
    <3> QED
      BY <1>3, <3>1, <3>2 DEF BacklogInv, TasksInv, outVars
  <2>4. TasksTypeOK'
    BY <1>1, <1>3 DEF TasksInv, TasksTypeOK, outVars
  <2> QED
    BY <1>1, <2>1, <2>2, <2>3, <2>4 DEF TasksInv, ReqInv, PublishedAreCommitted
<1>4. ASSUME UNCHANGED jsVars
      PROVE  /\ ReqInv' /\ PublishedAreCommitted' /\ PublishedOnce'
             /\ StreamedSet' = StreamedSet
  <2>1. StreamedSet' = StreamedSet
    BY <1>4 DEF StreamedSet, jsVars
  <2> QED
    BY <1>1, <1>4, <2>1 DEF TasksInv, ReqInv, PublishedAreCommitted, PublishedOnce, jsVars
<1>5. CASE UNCHANGED <<jsVars, outVars>>
  <2>1. TasksTypeOK'
    BY <1>1, <1>5 DEF TasksInv, TasksTypeOK, outVars
  <2>2. BacklogInv'
    BY <1>1, <1>4, <1>5, RequestsGoOn DEF TasksInv, outVars
  <2> QED
    BY <1>4, <1>5, <2>1, <2>2 DEF TasksInv
<1>6. CASE /\ backlog' = [backlog EXCEPT ![p] = Append(@, q)] /\ late' = late \cup {q}
           /\ UNCHANGED jsVars
  <2>1. /\ backlog' \in [TasksPods -> Seq(Requests)]
        /\ \A r \in TasksPods \ {p} : backlog'[r] = backlog[r]
        /\ backlog'[p] = Append(backlog[p], q)
    BY <1>1, <1>2, <1>6 DEF TasksInv, TasksTypeOK
  <2>2. TasksTypeOK'
    BY <1>1, <1>6, <2>1 DEF TasksInv, TasksTypeOK
  <2>3. \A x \in Requests, r \in TasksPods : Waits(x, r) => Waits(x, r)'
    BY <1>1, <1>4, <1>6 DEF Waits
  <2>4. Waits(q, p)'
    BY <1>1, <1>4, <1>6 DEF Waits
  <2>5. /\ Len(backlog'[p]) = Len(backlog[p]) + 1 /\ backlog'[p][Len(backlog[p]) + 1] = q
        /\ \A i \in 1..Len(backlog[p]) : backlog'[p][i] = backlog[p][i] /\ backlog[p][i] \in Requests
    BY <1>1, <1>2, <2>1
  <2>6. ASSUME NEW r \in TasksPods
        PROVE  (/\ \A i \in 1..Len(backlog[r]) : Waits(backlog[r][i], r)
                /\ \A i, j \in 1..Len(backlog[r]) : backlog[r][i] = backlog[r][j] => i = j)'
    <3>1. /\ \A i \in 1..Len(backlog[r]) : Waits(backlog[r][i], r) /\ backlog[r][i] \in Requests
          /\ \A i, j \in 1..Len(backlog[r]) : backlog[r][i] = backlog[r][j] => i = j
      BY <1>2 DEF TasksInv, BacklogInv
    <3>2. CASE r # p
      BY <2>1, <2>3, <3>1, <3>2
    <3>3. CASE r = p
      <4>1. \A i \in 1..Len(backlog'[p]) : i \in 1..Len(backlog[p]) \/ i = Len(backlog[p]) + 1
        BY <1>1, <1>2, <2>5
      <4>2. \A i \in 1..Len(backlog[p]) : backlog'[p][i] # q
        BY <1>1, <1>2, <2>5
      <4> QED
        <5>1. ASSUME NEW i \in 1..Len(backlog'[p]) PROVE Waits(backlog[p][i], p)'
          <6>1. CASE i \in 1..Len(backlog[p])
            BY <1>1, <2>3, <2>5, <3>1, <3>3, <6>1
          <6>2. CASE i = Len(backlog[p]) + 1
            BY <2>4, <2>5, <6>2
          <6> QED
            BY <4>1, <6>1, <6>2
        <5>2. ASSUME NEW i \in 1..Len(backlog'[p]), NEW j \in 1..Len(backlog'[p]),
                     backlog'[p][i] = backlog'[p][j]
              PROVE  i = j
          <6>1. CASE i \in 1..Len(backlog[p]) /\ j \in 1..Len(backlog[p])
            BY <2>5, <3>1, <3>3, <5>2, <6>1
          <6> QED
            BY <2>5, <4>1, <4>2, <5>2, <6>1
        <5> QED
          BY <3>3, <5>1, <5>2
    <3> QED
      BY <3>2, <3>3
  <2>7. BacklogInv'
    BY <2>6 DEF BacklogInv
  <2> QED
    BY <1>4, <1>6, <2>2, <2>7 DEF TasksInv
<1> QED
  BY <1>1, <1>3, <1>5, <1>6 DEF publish

\* What waits in the buffer of p when its first message has left it.
LEMMA BacklogShrinks ==
  ASSUME TasksTypeOK, NEW p \in TasksPods, backlog[p] # <<>>,
         backlog' = [backlog EXCEPT ![p] = Tail(@)]
  PROVE  /\ backlog' \in [TasksPods -> Seq(Requests)]
         /\ \A r \in TasksPods \ {p} : backlog'[r] = backlog[r]
         /\ Len(backlog[p]) \in Nat \ {0} /\ Head(backlog[p]) = backlog[p][1]
         /\ backlog[p][1] \in Requests
         /\ Len(backlog'[p]) = Len(backlog[p]) - 1
         /\ \A i \in 1..Len(backlog'[p]) : i + 1 \in 1..Len(backlog[p])
                                           /\ backlog'[p][i] = backlog[p][i + 1]
<1>1. backlog[p] \in Seq(Requests) /\ backlog'[p] = Tail(backlog[p])
      /\ \A r \in TasksPods \ {p} : backlog'[r] = backlog[r]
  BY DEF TasksTypeOK
<1> DEFINE b == backlog[p]
<1>2. /\ Tail(b) \in Seq(Requests) /\ Len(Tail(b)) = Len(b) - 1 /\ Len(b) \in Nat \ {0}
      /\ Head(b) = b[1] /\ b[1] \in Requests
      /\ \A i \in 1..(Len(b) - 1) : Tail(b)[i] = b[i + 1]
  BY <1>1
<1>3. backlog' \in [TasksPods -> Seq(Requests)]
  BY <1>1, <1>2 DEF TasksTypeOK
<1> QED
  BY <1>1, <1>2, <1>3

LEMMA FlushKeeps ==
  ASSUME TasksInv, JSTypeOK, NEW p \in TasksPods, Flush(p)
  PROVE  TasksInv'
<1> DEFINE q == backlog[p][1]
<1>1. UNCHANGED <<podUp, tasks, req, committed, before, late>>
  BY DEF Flush
<1>2. /\ backlog' \in [TasksPods -> Seq(Requests)]
      /\ \A r \in TasksPods \ {p} : backlog'[r] = backlog[r]
      /\ Len(backlog[p]) \in Nat \ {0} /\ Head(backlog[p]) = q /\ q \in Requests
      /\ Len(backlog'[p]) = Len(backlog[p]) - 1
      /\ \A i \in 1..Len(backlog'[p]) : i + 1 \in 1..Len(backlog[p])
                                        /\ backlog'[p][i] = backlog[p][i + 1]
  BY BacklogShrinks DEF Flush, TasksInv
<1>3. TasksTypeOK'
  BY <1>1, <1>2 DEF TasksInv, TasksTypeOK
<1>4. \A r \in TasksPods : /\ backlog[r] \in Seq(Requests) /\ Len(backlog[r]) \in Nat
                          /\ \A i \in 1..Len(backlog[r]) : backlog[r][i] \in Requests
  BY DEF TasksInv, TasksTypeOK
<1>5. Waits(q, p)
  BY <1>2 DEF TasksInv, BacklogInv
<1>6. \A r \in TasksPods : \A i \in 1..Len(backlog'[r]) :
        /\ Waits(backlog'[r][i], r) /\ backlog'[r][i] \in Requests /\ backlog'[r][i] # q
  <2> SUFFICES ASSUME NEW r \in TasksPods, NEW i \in 1..Len(backlog'[r])
               PROVE  /\ Waits(backlog'[r][i], r) /\ backlog'[r][i] \in Requests
                      /\ backlog'[r][i] # q
    OBVIOUS
  <2>1. CASE r = p
    <3>1. i + 1 \in 1..Len(backlog[p]) /\ backlog'[p][i] = backlog[p][i + 1] /\ i + 1 # 1
          /\ 1 \in 1..Len(backlog[p])
      BY <1>2, <2>1
    <3> QED
      BY <1>4, <2>1, <3>1 DEF TasksInv, BacklogInv
  <2>2. CASE r # p
    <3>1. backlog'[r] = backlog[r] /\ Waits(backlog[r][i], r)
      BY <1>2, <2>2 DEF TasksInv, BacklogInv
    <3> QED
      BY <1>4, <1>5, <2>2, <3>1 DEF Waits
  <2> QED
    BY <2>1, <2>2
<1>7. \A r \in TasksPods : \A i, j \in 1..Len(backlog'[r]) :
        backlog'[r][i] = backlog'[r][j] => i = j
  <2> SUFFICES ASSUME NEW r \in TasksPods, NEW i \in 1..Len(backlog'[r]),
                      NEW j \in 1..Len(backlog'[r]), backlog'[r][i] = backlog'[r][j]
               PROVE  i = j
    OBVIOUS
  <2>1. CASE r = p
    <3>1. i + 1 \in 1..Len(backlog[p]) /\ j + 1 \in 1..Len(backlog[p])
          /\ backlog[p][i + 1] = backlog[p][j + 1] /\ i \in Nat /\ j \in Nat
      BY <1>2, <2>1
    <3>2. i + 1 = j + 1
      BY <3>1 DEF TasksInv, BacklogInv
    <3> QED
      BY <3>1, <3>2
  <2>2. CASE r # p
    BY <1>2, <2>2 DEF TasksInv, BacklogInv
  <2> QED
    BY <2>1, <2>2
<1>8. CASE Store(q)
  <2>1. StreamedSet' = StreamedSet \cup {q}
    BY <1>2, <1>8, StoreAdds DEF JSTypeOK
  <2>2. PublishedOnce'
    <3>1. stream' = Append(stream, q) /\ stream \in Seq(Requests) /\ q \in Requests
      BY <1>2, <1>8 DEF Store, JSTypeOK
    <3>2. \A i \in 1..Len(stream) : stream[i] # q
      BY <1>5 DEF StreamedSet, Waits
    <3> HIDE DEF q
    <3> QED
      BY <3>1, <3>2 DEF PublishedOnce, TasksInv
  <2>3. BacklogInv'
    <3>1. \A x, r : Waits(x, r) /\ x # q => Waits(x, r)'
      BY <1>1, <2>1 DEF Waits
    <3> QED
      BY <1>6, <1>7, <3>1 DEF BacklogInv
  <2>4. ReqInv' /\ PublishedAreCommitted'
    BY <1>1, <1>5, <2>1 DEF TasksInv, ReqInv, PublishedAreCommitted, Waits
  <2> QED
    BY <1>3, <2>2, <2>3, <2>4 DEF TasksInv
<1>9. CASE UNCHANGED jsVars
  <2>1. StreamedSet' = StreamedSet /\ stream' = stream
    BY <1>9 DEF StreamedSet, jsVars
  <2>2. BacklogInv'
    <3>1. \A x, r : Waits(x, r) => Waits(x, r)'
      BY <1>1, <2>1 DEF Waits
    <3> QED
      BY <1>6, <1>7, <3>1 DEF BacklogInv
  <2> QED
    BY <1>1, <1>3, <2>1, <2>2
    DEF TasksInv, ReqInv, PublishedAreCommitted, PublishedOnce
<1> QED
  BY <1>2, <1>8, <1>9 DEF Flush

LEMMA HandlerKeepsTasksInv ==
  ASSUME TasksInv, JSTypeOK, NEW q \in Requests, TasksHandler(q)
  PROVE  TasksInv'
<1>1. ASSUME NEW p \in TasksPods, Refuse(q, p) PROVE TasksInv'
  <2>1. TasksTypeOK'
    BY <1>1, RequestMoves DEF Refuse, TasksInv, TasksTypeOK, Statuses, outVars
  <2> QED
    BY <1>1, <2>1, Returns DEF Refuse, Arrives, Statuses
<1>2. ASSUME NEW p \in TasksPods, NEW u \in Users, createTask(q, p, u)
      PROVE  TasksInv'
  <2>1. PICK t \in TaskIds : WriteEvent(q, p, [tasks EXCEPT ![t] = u])
    BY <1>2 DEF createTask
  <2>2. [tasks EXCEPT ![t] = u] \in [TaskIds -> Users \cup {Unborn, Deleted}]
    BY DEF TasksInv, TasksTypeOK
  <2> QED
    BY <1>2, <2>1, <2>2, WriteEnds, LeavesNew DEF createTask, Arrives, TasksInv
<1>3. ASSUME NEW p \in TasksPods, NEW u \in Users, NEW t \in TaskIds,
             updateTask(q, p, u, t)
      PROVE  TasksInv'
  <2>1. CASE WriteEvent(q, p, tasks)
    <3>1. tasks \in [TaskIds -> Users \cup {Unborn, Deleted}]
      BY DEF TasksInv, TasksTypeOK
    <3> QED
      BY <1>3, <2>1, <3>1, WriteEnds, LeavesNew DEF updateTask, Arrives, TasksInv
  <2>2. CASE NotFound(q, p)
    <3>1. /\ \E status \in Statuses : Return(q, p, status)
          /\ UNCHANGED <<podUp, tasks, committed, before, outVars, jsVars>>
      BY <2>2 DEF NotFound, Statuses
    <3>2. TasksTypeOK'
      BY <3>1, RequestMoves DEF TasksInv, TasksTypeOK, outVars
    <3>3. req[q].at = "new"
      BY <1>3 DEF updateTask, Arrives
    <3> QED
      BY <3>1, <3>2, <3>3, Returns
  <2> QED
    BY <1>3, <2>1, <2>2 DEF updateTask
<1>4. ASSUME NEW p \in TasksPods, NEW u \in Users, NEW t \in TaskIds,
             deleteTask(q, p, u, t)
      PROVE  TasksInv'
  <2>1. /\ \E status \in Statuses : Return(q, p, status)
        /\ UNCHANGED <<podUp, committed, before, outVars, jsVars>>
    BY <1>4 DEF deleteTask, NotFound, Statuses
  <2>2. tasks' \in [TaskIds -> Users \cup {Unborn, Deleted}]
    BY <1>4 DEF deleteTask, NotFound, TasksInv, TasksTypeOK
  <2>3. TasksTypeOK'
    BY <2>1, <2>2, RequestMoves DEF TasksInv, TasksTypeOK, outVars
  <2> QED
    BY <1>4, <2>1, <2>3, Returns DEF deleteTask, Arrives
<1>5. CASE publish(q)
  BY <1>5, PublishKeeps
<1>6. CASE reply(q)
  <2>1. TasksTypeOK'
    BY <1>6 DEF reply, Return, TasksInv, TasksTypeOK, Steps, Statuses, outVars
  <2>2. UNCHANGED <<StreamedSet, committed, stream, late, backlog>>
    BY <1>6 DEF reply, StreamedSet, jsVars, outVars
  <2>3. /\ req'[q].at = "done" /\ req'[q].pod = req[q].pod
        /\ \A x \in Requests \ {q} : req'[x] = req[x]
    BY <1>6 DEF reply, Return, TasksInv, TasksTypeOK
  <2>4. ReqInv' /\ PublishedAreCommitted' /\ PublishedOnce'
    BY <2>2, <2>3 DEF TasksInv, ReqInv, PublishedAreCommitted, PublishedOnce
  <2>5. BacklogInv'
    BY <2>2, <2>3, RequestsGoOn DEF TasksInv
  <2> QED
    BY <2>1, <2>4, <2>5 DEF TasksInv
<1> QED
  BY <1>1, <1>2, <1>3, <1>4, <1>5, <1>6 DEF TasksHandler

\* Of the server's operations, tasks-svc uses AddStream and Store only.
LEMMA TasksLeaveAcks ==
  ASSUME TasksNext
  PROVE  acked' = acked
<1>1. ASSUME NEW p \in TasksPods, StartTasksPod(p) \/ StopTasksPod(p) PROVE acked' = acked
  BY <1>1 DEF StartTasksPod, StopTasksPod, AddStream, jsVars
<1>3. ASSUME NEW p \in TasksPods, Flush(p) PROVE acked' = acked
  BY <1>3 DEF Flush, Store, jsVars
<1>2. ASSUME NEW q \in Requests, TasksHandler(q) PROVE acked' = acked
  <2>1. CASE publish(q) \/ reply(q)
    BY <2>1 DEF publish, reply, Store, jsVars
  <2>2. ASSUME NEW p \in TasksPods, Refuse(q, p) PROVE acked' = acked
    BY <2>2 DEF Refuse, jsVars
  <2>3. ASSUME NEW p \in TasksPods, NEW u \in Users, createTask(q, p, u)
        PROVE  acked' = acked
    BY <2>3 DEF createTask, WriteEvent, jsVars
  <2>4. ASSUME NEW p \in TasksPods, NEW u \in Users, NEW t \in TaskIds,
               updateTask(q, p, u, t) \/ deleteTask(q, p, u, t)
        PROVE  acked' = acked
    BY <2>4 DEF updateTask, deleteTask, WriteEvent, NotFound, jsVars
  <2> QED
    BY <1>2, <2>1, <2>2, <2>3, <2>4 DEF TasksHandler
<1> QED
  BY <1>1, <1>2, <1>3 DEF TasksNext

LEMMA TasksKeepTasksInv ==
  ASSUME TasksInv, JSTypeOK, TasksNext
  PROVE  TasksInv'
<1>1. ASSUME NEW p \in TasksPods, StartTasksPod(p) PROVE TasksInv'
  <2>1. UNCHANGED <<StreamedSet, stream, committed, late, backlog, req>>
    BY <1>1 DEF StartTasksPod, AddStream, StreamedSet, jsVars, outVars
  <2>2. TasksTypeOK'
    BY <1>1 DEF StartTasksPod, TasksInv, TasksTypeOK, outVars
  <2>3. BacklogInv'
    BY <2>1, RequestsGoOn DEF TasksInv
  <2> QED
    BY <2>1, <2>2, <2>3 DEF TasksInv, ReqInv, PublishedAreCommitted, PublishedOnce
<1>2. ASSUME NEW p \in TasksPods, StopTasksPod(p) PROVE TasksInv'
  <2>1. UNCHANGED <<StreamedSet, stream, committed, late>>
    BY <1>2 DEF StopTasksPod, StreamedSet, jsVars
  <2>2. TasksTypeOK'
    <3>0. /\ backlog \in [TasksPods -> Seq(Requests)]
          /\ req \in [Requests -> [at : Steps, status : Statuses, pod : TasksPods \cup {NoPod}]]
          /\ backlog' = [backlog EXCEPT ![p] = <<>>]
          /\ req' = [q \in Requests |->
                       IF req[q].pod = p /\ req[q].at \in {"publish", "reply"}
                         THEN [req[q] EXCEPT !.at = "done", !.status = "lost"]
                         ELSE req[q]]
      BY <1>2 DEF StopTasksPod, TasksInv, TasksTypeOK
    <3>1. backlog' \in [TasksPods -> Seq(Requests)]
      <4>1. <<>> \in Seq(Requests)
        OBVIOUS
      <4> QED
        BY <3>0, <4>1
    <3>2. req' \in [Requests -> [at : Steps, status : Statuses, pod : TasksPods \cup {NoPod}]]
      <4>1. \A q \in Requests :
              req'[q] \in [at : Steps, status : Statuses, pod : TasksPods \cup {NoPod}]
        BY <3>0 DEF Steps, Statuses
      <4> QED
        BY <3>0, <4>1
    <3> QED
      BY <1>2, <3>1, <3>2 DEF StopTasksPod, TasksInv, TasksTypeOK
  <2>3. \A q \in Requests :
          req'[q].pod = req[q].pod /\ (req'[q].at = req[q].at \/ req'[q].at = "done")
    BY <1>2 DEF StopTasksPod, TasksInv, TasksTypeOK
  <2>4. BacklogInv'
    <3>1. /\ \A r \in TasksPods \ {p} : backlog'[r] = backlog[r]
          /\ backlog'[p] = <<>>
      BY <1>2 DEF StopTasksPod, TasksInv, TasksTypeOK
    <3>2. \A x \in Requests, r \in TasksPods : Waits(x, r) => Waits(x, r)'
      BY <2>1, <2>3 DEF Waits
    <3>3. \A r \in TasksPods : \A i \in 1..Len(backlog[r]) : backlog[r][i] \in Requests
      BY DEF TasksInv, TasksTypeOK
    <3> QED
      BY <3>1, <3>2, <3>3 DEF BacklogInv, TasksInv
  <2> QED
    BY <2>1, <2>2, <2>3, <2>4 DEF TasksInv, ReqInv, PublishedAreCommitted, PublishedOnce
<1> QED
  BY <1>1, <1>2, FlushKeeps, HandlerKeepsTasksInv DEF TasksNext

-----------------------------------------------------------------------------
(***************************************************************************)
(* notifier-svc.                                                           *)
(***************************************************************************)
ServerInv == JSTypeOK /\ PendingInv

NotifierInv ==
  /\ NotifierTypeOK
  /\ LoopInv /\ ConnInv
  /\ ShownArePersisted /\ AckedAreAccounted

\* rows and insertFailed only grow: what is accounted for stays so.
RowsGrow ==
  /\ rows' \in [Envs -> [Requests -> Nat]]
  /\ \A e \in Envs, q \in Requests : rows[e][q] > 0 => rows'[e][q] > 0
  /\ insertFailed \subseteq insertFailed' /\ insertFailed' \subseteq Requests

LEMMA UnchangedRowsGrow ==
  ASSUME NotifierTypeOK, UNCHANGED <<rows, insertFailed>>
  PROVE  RowsGrow
  BY DEF NotifierTypeOK, RowsGrow

\* Only tasks-svc stores messages.
LEMMA NotifierLeavesStream ==
  ASSUME NotifierNext
  PROVE  StreamedSet' = StreamedSet /\ stream' = stream
<1>1. stream' = stream
  BY DEF NotifierNext, Consume, StartNotifier, Subscribe, Deliver, FetchReturns, Insert,
         fanout, Ack, StopNotifier, Redeliver, Connect, WriteEventTo, Disconnect, HandOut,
         TakeAck, AckWaitOver, jsVars
<1> QED
  BY <1>1 DEF StreamedSet

\* A message that is handed out has been stored.
LEMMA HandedOutWasStored ==
  ASSUME ServerInv, NEW q \in Requests, HandOut(q)
  PROVE  q \in StreamedSet
  BY DEF ServerInv, JSTypeOK, PendingInv, HandOut, StreamedSet

\* What follows when a step leaves the browsers alone and only adds rows.
LEMMA BrowsersAlone ==
  ASSUME NotifierInv, RowsGrow, UNCHANGED sseVars
  PROVE  ConnInv' /\ ShownArePersisted'
<1>1. \A c \in Clients : /\ \A i \in 1..Len(chan[c]) : chan[c][i] \in Requests
                         /\ \A i \in 1..Len(received[c]) : received[c][i] \in Requests
                         /\ ClientEnv[c] \in Envs
  BY NotifierAssumption DEF NotifierInv, NotifierTypeOK
<1> QED
  BY <1>1 DEF NotifierInv, ConnInv, ShownArePersisted, RowsGrow, sseVars

\* The acknowledged messages stay accounted for when no other one is.
LEMMA AckedStayAccounted ==
  ASSUME NotifierInv, ServerInv, RowsGrow, acked' = acked
  PROVE  AckedAreAccounted'
  BY DEF NotifierInv, ServerInv, JSTypeOK, RowsGrow, AckedAreAccounted

\* The part of LoopInv that concerns one pod.
LoopInvOf(r) ==
  /\ pc[r] \in {"insert", "fanout", "ack"} => batch[r] # <<>>
  /\ pc[r] = "fanout" => rows[EnvOf[r]][Current(r)] > 0
  /\ pc[r] = "ack" => Accounted(Current(r))
  /\ \A i \in 1..Len(batch[r]) : batch[r][i] \in StreamedSet

\* A pod that a step leaves alone keeps its part.
LEMMA OtherPods ==
  ASSUME NotifierInv, RowsGrow, StreamedSet \subseteq StreamedSet',
         NEW r \in NotifierPods, pc'[r] = pc[r], batch'[r] = batch[r]
  PROVE  LoopInvOf(r)'
<1>1. LoopInvOf(r)
  BY DEF NotifierInv, LoopInv, LoopInvOf
<1>2. Current(r)' = Current(r)
  BY DEF Current
<1>3. batch[r] # <<>> => Current(r) \in Requests
  BY HeadInBatch DEF NotifierInv
<1>4. EnvOf[r] \in Envs
  BY NotifierAssumption
<1>5. pc[r] = "ack" => Accounted(Current(r))'
  BY <1>1, <1>2, <1>3 DEF LoopInvOf, Accounted, RowsGrow
<1>6. pc[r] = "fanout" => rows'[EnvOf[r]][Current(r)'] > 0
  BY <1>1, <1>2, <1>3, <1>4 DEF LoopInvOf, RowsGrow
<1> QED
  BY <1>1, <1>5, <1>6 DEF LoopInvOf

\* A pod whose Subscribe loop stands still where nothing is being handled.
LEMMA IdlePod ==
  ASSUME NotifierInv, NEW r \in NotifierPods, StreamedSet' = StreamedSet,
         pc'[r] \notin {"insert", "fanout", "ack"},
         batch'[r] \in {batch[r], <<>>}
  PROVE  LoopInvOf(r)'
<1>1. \A i \in 1..Len(batch[r]) : batch[r][i] \in StreamedSet
  BY DEF NotifierInv, LoopInv
<1>2. \A i \in 1..Len(batch'[r]) : batch'[r][i] \in StreamedSet
  BY <1>1
<1> QED
  BY <1>2 DEF LoopInvOf

LEMMA ConsumeKeepsNotifierInv ==
  ASSUME NotifierInv, ServerInv, NEW r \in NotifierPods, Consume(r)
  PROVE  NotifierInv'
<1> USE DEF Goto
<1>0. StreamedSet' = StreamedSet
  BY NotifierLeavesStream DEF NotifierNext
<1>1. CASE StartNotifier(r) \/ Subscribe(r)
  <2>1. RowsGrow /\ acked' = acked
    BY <1>1, UnchangedRowsGrow DEF StartNotifier, Subscribe, NotifierInv, jsVars
  <2>2. NotifierTypeOK'
    BY <1>1 DEF StartNotifier, Subscribe, NotifierInv, NotifierTypeOK, ControlStates, sseVars
  <2>3. \A x \in NotifierPods \ {r} : pc'[x] = pc[x] /\ batch'[x] = batch[x]
    BY <1>1 DEF StartNotifier, Subscribe, NotifierInv, NotifierTypeOK
  <2>4. LoopInvOf(r)'
    BY <1>0, <1>1, IdlePod DEF StartNotifier, Subscribe, NotifierInv, NotifierTypeOK
  <2>5. LoopInv'
    BY <1>0, <2>1, <2>3, <2>4, OtherPods DEF LoopInv, LoopInvOf
  <2> QED
    BY <1>1, <2>1, <2>2, <2>5, BrowsersAlone, AckedStayAccounted
    DEF StartNotifier, Subscribe, NotifierInv
<1>2. ASSUME NEW q \in Requests, Deliver(r, q) PROVE NotifierInv'
  <2>1. RowsGrow /\ acked' = acked
    BY <1>2, UnchangedRowsGrow DEF Deliver, HandOut, NotifierInv
  <2>2. NotifierTypeOK'
    BY <1>2, NotifierAssumption DEF Deliver, NotifierInv, NotifierTypeOK, sseVars
  <2>3. \A x \in NotifierPods \ {r} : pc'[x] = pc[x] /\ batch'[x] = batch[x]
    BY <1>2 DEF Deliver, NotifierInv, NotifierTypeOK
  <2>4. \A i \in 1..Len(batch'[r]) : batch'[r][i] \in StreamedSet
    <3>1. q \in StreamedSet
      BY <1>2, HandedOutWasStored DEF Deliver
    <3>2. batch[r] \in Seq(Requests) /\ batch'[r] = Append(batch[r], q)
      BY <1>2 DEF Deliver, NotifierInv, NotifierTypeOK
    <3>3. \A i \in 1..Len(batch[r]) : batch[r][i] \in StreamedSet
      BY DEF NotifierInv, LoopInv
    <3> QED
      BY <3>1, <3>2, <3>3
  <2>5. LoopInvOf(r)'
    BY <1>0, <1>2, <2>4 DEF Deliver, LoopInvOf
  <2>6. LoopInv'
    BY <1>0, <2>1, <2>3, <2>5, OtherPods DEF LoopInv, LoopInvOf
  <2> QED
    BY <1>2, <2>1, <2>2, <2>6, BrowsersAlone, AckedStayAccounted DEF Deliver, NotifierInv
<1>3. CASE FetchReturns(r)
  <2>1. RowsGrow /\ acked' = acked
    BY <1>3, UnchangedRowsGrow DEF FetchReturns, NotifierInv, jsVars
  <2>2. NotifierTypeOK'
    BY <1>3 DEF FetchReturns, NotifierInv, NotifierTypeOK, ControlStates, sseVars
  <2>3. \A x \in NotifierPods \ {r} : pc'[x] = pc[x] /\ batch'[x] = batch[x]
    BY <1>3 DEF FetchReturns, NotifierInv, NotifierTypeOK
  <2>4. LoopInvOf(r)'
    BY <1>0, <1>3 DEF FetchReturns, NotifierInv, NotifierTypeOK, LoopInv, LoopInvOf
  <2>5. LoopInv'
    BY <1>0, <2>1, <2>3, <2>4, OtherPods DEF LoopInv, LoopInvOf
  <2> QED
    BY <1>3, <2>1, <2>2, <2>5, BrowsersAlone, AckedStayAccounted
    DEF FetchReturns, NotifierInv
<1>4. CASE Insert(r)
  <2>0. Current(r) \in Requests /\ EnvOf[r] \in Envs /\ Current(r)' = Current(r)
    BY <1>4, HeadInBatch, NotifierAssumption
    DEF Insert, NotifierInv, LoopInv, Current
  <2>1. RowsGrow /\ acked' = acked
    <3>1. /\ \/ rows' = rows
             \/ rows' = [rows EXCEPT ![EnvOf[r]][Current(r)] = @ + 1]
          /\ insertFailed' \in {insertFailed, insertFailed \cup {Current(r)}}
          /\ acked' = acked
      BY <1>4 DEF Insert, jsVars
    <3>2. rows \in [Envs -> [Requests -> Nat]] /\ insertFailed \subseteq Requests
      BY DEF NotifierInv, NotifierTypeOK
    <3>3. CASE rows' = rows
      BY <2>0, <3>1, <3>2, <3>3 DEF RowsGrow
    <3>4. CASE rows' = [rows EXCEPT ![EnvOf[r]][Current(r)] = @ + 1]
      <4>1. rows' \in [Envs -> [Requests -> Nat]]
        BY <2>0, <3>2, <3>4
      <4>2. \A e \in Envs, q \in Requests : rows'[e][q] \in {rows[e][q], rows[e][q] + 1}
        BY <2>0, <3>2, <3>4
      <4>3. \A e \in Envs, q \in Requests : rows[e][q] \in Nat
        BY <3>2
      <4>4. \A e \in Envs, q \in Requests : rows[e][q] > 0 => rows'[e][q] > 0
        BY <4>2, <4>3
      <4> QED
        BY <2>0, <3>1, <3>2, <4>1, <4>4 DEF RowsGrow
    <3> QED
      BY <3>1, <3>3, <3>4
  <2>2. NotifierTypeOK'
    BY <1>4, <2>0, <2>1
    DEF Insert, NotifierInv, NotifierTypeOK, ControlStates, sseVars, RowsGrow
  <2>3. \A x \in NotifierPods \ {r} : pc'[x] = pc[x] /\ batch'[x] = batch[x]
    BY <1>4 DEF Insert, NotifierInv, NotifierTypeOK
  <2>4. LoopInvOf(r)'
    <3>1. batch'[r] = batch[r] /\ batch[r] # <<>>
      BY <1>4 DEF Insert, NotifierInv, LoopInv
    <3>2. \A i \in 1..Len(batch[r]) : batch[r][i] \in StreamedSet
      BY DEF NotifierInv, LoopInv
    <3>3. \/ pc'[r] = "fanout" /\ rows'[EnvOf[r]][Current(r)] > 0
          \/ pc'[r] = "ack" /\ Current(r) \in insertFailed'
      BY <1>4, <2>0 DEF Insert, NotifierInv, NotifierTypeOK
    <3> QED
      BY <1>0, <2>0, <3>1, <3>2, <3>3 DEF LoopInvOf, Accounted
  <2>5. LoopInv'
    BY <1>0, <2>1, <2>3, <2>4, OtherPods DEF LoopInv, LoopInvOf
  <2> QED
    BY <1>4, <2>1, <2>2, <2>5, BrowsersAlone, AckedStayAccounted DEF Insert, NotifierInv
<1>5. CASE fanout(r)
  <2>0. /\ Current(r) \in Requests /\ Current(r)' = Current(r)
        /\ batch[r] # <<>> /\ batch' = batch
        /\ rows[EnvOf[r]][Current(r)] > 0
    BY <1>5, HeadInBatch DEF fanout, NotifierInv, LoopInv, Current
  <2>1. RowsGrow /\ acked' = acked
    BY <1>5, UnchangedRowsGrow DEF fanout, NotifierInv, jsVars
  <2>2. chan' \in [Clients -> Seq(Requests)] /\ \A c \in Clients : Len(chan'[c]) <= ChanCap
    BY <1>5, <2>0, NotifierAssumption DEF fanout, NotifierInv, NotifierTypeOK
  <2>3. NotifierTypeOK'
    BY <1>5, <2>2 DEF fanout, NotifierInv, NotifierTypeOK, ControlStates
  <2>4. \A x \in NotifierPods \ {r} : pc'[x] = pc[x] /\ batch'[x] = batch[x]
    BY <1>5 DEF fanout, NotifierInv, NotifierTypeOK
  <2>5. LoopInvOf(r)'
    <3>1. pc'[r] = "ack" /\ rows' = rows
      BY <1>5 DEF fanout, NotifierInv, NotifierTypeOK
    <3>2. Accounted(Current(r))'
      BY <2>0, <3>1, NotifierAssumption DEF Accounted
    <3>3. \A i \in 1..Len(batch[r]) : batch[r][i] \in StreamedSet
      BY DEF NotifierInv, LoopInv
    <3> QED
      BY <1>0, <2>0, <3>1, <3>2, <3>3 DEF LoopInvOf
  <2>6. LoopInv'
    BY <1>0, <2>1, <2>4, <2>5, OtherPods DEF LoopInv, LoopInvOf
  <2>7. ConnInv'
    BY <1>5 DEF fanout, NotifierInv, ConnInv
  <2>8. ShownArePersisted'
    <3> SUFFICES ASSUME NEW c \in Clients
                 PROVE  /\ \A i \in 1..Len(chan'[c]) : rows'[ClientEnv[c]][chan'[c][i]] > 0
                        /\ \A i \in 1..Len(received'[c]) :
                             rows'[ClientEnv[c]][received'[c][i]] > 0
      BY DEF ShownArePersisted
    <3>1. rows' = rows /\ received' = received
      BY <1>5 DEF fanout
    <3>2. /\ \A i \in 1..Len(chan[c]) : rows[ClientEnv[c]][chan[c][i]] > 0
          /\ \A i \in 1..Len(received[c]) : rows[ClientEnv[c]][received[c][i]] > 0
      BY DEF NotifierInv, ShownArePersisted
    <3>3. CASE chan'[c] = chan[c]
      BY <3>1, <3>2, <3>3
    <3>4. CASE conn[c] = r /\ chan'[c] = Append(chan[c], Current(r))
      <4>1. EnvOf[r] = ClientEnv[c]
        BY <3>4, NotifierAssumption DEF NotifierInv, ConnInv
      <4>2. chan[c] \in Seq(Requests)
        BY DEF NotifierInv, NotifierTypeOK
      <4> QED
        BY <2>0, <3>1, <3>2, <3>4, <4>1, <4>2
    <3> QED
      BY <1>5, <3>3, <3>4 DEF fanout
  <2> QED
    BY <2>1, <2>3, <2>6, <2>7, <2>8, AckedStayAccounted DEF NotifierInv
<1>6. CASE Ack(r)
  <2>0. /\ Current(r) \in Requests /\ Accounted(Current(r))
        /\ batch[r] # <<>> /\ batch[r] \in Seq(Requests)
    BY <1>6, HeadInBatch DEF Ack, NotifierInv, NotifierTypeOK, LoopInv
  <2>1. RowsGrow
    BY <1>6, UnchangedRowsGrow DEF Ack, NotifierInv
  <2>2. /\ Tail(batch[r]) \in Seq(Requests)
        /\ Len(Tail(batch[r])) = Len(batch[r]) - 1
        /\ \A i \in 1..(Len(batch[r]) - 1) : Tail(batch[r])[i] = batch[r][i + 1]
    BY <2>0
  <2>3. batch'[r] = Tail(batch[r])
    BY <1>6 DEF Ack, NotifierInv, NotifierTypeOK
  <2>4. NotifierTypeOK'
    BY <1>6, <2>2, NotifierAssumption
    DEF Ack, NotifierInv, NotifierTypeOK, ControlStates, sseVars
  <2>5. \A x \in NotifierPods \ {r} : pc'[x] = pc[x] /\ batch'[x] = batch[x]
    BY <1>6 DEF Ack, NotifierInv, NotifierTypeOK
  <2>6. LoopInvOf(r)'
    <3>1. pc'[r] = IF Len(batch[r]) = 1 THEN "fetch" ELSE "insert"
      BY <1>6 DEF Ack, NotifierInv, NotifierTypeOK
    <3>2. \A i \in 1..Len(batch[r]) : batch[r][i] \in StreamedSet
      BY DEF NotifierInv, LoopInv
    <3>3. Len(batch[r]) \in Nat \ {0}
      BY <2>0
    <3>4. pc'[r] # "fetch" => Tail(batch[r]) # <<>>
      <4>1. Len(<<>>) = 0
        OBVIOUS
      <4>2. Len(batch[r]) # 1 => Len(Tail(batch[r])) # 0
        BY <2>2, <3>3
      <4>3. pc'[r] # "fetch" => Len(batch[r]) # 1
        BY <3>1
      <4> QED
        BY <4>1, <4>2, <4>3
    <3>5. \A i \in 1..Len(Tail(batch[r])) : Tail(batch[r])[i] \in StreamedSet
      BY <2>2, <3>2, <3>3
    <3>6. pc'[r] \notin {"fanout", "ack"}
      BY <3>1
    <3>7. /\ pc'[r] \in {"insert", "fanout", "ack"} => batch'[r] # <<>>
          /\ \A i \in 1..Len(batch'[r]) : batch'[r][i] \in StreamedSet'
      BY <1>0, <2>3, <3>4, <3>5
    <3> QED
      BY <3>6, <3>7 DEF LoopInvOf
  <2>7. LoopInv'
    BY <1>0, <2>1, <2>5, <2>6, OtherPods DEF LoopInv, LoopInvOf
  <2>8. AckedAreAccounted'
    <3>1. acked' \subseteq acked \cup {Current(r)} /\ UNCHANGED <<rows, insertFailed>>
      BY <1>6 DEF Ack, TakeAck, jsVars
    <3> QED
      BY <2>0, <3>1 DEF Accounted, AckedAreAccounted, NotifierInv
  <2> QED
    BY <1>6, <2>1, <2>4, <2>7, <2>8, BrowsersAlone DEF Ack, NotifierInv
<1> QED
  BY <1>1, <1>2, <1>3, <1>4, <1>5, <1>6 DEF Consume

\* What follows when a step leaves the loops of all pods alone.
LEMMA LoopsAlone ==
  ASSUME NotifierInv, StreamedSet' = StreamedSet,
         UNCHANGED <<pc, batch, rows, insertFailed>>
  PROVE  LoopInv'
  BY DEF NotifierInv, LoopInv, Accounted, Current

LEMMA NotifierKeepsNotifierInv ==
  ASSUME NotifierInv, ServerInv, NotifierNext
  PROVE  NotifierInv'
<1>0. StreamedSet' = StreamedSet
  BY NotifierLeavesStream
<1>1. ASSUME NEW r \in NotifierPods, StopNotifier(r) PROVE NotifierInv'
  <2>1. RowsGrow /\ acked' = acked
    BY <1>1, UnchangedRowsGrow DEF StopNotifier, NotifierInv, jsVars
  <2>2. NotifierTypeOK'
    BY <1>1, NotifierAssumption
    DEF StopNotifier, Goto, NotifierInv, NotifierTypeOK, ControlStates
  <2>3. \A x \in NotifierPods \ {r} : pc'[x] = pc[x] /\ batch'[x] = batch[x]
    BY <1>1 DEF StopNotifier, Goto, NotifierInv, NotifierTypeOK
  <2>4. LoopInvOf(r)'
    BY <1>0, <1>1, IdlePod DEF StopNotifier, Goto, NotifierInv, NotifierTypeOK
  <2>5. LoopInv'
    BY <1>0, <2>1, <2>3, <2>4, OtherPods DEF LoopInv, LoopInvOf
  <2>6. ConnInv'
    BY <1>1 DEF StopNotifier, NotifierInv, ConnInv
  <2>7. ShownArePersisted'
    BY <1>1 DEF StopNotifier, NotifierInv, ShownArePersisted
  <2> QED
    BY <2>1, <2>2, <2>5, <2>6, <2>7, AckedStayAccounted DEF NotifierInv
<1>2. ASSUME NEW q \in Requests, Redeliver(q) PROVE NotifierInv'
  <2>1. UNCHANGED notifierVars /\ acked' = acked
    BY <1>2 DEF Redeliver, AckWaitOver
  <2>2. RowsGrow
    BY <2>1, UnchangedRowsGrow DEF notifierVars, NotifierInv
  <2>3. NotifierTypeOK'
    BY <2>1 DEF notifierVars, NotifierInv, NotifierTypeOK
  <2> QED
    BY <1>0, <2>1, <2>2, <2>3, LoopsAlone, BrowsersAlone, AckedStayAccounted
    DEF notifierVars, sseVars, NotifierInv
<1>3. ASSUME NEW c \in Clients, NEW r \in NotifierPods, Connect(c, r) PROVE NotifierInv'
  <2>1. UNCHANGED <<pc, batch, rows, insertFailed, chan, received>> /\ acked' = acked
    BY <1>3 DEF Connect, jsVars
  <2>2. NotifierTypeOK'
    BY <1>3 DEF Connect, NotifierInv, NotifierTypeOK
  <2>3. ConnInv'
    BY <1>3 DEF Connect, NotifierInv, NotifierTypeOK, ConnInv
  <2>4. ShownArePersisted'
    BY <2>1 DEF NotifierInv, ShownArePersisted
  <2> QED
    BY <1>0, <2>1, <2>2, <2>3, <2>4, LoopsAlone, UnchangedRowsGrow, AckedStayAccounted
    DEF NotifierInv
<1>4. ASSUME NEW c \in Clients, WriteEventTo(c) PROVE NotifierInv'
  <2>1. UNCHANGED <<pc, batch, rows, insertFailed, conn>> /\ acked' = acked
    BY <1>4 DEF WriteEventTo, jsVars
  <2>2. /\ chan[c] \in Seq(Requests) /\ received[c] \in Seq(Requests) /\ chan[c] # <<>>
        /\ Len(chan[c]) <= ChanCap
    BY <1>4 DEF WriteEventTo, NotifierInv, NotifierTypeOK
  <2>3. /\ chan'[c] = Tail(chan[c]) /\ received'[c] = Append(received[c], Head(chan[c]))
        /\ \A d \in Clients \ {c} : chan'[d] = chan[d] /\ received'[d] = received[d]
    BY <1>4 DEF WriteEventTo, NotifierInv, NotifierTypeOK
  <2>4. /\ Tail(chan[c]) \in Seq(Requests) /\ Len(Tail(chan[c])) = Len(chan[c]) - 1
        /\ Head(chan[c]) \in Requests /\ Head(chan[c]) = chan[c][1]
        /\ Len(chan[c]) \in Nat \ {0}
        /\ \A i \in 1..(Len(chan[c]) - 1) : Tail(chan[c])[i] = chan[c][i + 1]
    BY <2>2
  <2>5. NotifierTypeOK'
    <3>0. ChanCap \in Nat
      BY NotifierAssumption
    <3>1. \A d \in Clients : chan'[d] \in Seq(Requests) /\ received'[d] \in Seq(Requests)
      <4>1. chan'[c] \in Seq(Requests) /\ received'[c] \in Seq(Requests)
        BY <2>2, <2>3, <2>4
      <4>2. \A d \in Clients : chan[d] \in Seq(Requests) /\ received[d] \in Seq(Requests)
        BY DEF NotifierInv, NotifierTypeOK
      <4> QED
        BY <2>3, <4>1, <4>2
    <3>2. \A d \in Clients : Len(chan'[d]) <= ChanCap
      <4>1. Len(chan'[c]) <= ChanCap
        BY <2>2, <2>3, <2>4, <3>0
      <4>2. \A d \in Clients : Len(chan[d]) <= ChanCap
        BY DEF NotifierInv, NotifierTypeOK
      <4> QED
        BY <2>3, <4>1, <4>2
    <3>3. /\ chan' = [d \in Clients |-> chan'[d]]
          /\ received' = [d \in Clients |-> received'[d]]
      BY <1>4 DEF WriteEventTo, NotifierInv, NotifierTypeOK
    <3>4. chan' \in [Clients -> Seq(Requests)] /\ received' \in [Clients -> Seq(Requests)]
      BY <3>1, <3>3
    <3> QED
      BY <2>1, <3>2, <3>4 DEF NotifierInv, NotifierTypeOK
  <2>6. ConnInv'
    BY <2>1 DEF NotifierInv, ConnInv
  <2>7. ShownArePersisted'
    <3> SUFFICES ASSUME NEW d \in Clients
                 PROVE  /\ \A i \in 1..Len(chan'[d]) : rows'[ClientEnv[d]][chan'[d][i]] > 0
                        /\ \A i \in 1..Len(received'[d]) :
                             rows'[ClientEnv[d]][received'[d][i]] > 0
      BY DEF ShownArePersisted
    <3>1. rows' = rows
      BY <2>1
    <3>2. /\ \A i \in 1..Len(chan[d]) : rows[ClientEnv[d]][chan[d][i]] > 0
          /\ \A i \in 1..Len(received[d]) : rows[ClientEnv[d]][received[d][i]] > 0
      BY DEF NotifierInv, ShownArePersisted
    <3>3. CASE d # c
      BY <2>3, <3>1, <3>2, <3>3
    <3>4. CASE d = c
      <4>1. \A i \in 1..Len(chan'[c]) : rows'[ClientEnv[c]][chan'[c][i]] > 0
        BY <2>3, <2>4, <3>1, <3>2, <3>4
      <4>2. \A i \in 1..Len(received'[c]) : rows'[ClientEnv[c]][received'[c][i]] > 0
        BY <2>2, <2>3, <2>4, <3>1, <3>2, <3>4
      <4> QED
        BY <3>4, <4>1, <4>2
    <3> QED
      BY <3>3, <3>4
  <2> QED
    BY <1>0, <2>1, <2>5, <2>6, <2>7, LoopsAlone, UnchangedRowsGrow, AckedStayAccounted
    DEF NotifierInv
<1>5. ASSUME NEW c \in Clients, Disconnect(c) PROVE NotifierInv'
  <2>1. UNCHANGED <<pc, batch, rows, insertFailed>> /\ acked' = acked
    BY <1>5 DEF Disconnect, jsVars
  <2>2. NotifierTypeOK'
    BY <1>5, NotifierAssumption DEF Disconnect, NotifierInv, NotifierTypeOK
  <2>3. ConnInv'
    BY <1>5 DEF Disconnect, NotifierInv, NotifierTypeOK, ConnInv
  <2>4. ShownArePersisted'
    BY <1>5 DEF Disconnect, NotifierInv, NotifierTypeOK, ShownArePersisted
  <2> QED
    BY <1>0, <2>1, <2>2, <2>3, <2>4, LoopsAlone, UnchangedRowsGrow, AckedStayAccounted
    DEF NotifierInv
<1> QED
  BY <1>1, <1>2, <1>3, <1>4, <1>5, ConsumeKeepsNotifierInv DEF NotifierNext

-----------------------------------------------------------------------------
(***************************************************************************)
(* The two services and the server together.                               *)
(***************************************************************************)
\* Only stored messages are pending, whoever takes the step.
LEMMA PendingStaysStored ==
  ASSUME JSTypeOK, PendingInv, ServerStep
  PROVE  PendingInv' /\ StreamedSet \subseteq StreamedSet'
<1>1. ASSUME NEW q \in Requests, Store(q)
      PROVE  PendingInv' /\ StreamedSet \subseteq StreamedSet'
  BY <1>1, StoreAdds DEF JSTypeOK, PendingInv, Store
<1>2. ASSUME NEW q \in Requests, HandOut(q)
      PROVE  PendingInv' /\ StreamedSet \subseteq StreamedSet'
  BY <1>2, HandedOutWasStored DEF ServerInv, PendingInv, HandOut, StreamedSet
<1>3. CASE UNCHANGED jsVars \/ AddStream
  BY <1>3 DEF jsVars, AddStream, PendingInv, StreamedSet
<1>4. ASSUME NEW q \in Requests, TakeAck(q) \/ AckWaitOver(q)
      PROVE  PendingInv' /\ StreamedSet \subseteq StreamedSet'
  BY <1>4 DEF TakeAck, AckWaitOver, PendingInv, StreamedSet
<1> QED
  BY <1>1, <1>2, <1>3, <1>4 DEF ServerStep

LEMMA InitEstablishes == Init => IInv
<1> SUFFICES ASSUME Init PROVE IInv
  OBVIOUS
<1> USE DEF Init, JSInit, TasksInit, NotifierInit
<1>1. StreamedSet = {}
  BY DEF StreamedSet
<1>2. JSTypeOK
  BY FaultAssumption DEF JSTypeOK
<1>3. TasksTypeOK
  BY DEF TasksTypeOK, Steps, Statuses
<1>4. NotifierTypeOK
  BY NotifierAssumption DEF NotifierTypeOK, ControlStates
<1>5. ReqInv /\ BacklogInv /\ PublishedAreCommitted /\ PublishedOnce /\ PendingInv
  BY <1>1 DEF ReqInv, BacklogInv, PublishedAreCommitted, PublishedOnce, PendingInv
<1>6. LoopInv /\ ConnInv /\ ShownArePersisted /\ AckedAreAccounted
  BY DEF LoopInv, ConnInv, ShownArePersisted, AckedAreAccounted
<1> QED
  BY <1>2, <1>3, <1>4, <1>5, <1>6 DEF IInv, TypeOK

LEMMA StepPreserves == IInv /\ [Next]_vars => IInv'
<1> SUFFICES ASSUME IInv, [Next]_vars PROVE IInv'
  OBVIOUS
<1>1. TasksInv /\ NotifierInv /\ ServerInv
  BY DEF IInv, TypeOK, TasksInv, NotifierInv, ServerInv
<1>2. CASE Next
  <2>1. ServerStep /\ BudgetStep
    BY <1>2, EveryStep DEF IInv
  <2>2. JSTypeOK' /\ PendingInv' /\ StreamedSet \subseteq StreamedSet'
    BY <1>1, <2>1, ServerTypes, PendingStaysStored DEF ServerInv
  <2>3. CASE TasksNext /\ UNCHANGED notifierVars
    <3>1. TasksInv'
      BY <1>1, <2>3, TasksKeepTasksInv DEF ServerInv
    <3>2. acked' = acked
      BY <2>3, TasksLeaveAcks
    <3>3. RowsGrow
      BY <1>1, <2>3, UnchangedRowsGrow DEF notifierVars, NotifierInv
    <3>4. NotifierTypeOK'
      BY <1>1, <2>3 DEF notifierVars, NotifierInv, NotifierTypeOK
    <3>5. LoopInv'
      BY <1>1, <2>2, <2>3, <3>3, OtherPods DEF notifierVars, LoopInv, LoopInvOf
    <3> QED
      BY <1>1, <2>2, <2>3, <3>1, <3>2, <3>3, <3>4, <3>5, BrowsersAlone, AckedStayAccounted
      DEF notifierVars, sseVars, IInv, TypeOK, TasksInv
  <2>4. CASE NotifierNext /\ UNCHANGED tasksVars
    <3>1. NotifierInv'
      BY <1>1, <2>4, NotifierKeepsNotifierInv
    <3>2. StreamedSet' = StreamedSet /\ stream' = stream
      BY <2>4, NotifierLeavesStream
    <3>3. TasksInv'
      BY <1>1, <2>4, <3>2
      DEF tasksVars, outVars, TasksInv, TasksTypeOK, ReqInv, BacklogInv, Waits,
          PublishedAreCommitted, PublishedOnce
    <3> QED
      BY <2>2, <3>1, <3>3 DEF IInv, TypeOK, TasksInv, NotifierInv
  <2> QED
    BY <1>2, <2>3, <2>4 DEF Next
<1>3. CASE UNCHANGED vars
  BY <1>3
  DEF vars, jsVars, tasksVars, outVars, notifierVars, IInv, TypeOK, JSTypeOK, TasksTypeOK,
      NotifierTypeOK, ReqInv, BacklogInv, Waits, PublishedAreCommitted, PublishedOnce, PendingInv, LoopInv,
      ConnInv, ShownArePersisted, AckedAreAccounted, StreamedSet, Accounted, Current
<1> QED
  BY <1>2, <1>3

LEMMA Invariance == Safety => []IInv
  BY InitEstablishes, StepPreserves, PTL DEF Safety

\* Every variable keeps its type: batches and channels never exceed their
\* capacities, whatever fails.
THEOREM TypeCorrect == Safety => []TypeOK
<1>1. IInv => TypeOK
  BY DEF IInv
<1> QED
  BY <1>1, Invariance, PTL

\* tasks-svc announces nothing that is not in its table.
THEOREM OnlyCommittedIsPublished == Safety => []PublishedAreCommitted
<1>1. IInv => PublishedAreCommitted
  BY DEF IInv
<1> QED
  BY <1>1, Invariance, PTL

\* tasks-svc stores at most one event per request.
THEOREM NothingIsPublishedTwice == Safety => []PublishedOnce
<1>1. IInv => PublishedOnce
  BY DEF IInv
<1> QED
  BY <1>1, Invariance, PTL

\* notifier-svc shows a browser nothing that is not in the table of the
\* browser's environment.
THEOREM OnlyPersistedIsShown == Safety => []ShownArePersisted
<1>1. IInv => ShownArePersisted
  BY DEF IInv
<1> QED
  BY <1>1, Invariance, PTL

\* An event that will not be delivered again has left a row, or an INSERT of
\* it failed.
THEOREM NothingElseIsLost == Safety => []AckedAreAccounted
<1>1. IInv => AckedAreAccounted
  BY DEF IInv
<1> QED
  BY <1>1, Invariance, PTL

-----------------------------------------------------------------------------
(***************************************************************************)
(* As long as no INSERT of notifier-svc fails.                             *)
(***************************************************************************)
InsertsSucceed == "insert" \notin FaultKinds

NoneFailed == insertFailed = {}

LEMMA NoneFails ==
  ASSUME InsertsSucceed
  PROVE  Safety => []NoneFailed
<1>1. Init => NoneFailed
  BY DEF Init, NotifierInit, NoneFailed
<1>2. ASSUME NoneFailed, [Next]_vars PROVE NoneFailed'
  <2>1. insertFailed' = insertFailed
    <3>1. ASSUME NEW r \in NotifierPods, Consume(r) \/ StopNotifier(r)
          PROVE  insertFailed' = insertFailed
      BY <3>1 DEF Consume, StopNotifier, StartNotifier, Subscribe, Deliver, FetchReturns,
                  Insert, fanout, Ack, Fault, InsertsSucceed
    <3>2. CASE \/ \E q \in Requests : Redeliver(q)
               \/ \E c \in Clients : WriteEventTo(c) \/ Disconnect(c)
               \/ \E c \in Clients, r \in NotifierPods : Connect(c, r)
      BY <3>2 DEF Redeliver, WriteEventTo, Disconnect, Connect, notifierVars
    <3>3. CASE UNCHANGED vars \/ UNCHANGED notifierVars
      BY <3>3 DEF vars, notifierVars
    <3> QED
      BY <1>2, <3>1, <3>2, <3>3 DEF Next, NotifierNext
  <2> QED
    BY <1>2, <2>1 DEF NoneFailed
<1> QED
  BY <1>1, <1>2, PTL DEF Safety

\* One step of the pipeline is a step of the abstract bus, or none.
LEMMA StepRefines ==
  ASSUME InsertsSucceed, IInv, NoneFailed, [Next]_vars
  PROVE  [Bus!BusNext]_(Bus!busVars)
<1> DEFINE Stutter == UNCHANGED <<StreamedSet, rows, acked>>
<1>0. Stutter => UNCHANGED Bus!busVars
  BY DEF Bus!busVars
<1>1. ASSUME NEW q \in Requests, Store(q), q \notin StreamedSet, UNCHANGED notifierVars
      PROVE  Bus!Publish(q)
  <2>1. StreamedSet' = StreamedSet \cup {q} /\ acked' = acked
    BY <1>1, StoreAdds DEF IInv, TypeOK, JSTypeOK, Store
  <2> QED
    BY <1>1, <2>1 DEF Bus!Publish, notifierVars
<1>9. ASSUME UNCHANGED jsVars, UNCHANGED notifierVars PROVE Stutter
  BY <1>9 DEF jsVars, notifierVars, StreamedSet
<1>10. ASSUME NEW q \in Requests, publish(q), UNCHANGED notifierVars
       PROVE  Bus!Publish(q) \/ Stutter
  <2>1. q \notin StreamedSet
    BY <1>10 DEF publish, IInv, ReqInv
  <2> QED
    BY <1>1, <1>9, <1>10, <2>1 DEF publish
<1>11. ASSUME NEW p \in TasksPods, Flush(p), UNCHANGED notifierVars
       PROVE  Stutter \/ \E q \in Requests : Bus!Publish(q)
  <2>1. Head(backlog[p]) \in Requests /\ Head(backlog[p]) \notin StreamedSet
    <3>1. backlog[p] \in Seq(Requests) /\ backlog[p] # <<>>
      BY <1>11 DEF Flush, IInv, TypeOK, TasksTypeOK
    <3>2. Head(backlog[p]) = backlog[p][1] /\ 1 \in 1..Len(backlog[p]) /\ Head(backlog[p]) \in Requests
      BY <3>1
    <3> QED
      BY <3>2 DEF IInv, BacklogInv, Waits
  <2> QED
    BY <1>1, <1>9, <1>11, <2>1 DEF Flush
<1>2. ASSUME TasksNext, UNCHANGED notifierVars, \A q \in Requests : ~publish(q),
             \A p \in TasksPods : ~Flush(p)
      PROVE  Stutter
  <2>1. stream' = stream
    <3>1. ASSUME NEW p \in TasksPods, StartTasksPod(p) \/ StopTasksPod(p)
          PROVE  stream' = stream
      BY <3>1 DEF StartTasksPod, StopTasksPod, AddStream, jsVars
    <3>2. ASSUME NEW q \in Requests, TasksHandler(q) PROVE stream' = stream
      <4>1. UNCHANGED jsVars
        BY <1>2, <3>2 DEF TasksHandler, Refuse, createTask, updateTask, deleteTask, reply,
                          WriteEvent, NotFound
      <4> QED
        BY <4>1 DEF jsVars
    <3> QED
      BY <1>2, <3>1, <3>2 DEF TasksNext
  <2> QED
    BY <1>2, <2>1, TasksLeaveAcks DEF notifierVars, StreamedSet
<1>3. ASSUME NEW r \in NotifierPods, Insert(r)
      PROVE  Bus!Record(Current(r), EnvOf[r]) \/ Stutter
  <2>1. /\ rows' = [rows EXCEPT ![EnvOf[r]][Current(r)] = @ + 1]
        /\ UNCHANGED jsVars
    BY <1>3 DEF Insert, Fault, InsertsSucceed
  <2>2. Current(r) \in StreamedSet
    BY <1>3, HeadInBatch DEF Insert, IInv, TypeOK, LoopInv
  <2> QED
    BY <2>1, <2>2 DEF Bus!Record, jsVars, StreamedSet
<1>4. ASSUME NEW r \in NotifierPods, Ack(r)
      PROVE  Bus!Settle(Current(r)) \/ Stutter
  <2>1. \E e \in Envs : rows[e][Current(r)] > 0
    BY <1>4 DEF Ack, IInv, LoopInv, Accounted, NoneFailed
  <2>2. rows' = rows
    BY <1>4 DEF Ack
  <2> QED
    BY <1>4, <2>1, <2>2
    DEF Ack, TakeAck, jsVars, StreamedSet, Bus!Settle, Bus!Recorded
<1>5. ASSUME NotifierNext, \A r \in NotifierPods : ~Insert(r) /\ ~Ack(r)
      PROVE  Stutter
  <2>1. rows' = rows /\ acked' = acked
    <3>1. ASSUME NEW r \in NotifierPods, Consume(r) \/ StopNotifier(r)
          PROVE  rows' = rows /\ acked' = acked
      BY <1>5, <3>1 DEF Consume, StopNotifier, StartNotifier, Subscribe, Deliver,
                        FetchReturns, fanout, HandOut, jsVars
    <3>2. CASE \/ \E q \in Requests : Redeliver(q)
               \/ \E c \in Clients : WriteEventTo(c) \/ Disconnect(c)
               \/ \E c \in Clients, r \in NotifierPods : Connect(c, r)
      BY <3>2 DEF Redeliver, WriteEventTo, Disconnect, Connect, AckWaitOver, notifierVars,
                  jsVars
    <3> QED
      BY <1>5, <3>1, <3>2 DEF NotifierNext
  <2> QED
    BY <1>5, <2>1, NotifierLeavesStream
<1>6. CASE UNCHANGED vars
  BY <1>0, <1>6 DEF vars, jsVars, notifierVars, StreamedSet
<1>7. ASSUME NEW r \in NotifierPods, Insert(r) \/ Ack(r)
      PROVE  Current(r) \in Requests /\ EnvOf[r] \in Envs
  BY <1>7, HeadInBatch, NotifierAssumption DEF Insert, Ack, IInv, TypeOK, LoopInv
<1> HIDE DEF Stutter
<1>8. Next => Stutter \/ Bus!BusNext
  BY <1>2, <1>3, <1>4, <1>5, <1>7, <1>10, <1>11 DEF Next, Bus!BusNext
<1> QED
  BY <1>0, <1>6, <1>8

\* The pipeline implements the at-least-once bus: an event is put on it once,
\* recorded only after that, and given up only after it has been recorded.
THEOREM Implementation ==
  ASSUME InsertsSucceed
  PROVE  Safety => ImplementsBus
<1>1. Init => Bus!BusInit
  BY DEF Init, JSInit, NotifierInit, StreamedSet, Bus!BusInit
<1>2. IInv /\ NoneFailed /\ [Next]_vars => [Bus!BusNext]_(Bus!busVars)
  BY StepRefines
<1> QED
  BY <1>1, <1>2, Invariance, NoneFails, PTL DEF Safety, ImplementsBus, Bus!BusSafety
==============================================================================
