-------------------------- MODULE EventOrder_proofs --------------------------
(***************************************************************************)
(* Proofs about the order and the number of an event's copies in           *)
(* EventPipeline, for any number of pods, requests, browsers, environments *)
(* and failures.                                                           *)
(*                                                                         *)
(* All of them stand on the invariant IInv of EventPipeline_proofs.  To it *)
(* they add: what an answered request says of what is out (OrderInv); that  *)
(* every copy of a message in a batch that still has to be inserted was    *)
(* paid for by a delivery (InsertInv); and that what a loop still has to   *)
(* show comes after what its browsers have been shown (ShownInv).          *)
(***************************************************************************)
EXTENDS EventPipeline_proofs, FiniteSetTheorems, FunctionTheorems

\* A request whose message has been published, one way or another.
Settled(x) == req[x].at \in {"reply", "done"}

\* A request that was answered has come to its end, and so has every request
\* that was answered before another one committed.
AnswerInv ==
  /\ \A q \in Requests : req[q].status = "ok" => req[q].at = "done"
  /\ \A q \in Requests : \A x \in before[q] : req[x].at = "done"

\* Nothing that waits in the buffer of a pod has to precede what is stored, and
\* the buffer itself is in order.
OutInv ==
  /\ \A i, j \in 1..Len(stream) : MustPrecede(stream[i], stream[j]) => i < j
  /\ \A p \in TasksPods :
       /\ \A i \in 1..Len(backlog[p]), j \in 1..Len(stream) :
            ~MustPrecede(backlog[p][i], stream[j])
       /\ \A i, j \in 1..Len(backlog[p]) :
            MustPrecede(backlog[p][i], backlog[p][j]) => i < j

OrderInv == AnswerInv /\ OutInv

\* A message stands at one position of the stream.
LEMMA PositionIs ==
  ASSUME PublishedOnce, NEW i \in 1..Len(stream)
  PROVE  PositionOf(stream[i]) = i
BY DEF PublishedOnce, PositionOf

\* Every message of the stream stands at its position.
LEMMA PositionHolds ==
  ASSUME PublishedOnce, NEW q \in StreamedSet
  PROVE  PositionOf(q) \in 1..Len(stream) /\ stream[PositionOf(q)] = q
<1>1. PICK i \in 1..Len(stream) : stream[i] = q
  BY DEF StreamedSet
<1> QED
  BY <1>1, PositionIs

-----------------------------------------------------------------------------
(***************************************************************************)
(* The order of the stream.                                                *)
(***************************************************************************)
\* What a step of tasks-svc may do to the requests and to the history of the
\* answers.
AnswerStep ==
  /\ \A x \in Requests : req[x].at = "done" => req'[x].at = "done"
  /\ \A x \in Requests : req'[x].status = "ok" => req'[x].at = "done"
  /\ \A x \in Requests : before'[x] \in {before[x], Answered}

\* Once its message is out, a request keeps its pod, and what was answered
\* before it.
OutStep ==
  /\ late \subseteq late'
  /\ \A x \in Requests : Settled(x) => before'[x] = before[x] /\ req'[x].pod = req[x].pod

\* What is in the stream, or waits for it, belongs to settled requests.
LEMMA OutIsSettled ==
  ASSUME IInv
  PROVE  /\ Len(stream) \in Nat
         /\ \A i \in 1..Len(stream) : stream[i] \in Requests /\ Settled(stream[i])
         /\ \A p \in TasksPods :
              /\ Len(backlog[p]) \in Nat /\ backlog[p] \in Seq(Requests)
              /\ \A i \in 1..Len(backlog[p]) :
                   LET x == backlog[p][i]
                   IN  x \in Requests /\ Settled(x) /\ x \in late /\ req[x].pod = p
<1>1. stream \in Seq(Requests) /\ backlog \in [TasksPods -> Seq(Requests)]
      /\ \A x \in Requests : req[x].at \in Steps
  BY DEF IInv, TypeOK, JSTypeOK, TasksTypeOK
<1>2. \A i \in 1..Len(stream) : stream[i] \in Requests /\ stream[i] \in StreamedSet
  BY <1>1 DEF StreamedSet
<1>3. \A i \in 1..Len(stream) : Settled(stream[i])
  BY <1>1, <1>2 DEF IInv, ReqInv, Settled, Steps
<1> QED
  BY <1>1, <1>2, <1>3 DEF IInv, BacklogInv, Waits, Settled

\* MustPrecede after the step.
PrecedeNext(x, y) ==
  x \in before'[y] /\ (x \in late' => req'[x].pod = req'[y].pod)

LEMMA OutNext ==
  ASSUME \A i, j \in 1..Len(stream') : PrecedeNext(stream'[i], stream'[j]) => i < j,
         \A p \in TasksPods :
           /\ \A i \in 1..Len(backlog'[p]), j \in 1..Len(stream') :
                ~PrecedeNext(backlog'[p][i], stream'[j])
           /\ \A i, j \in 1..Len(backlog'[p]) :
                PrecedeNext(backlog'[p][i], backlog'[p][j]) => i < j
  PROVE  OutInv'
BY DEF OutInv, MustPrecede, PrecedeNext

\* A step brings no new precedence between two settled requests.
LEMMA PrecedenceStays ==
  ASSUME OutStep, NEW x \in Requests, NEW y \in Requests, Settled(x), Settled(y),
         PrecedeNext(x, y)
  PROVE  MustPrecede(x, y)
BY DEF OutStep, MustPrecede, PrecedeNext

LEMMA AnswersKeep ==
  ASSUME TasksTypeOK, AnswerInv, AnswerStep
  PROVE  AnswerInv'
<1>1. \A y \in Answered : req'[y].at = "done"
  BY DEF Answered, AnswerInv, AnswerStep
<1>2. \A x \in Requests : \A y \in before[x] : y \in Requests
  BY DEF TasksTypeOK
<1>3. \A x \in Requests : \A y \in before'[x] : req'[y].at = "done"
  BY <1>1, <1>2 DEF AnswerInv, AnswerStep
<1> QED
  BY <1>3 DEF AnswerInv, AnswerStep

\* A step that leaves the stream alone, and at most empties a buffer.
LEMMA SameOut ==
  ASSUME IInv, OutInv, OutStep, stream' = stream,
         \A p \in TasksPods : backlog'[p] = backlog[p] \/ backlog'[p] = <<>>
  PROVE  OutInv'
<1>1. \A i, j \in 1..Len(stream') : PrecedeNext(stream'[i], stream'[j]) => i < j
  BY OutIsSettled, PrecedenceStays DEF OutInv
<1>2. ASSUME NEW p \in TasksPods, NEW i \in 1..Len(backlog'[p])
      PROVE  i \in 1..Len(backlog[p]) /\ backlog'[p] = backlog[p]
  BY <1>2
<1>3. ASSUME NEW p \in TasksPods, NEW i \in 1..Len(backlog'[p]), NEW j \in 1..Len(stream')
      PROVE  ~PrecedeNext(backlog'[p][i], stream'[j])
  BY <1>2, OutIsSettled, PrecedenceStays DEF OutInv
<1>4. ASSUME NEW p \in TasksPods, NEW i \in 1..Len(backlog'[p]), NEW j \in 1..Len(backlog'[p]),
             PrecedeNext(backlog'[p][i], backlog'[p][j])
      PROVE  i < j
  BY <1>2, <1>4, OutIsSettled, PrecedenceStays DEF OutInv
<1> QED
  BY <1>1, <1>3, <1>4, OutNext

\* publish stores its message behind everything else.  The client has no
\* answer yet, so that the message precedes nothing; and what waits in a buffer
\* waits in that of another pod.
LEMMA StoreInOrder ==
  ASSUME IInv, AnswerInv, OutInv, OutStep, NEW q \in Requests, req[q].at = "publish",
         stream' = Append(stream, q), before' = before, backlog' = backlog,
         backlog[req[q].pod] = <<>>, late' = late, \A x \in Requests : req'[x].pod = req[x].pod
  PROVE  OutInv'
<1>1. /\ stream \in Seq(Requests) /\ Len(stream) \in Nat
      /\ Len(stream') = Len(stream) + 1
      /\ \A i \in 1..Len(stream') :
           \/ i \in 1..Len(stream) /\ stream'[i] = stream[i]
           \/ i = Len(stream) + 1 /\ stream'[i] = q
  BY DEF IInv, TypeOK, JSTypeOK
<1>2. \A x \in Requests : ~PrecedeNext(q, x)
  BY DEF AnswerInv, PrecedeNext
<1>3. \A i \in 1..Len(stream') : stream'[i] \in Requests
  BY <1>1, OutIsSettled
<1>4. ASSUME NEW i \in 1..Len(stream'), NEW j \in 1..Len(stream'),
             PrecedeNext(stream'[i], stream'[j])
      PROVE  i < j
  <2>1. i \in 1..Len(stream) /\ stream'[i] = stream[i]
    BY <1>1, <1>2, <1>3, <1>4
  <2>2. CASE j \in 1..Len(stream) /\ stream'[j] = stream[j]
    BY <1>4, <2>1, <2>2, OutIsSettled, PrecedenceStays DEF OutInv
  <2> QED
    BY <1>1, <2>1, <2>2
<1>5. ASSUME NEW p \in TasksPods, NEW i \in 1..Len(backlog'[p]), NEW j \in 1..Len(stream')
      PROVE  ~PrecedeNext(backlog'[p][i], stream'[j])
  <2>1. /\ i \in 1..Len(backlog[p]) /\ backlog'[p][i] = backlog[p][i]
        /\ p # req[q].pod
    BY <1>5
  <2>2. PICK x \in Requests : x = backlog[p][i] /\ Settled(x) /\ x \in late /\ req[x].pod = p
    BY <2>1, OutIsSettled
  <2>3. CASE j \in 1..Len(stream) /\ stream'[j] = stream[j]
    BY <2>1, <2>3, OutIsSettled, PrecedenceStays DEF OutInv
  <2>4. CASE stream'[j] = q
    BY <2>1, <2>2, <2>4 DEF PrecedeNext
  <2> QED
    BY <1>1, <2>3, <2>4
<1>6. ASSUME NEW p \in TasksPods, NEW i \in 1..Len(backlog'[p]), NEW j \in 1..Len(backlog'[p]),
             PrecedeNext(backlog'[p][i], backlog'[p][j])
      PROVE  i < j
  BY <1>6, OutIsSettled, PrecedenceStays DEF OutInv
<1> QED
  BY <1>4, <1>5, <1>6, OutNext

\* A message given up goes behind those that wait already.
LEMMA BufferInOrder ==
  ASSUME IInv, AnswerInv, OutInv, OutStep, NEW q \in Requests, req[q].at = "publish",
         NEW r \in TasksPods, backlog' = [backlog EXCEPT ![r] = Append(@, q)],
         stream' = stream, before' = before
  PROVE  OutInv'
<1>1. /\ \A p \in TasksPods : backlog[p] \in Seq(Requests) /\ Len(backlog[p]) \in Nat
      /\ backlog \in [TasksPods -> Seq(Requests)]
  BY DEF IInv, TypeOK, TasksTypeOK
<1>2. ASSUME NEW p \in TasksPods, NEW i \in 1..Len(backlog'[p])
      PROVE  \/ i \in 1..Len(backlog[p]) /\ backlog'[p][i] = backlog[p][i]
             \/ i = Len(backlog[p]) + 1 /\ backlog'[p][i] = q
  <2>1. CASE p = r
    <3>1. backlog'[p] = Append(backlog[p], q)
      BY <1>1, <2>1
    <3> QED
      BY <1>1, <3>1
  <2>2. CASE p # r
    BY <1>1, <2>2
  <2> QED
    BY <2>1, <2>2
<1>3. \A x \in Requests : ~PrecedeNext(q, x)
  BY DEF AnswerInv, PrecedeNext
<1>4. \A i, j \in 1..Len(stream') : PrecedeNext(stream'[i], stream'[j]) => i < j
  BY OutIsSettled, PrecedenceStays DEF OutInv
<1>5. ASSUME NEW p \in TasksPods, NEW i \in 1..Len(backlog'[p]), NEW j \in 1..Len(stream')
      PROVE  ~PrecedeNext(backlog'[p][i], stream'[j])
  BY <1>2, <1>3, OutIsSettled, PrecedenceStays DEF OutInv
<1>6. ASSUME NEW p \in TasksPods, NEW i \in 1..Len(backlog'[p]), NEW j \in 1..Len(backlog'[p]),
             PrecedeNext(backlog'[p][i], backlog'[p][j])
      PROVE  i < j
  <2>1. backlog'[p][j] \in Requests
    BY <1>2, OutIsSettled
  <2>2. i \in 1..Len(backlog[p]) /\ backlog'[p][i] = backlog[p][i]
    BY <1>2, <1>3, <1>6, <2>1
  <2>3. CASE j \in 1..Len(backlog[p]) /\ backlog'[p][j] = backlog[p][j]
    BY <1>6, <2>2, <2>3, OutIsSettled, PrecedenceStays DEF OutInv
  <2>4. CASE j = Len(backlog[p]) + 1
    BY <1>1, <2>2, <2>4
  <2> QED
    BY <1>2, <2>3, <2>4
<1> QED
  BY <1>4, <1>5, <1>6, OutNext

\* The first message of a buffer goes out.
LEMMA FlushInOrder ==
  ASSUME IInv, OutInv, OutStep, NEW r \in TasksPods, backlog[r] # <<>>,
         backlog' = [backlog EXCEPT ![r] = Tail(@)],
         stream' \in {stream, Append(stream, Head(backlog[r]))}
  PROVE  OutInv'
<1>1. /\ \A p \in TasksPods \ {r} : backlog'[p] = backlog[p]
      /\ Len(backlog[r]) \in Nat \ {0} /\ Head(backlog[r]) = backlog[r][1]
      /\ \A i \in 1..Len(backlog'[r]) : i + 1 \in 1..Len(backlog[r])
                                        /\ backlog'[r][i] = backlog[r][i + 1]
  BY BacklogShrinks DEF IInv, TypeOK
<1>2. PICK shift \in [TasksPods -> 0..1] :
        /\ shift[r] = 1
        /\ \A p \in TasksPods : \A i \in 1..Len(backlog'[p]) :
             /\ i + shift[p] \in 1..Len(backlog[p])
             /\ backlog'[p][i] = backlog[p][i + shift[p]]
  <2> DEFINE s == [p \in TasksPods |-> IF p = r THEN 1 ELSE 0]
  <2>1. s \in [TasksPods -> 0..1] /\ s[r] = 1
    OBVIOUS
  <2>2. ASSUME NEW p \in TasksPods, NEW i \in 1..Len(backlog'[p])
        PROVE  i + s[p] \in 1..Len(backlog[p]) /\ backlog'[p][i] = backlog[p][i + s[p]]
    BY <1>1
  <2> HIDE DEF s
  <2> QED
    BY <2>1, <2>2
<1>3. /\ stream \in Seq(Requests) /\ Len(stream) \in Nat /\ 1 \in 1..Len(backlog[r])
      /\ \A i \in 1..Len(stream') :
           \/ i \in 1..Len(stream) /\ stream'[i] = stream[i]
           \/ i = Len(stream) + 1 /\ stream'[i] = backlog[r][1]
  <2> DEFINE x == backlog[r][1]
  <2>1. stream \in Seq(Requests) /\ Len(stream) \in Nat /\ 1 \in 1..Len(backlog[r])
    BY <1>1 DEF IInv, TypeOK, JSTypeOK
  <2>2. x \in Requests
    BY <2>1, OutIsSettled
  <2>3. stream' = stream \/ stream' = Append(stream, x)
    BY <1>1
  <2> HIDE DEF x
  <2>4. \A i \in 1..Len(stream') :
          \/ i \in 1..Len(stream) /\ stream'[i] = stream[i]
          \/ i = Len(stream) + 1 /\ stream'[i] = x
    BY <2>1, <2>2, <2>3
  <2> QED
    BY <2>1, <2>4 DEF x
<1>4. ASSUME NEW i \in 1..Len(stream'), NEW j \in 1..Len(stream'),
             PrecedeNext(stream'[i], stream'[j])
      PROVE  i < j
  <2>1. stream'[i] \in Requests /\ Settled(stream'[i]) /\ stream'[j] \in Requests /\ Settled(stream'[j])
    BY <1>3, OutIsSettled
  <2>2. MustPrecede(stream'[i], stream'[j])
    BY <1>4, <2>1, PrecedenceStays
  <2>3. i \in 1..Len(stream) /\ stream'[i] = stream[i]
    BY <1>3, <2>2 DEF OutInv
  <2>4. CASE j \in 1..Len(stream) /\ stream'[j] = stream[j]
    BY <2>2, <2>3, <2>4 DEF OutInv
  <2> QED
    BY <1>3, <2>3, <2>4
<1>5. ASSUME NEW p \in TasksPods, NEW i \in 1..Len(backlog'[p]), NEW j \in 1..Len(stream')
      PROVE  ~PrecedeNext(backlog'[p][i], stream'[j])
  <2> SUFFICES ASSUME PrecedeNext(backlog'[p][i], stream'[j]) PROVE FALSE
    OBVIOUS
  <2> DEFINE n == i + shift[p]
  <2>1. n \in 1..Len(backlog[p]) /\ backlog'[p][i] = backlog[p][n]
    BY <1>2
  <2> HIDE DEF n
  <2>2. PICK x \in Requests : x = backlog[p][n] /\ Settled(x) /\ x \in late /\ req[x].pod = p
    BY <2>1, OutIsSettled
  <2>3. stream'[j] \in Requests /\ Settled(stream'[j])
    BY <1>3, OutIsSettled
  <2>4. MustPrecede(x, stream'[j])
    BY <2>1, <2>2, <2>3, PrecedenceStays
  <2>5. stream'[j] = backlog[r][1]
    BY <1>3, <2>1, <2>2, <2>4 DEF OutInv
  <2>6. p = r
    BY <1>3, <2>2, <2>4, <2>5, OutIsSettled DEF MustPrecede
  <2>7. n < 1
    BY <1>3, <2>1, <2>2, <2>4, <2>5, <2>6 DEF OutInv
  <2> QED
    BY <2>1, <2>7
<1>6. ASSUME NEW p \in TasksPods, NEW i \in 1..Len(backlog'[p]), NEW j \in 1..Len(backlog'[p]),
             PrecedeNext(backlog'[p][i], backlog'[p][j])
      PROVE  i < j
  <2>1. PICK n \in 1..Len(backlog[p]), m \in 1..Len(backlog[p]) :
          /\ n = i + shift[p] /\ backlog'[p][i] = backlog[p][n]
          /\ m = j + shift[p] /\ backlog'[p][j] = backlog[p][m]
    BY <1>2
  <2>2. n < m
    BY <1>6, <2>1, OutIsSettled, PrecedenceStays DEF OutInv
  <2>3. shift[p] \in 0..1
    OBVIOUS
  <2> QED
    BY <2>1, <2>2, <2>3
<1> QED
  BY <1>4, <1>5, <1>6, OutNext

\* A handler's step that publishes nothing.
LEMMA HandlerKeepsOrder ==
  ASSUME IInv, OrderInv, NEW q \in Requests, req[q].at # "done",
         \A x \in Requests \ {q} : req'[x] = req[x],
         req'[q].status = "ok" => req'[q].at = "done",
         \/ before' = before /\ (Settled(q) => req'[q].pod = req[q].pod)
         \/ req[q].at = "new" /\ before' = [before EXCEPT ![q] = Answered],
         UNCHANGED <<stream, outVars>>
  PROVE  OrderInv'
<1>1. before \in [Requests -> SUBSET Requests] /\ TasksTypeOK
  BY DEF IInv, TypeOK, TasksTypeOK
<1>2. AnswerStep
  BY <1>1 DEF AnswerStep, OrderInv, AnswerInv
<1>3. OutStep
  BY <1>1 DEF OutStep, Settled, outVars
<1> QED
  BY <1>1, <1>2, <1>3, AnswersKeep, SameOut DEF OrderInv, outVars

LEMMA PublishKeepsOrder ==
  ASSUME IInv, OrderInv, NEW q \in Requests, publish(q)
  PROVE  OrderInv'
<1>1. PICK p \in TasksPods : p = req[q].pod
  BY DEF publish, IInv, ReqInv
<1>2. /\ req[q].at = "publish" /\ before' = before
      /\ \A x \in Requests : req'[x].pod = req[x].pod
      /\ \A x \in Requests \ {q} : req'[x] = req[x]
      /\ req'[q].at = "reply" /\ req'[q].status = req[q].status
  BY DEF publish, IInv, TypeOK, TasksTypeOK
<1>3. AnswerStep
  BY <1>2 DEF AnswerStep, OrderInv, AnswerInv
<1>4. AnswerInv'
  BY <1>3, AnswersKeep DEF OrderInv, IInv, TypeOK
<1>5. CASE backlog[p] = <<>> /\ stream' = Append(stream, q) /\ UNCHANGED outVars
  <2>1. OutStep
    BY <1>2, <1>5 DEF OutStep, outVars
  <2> QED
    BY <1>1, <1>2, <1>4, <1>5, <2>1, StoreInOrder DEF OrderInv, outVars
<1>6. CASE stream' = stream /\ UNCHANGED outVars
  <2>1. OutStep
    BY <1>2, <1>6 DEF OutStep, outVars
  <2> QED
    BY <1>4, <1>6, <2>1, SameOut DEF OrderInv, outVars
<1>7. CASE stream' = stream /\ backlog' = [backlog EXCEPT ![p] = Append(@, q)]
           /\ late' = late \cup {q}
  <2>1. OutStep
    BY <1>2, <1>7 DEF OutStep
  <2> QED
    BY <1>2, <1>4, <1>7, <2>1, BufferInOrder DEF OrderInv
<1> QED
  BY <1>1, <1>5, <1>6, <1>7 DEF publish, Store, jsVars

LEMMA StepKeepsOrder ==
  ASSUME IInv, OrderInv, [Next]_vars
  PROVE  OrderInv'
<1>0. TasksTypeOK
  BY DEF IInv, TypeOK
<1>1. ASSUME UNCHANGED <<req, before, late, stream, backlog>>
      PROVE  OrderInv'
  <2>1. OutStep /\ AnswerStep
    BY <1>1 DEF OutStep, AnswerStep, OrderInv, AnswerInv
  <2> QED
    BY <1>0, <1>1, <2>1, AnswersKeep, SameOut DEF OrderInv
<1>2. ASSUME NEW p \in TasksPods, StartTasksPod(p) PROVE OrderInv'
  BY <1>1, <1>2 DEF StartTasksPod, AddStream, jsVars, outVars
<1>3. ASSUME NEW p \in TasksPods, StopTasksPod(p) PROVE OrderInv'
  <2>1. UNCHANGED <<before, stream, late>>
    BY <1>3 DEF StopTasksPod, jsVars
  <2>2. \A q \in Requests :
          /\ req'[q].pod = req[q].pod
          /\ \/ req'[q] = req[q]
             \/ req'[q].at = "done" /\ req'[q].status = "lost"
    BY <1>0, <1>3 DEF StopTasksPod, TasksTypeOK
  <2>3. \A r \in TasksPods : backlog'[r] = backlog[r] \/ backlog'[r] = <<>>
    BY <1>0, <1>3 DEF StopTasksPod, TasksTypeOK
  <2>4. OutStep /\ AnswerStep
    BY <2>1, <2>2 DEF OutStep, AnswerStep, OrderInv, AnswerInv
  <2> QED
    BY <1>0, <2>1, <2>3, <2>4, AnswersKeep, SameOut DEF OrderInv
<1>4. ASSUME NEW p \in TasksPods, Flush(p) PROVE OrderInv'
  <2>1. /\ UNCHANGED <<req, before, late>> /\ backlog[p] # <<>>
        /\ backlog' = [backlog EXCEPT ![p] = Tail(@)]
        /\ stream' \in {stream, Append(stream, Head(backlog[p]))}
    BY <1>4 DEF Flush, Store, jsVars
  <2>2. OutStep /\ AnswerStep
    BY <2>1 DEF OutStep, AnswerStep, OrderInv, AnswerInv
  <2> QED
    BY <1>0, <2>1, <2>2, AnswersKeep, FlushInOrder DEF OrderInv
<1>5. ASSUME NEW q \in Requests, NEW p \in TasksPods, NEW newTasks, req[q].at = "new",
             WriteEvent(q, p, newTasks)
      PROVE  OrderInv'
  <2>1. /\ \A x \in Requests \ {q} : req'[x] = req[x]
        /\ req'[q].status = "ok" => req'[q].at = "done"
        /\ before' = [before EXCEPT ![q] = Answered]
        /\ UNCHANGED <<stream, outVars>>
    BY <1>0, <1>5 DEF WriteEvent, Return, ToPublish, TasksTypeOK, jsVars
  <2> QED
    BY <1>5, <2>1, HandlerKeepsOrder
<1>6. ASSUME NEW q \in Requests, NEW p \in TasksPods, NEW status \in Statuses,
             req[q].at = "new" \/ (req[q].at = "reply" /\ p = req[q].pod),
             Return(q, p, status), UNCHANGED <<before, stream, outVars>>
      PROVE  OrderInv'
  <2>1. /\ \A x \in Requests \ {q} : req'[x] = req[x]
        /\ req'[q].at = "done" /\ req'[q].pod = p
    BY <1>0, <1>6 DEF Return, TasksTypeOK
  <2>2. req[q].at # "done" /\ (Settled(q) => req'[q].pod = req[q].pod)
    BY <1>6, <2>1 DEF Settled
  <2> QED
    BY <1>6, <2>1, <2>2, HandlerKeepsOrder
<1>7. ASSUME NEW q \in Requests, TasksHandler(q) PROVE OrderInv'
  <2>1. ASSUME NEW p \in TasksPods, Refuse(q, p) PROVE OrderInv'
    BY <1>6, <2>1 DEF Refuse, Arrives, Statuses, jsVars
  <2>2. ASSUME NEW p \in TasksPods, NEW u \in Users, createTask(q, p, u) PROVE OrderInv'
    BY <1>5, <2>2 DEF createTask, Arrives
  <2>3. ASSUME NEW p \in TasksPods, NEW u \in Users, NEW t \in TaskIds,
               updateTask(q, p, u, t)
        PROVE  OrderInv'
    BY <1>5, <1>6, <2>3 DEF updateTask, NotFound, Arrives, Statuses, jsVars
  <2>4. ASSUME NEW p \in TasksPods, NEW u \in Users, NEW t \in TaskIds,
               deleteTask(q, p, u, t)
        PROVE  OrderInv'
    BY <1>6, <2>4 DEF deleteTask, NotFound, Arrives, Statuses, jsVars
  <2>5. CASE reply(q)
    <3>1. PICK p \in TasksPods : p = req[q].pod /\ req[q].at = "reply"
      BY <2>5 DEF reply, IInv, ReqInv
    <3> QED
      BY <1>6, <2>5, <3>1 DEF reply, Statuses, jsVars
  <2> QED
    BY <1>7, <2>1, <2>2, <2>3, <2>4, <2>5, PublishKeepsOrder DEF TasksHandler
<1>8. CASE NotifierNext /\ UNCHANGED tasksVars
  BY <1>1, <1>8, NotifierLeavesStream DEF tasksVars, outVars
<1>9. CASE UNCHANGED vars
  BY <1>1, <1>9 DEF vars, tasksVars, outVars, jsVars
<1> QED
  BY <1>2, <1>3, <1>4, <1>7, <1>8, <1>9 DEF Next, TasksNext

\* Events stand in the stream in the order in which clients had their answers:
\* publish precedes the reply, a handler that has not committed has published
\* nothing, and a message that was given up while its pod reconnected is
\* overtaken by messages of other pods only.
THEOREM StreamFollowsAnswers == Safety => []RealTimeOrder
<1>1. Init => OrderInv
  BY DEF Init, JSInit, TasksInit, OrderInv, AnswerInv, OutInv
<1>2. IInv /\ OrderInv => RealTimeOrder
  <2> SUFFICES ASSUME IInv, OrderInv, NEW q1 \in StreamedSet, NEW q2 \in StreamedSet,
                      MustPrecede(q1, q2)
               PROVE  PositionOf(q1) < PositionOf(q2)
    BY DEF RealTimeOrder
  <2>1. PublishedOnce
    BY DEF IInv
  <2> QED
    BY <2>1, PositionHolds DEF OrderInv, OutInv
<1> QED
  BY <1>1, <1>2, Invariance, StepPreserves, StepKeepsOrder, PTL DEF Safety

-----------------------------------------------------------------------------
(***************************************************************************)
(* The number of copies.                                                   *)
(***************************************************************************)
\* The message in place i of the batch of r has had its INSERT.
Inserted(r, i) == i = 1 /\ pc[r] \in {"fanout", "ack"}

\* The places of batches where a copy of q waits for its INSERT.
ToInsert(q) ==
  {place \in NotifierPods \X (Nat \ {0}) :
     /\ place[2] <= Len(batch[place[1]])
     /\ batch[place[1]][place[2]] = q
     /\ ~Inserted(place[1], place[2])}

\* Every row of q, and every copy of q that may still make a row, goes back to
\* a delivery of its own.
InsertInv ==
  \A q \in Requests :
    /\ IsFiniteSet(ToInsert(q))
    /\ \A e \in Envs : rows[e][q] + Cardinality(ToInsert(q)) <= deliveries[q]

\* The part of InsertInv that concerns one message.
InsertInvOf(q) ==
  /\ IsFiniteSet(ToInsert(q))
  /\ \A e \in Envs : rows[e][q] + Cardinality(ToInsert(q)) <= deliveries[q]

\* A place of ToInsert, spelled out.
LEMMA InToInsert ==
  ASSUME NEW q, NEW r, NEW i
  PROVE  <<r, i>> \in ToInsert(q) <=>
           /\ r \in NotifierPods /\ i \in Nat \ {0}
           /\ i <= Len(batch[r]) /\ batch[r][i] = q /\ ~Inserted(r, i)
  BY DEF ToInsert

\* Fewer places, no new rows: nothing is exceeded.
LEMMA FewerPlaces ==
  ASSUME TypeOK, TypeOK', NEW q \in Requests, InsertInvOf(q),
         ToInsert(q)' \subseteq ToInsert(q),
         \A e \in Envs : rows'[e][q] = rows[e][q],
         deliveries'[q] >= deliveries[q]
  PROVE  InsertInvOf(q)'
<1>1. /\ IsFiniteSet(ToInsert(q)')
      /\ Cardinality(ToInsert(q)') <= Cardinality(ToInsert(q))
  BY FS_Subset DEF InsertInvOf
<1>2. Cardinality(ToInsert(q)') \in Nat /\ Cardinality(ToInsert(q)) \in Nat
  BY <1>1, FS_CardinalityType DEF InsertInvOf
<1>3. /\ deliveries[q] \in Nat /\ deliveries'[q] \in Nat
      /\ \A e \in Envs : rows[e][q] \in Nat /\ rows'[e][q] \in Nat
  BY DEF TypeOK, JSTypeOK, NotifierTypeOK
<1>4. ASSUME NEW e \in Envs
      PROVE  rows'[e][q] + Cardinality(ToInsert(q)') <= deliveries'[q]
  <2>1. rows[e][q] + Cardinality(ToInsert(q)) <= deliveries[q]
    BY DEF InsertInvOf
  <2> QED
    BY <1>1, <1>2, <1>3, <2>1
<1> QED
  BY <1>1, <1>4 DEF InsertInvOf

\* A delivery adds one place for its message, and none for the others.
LEMMA DeliverKeepsInserts ==
  ASSUME TypeOK, TypeOK', InsertInv, NEW r \in NotifierPods, NEW x \in Requests,
         Deliver(r, x), NEW q \in Requests
  PROVE  InsertInvOf(q)'
<1>1. /\ batch[r] \in Seq(Requests) /\ Len(batch[r]) \in Nat
      /\ batch' = [batch EXCEPT ![r] = Append(@, x)] /\ pc' = pc /\ rows' = rows
      /\ deliveries' = [deliveries EXCEPT ![x] = @ + 1]
      /\ batch \in [NotifierPods -> Seq(Requests)]
      /\ deliveries \in [Requests -> Nat]
  BY DEF Deliver, HandOut, TypeOK, NotifierTypeOK, JSTypeOK
<1>2. DEFINE n == Len(batch[r]) + 1
<1>3. /\ Len(batch'[r]) = n /\ batch'[r][n] = x
      /\ \A i \in 1..Len(batch[r]) : batch'[r][i] = batch[r][i]
      /\ \A s \in NotifierPods \ {r} : batch'[s] = batch[s]
      /\ n \in Nat
  BY <1>1
<1>4. InsertInvOf(q)
  BY DEF InsertInv, InsertInvOf
<1>5. CASE q # x
  <2>1. ToInsert(q)' \subseteq ToInsert(q)
    <3>1. ASSUME NEW place \in ToInsert(q)' PROVE place \in ToInsert(q)
      <4>1. /\ place = <<place[1], place[2]>>
            /\ place[1] \in NotifierPods /\ place[2] \in Nat \ {0}
            /\ place[2] <= Len(batch'[place[1]])
            /\ batch'[place[1]][place[2]] = q
            /\ ~Inserted(place[1], place[2])'
        BY <3>1 DEF ToInsert
      <4>2. ~(place[1] = r /\ place[2] = n)
        BY <1>3, <1>5, <4>1
      <4>3. place[2] <= Len(batch[place[1]]) /\ batch[place[1]][place[2]] = q
        BY <1>1, <1>3, <4>1, <4>2
      <4>4. ~Inserted(place[1], place[2])
        BY <1>1, <4>1 DEF Inserted
      <4> QED
        BY <4>1, <4>3, <4>4 DEF ToInsert
    <3> QED
      BY <3>1
  <2>2. deliveries'[q] >= deliveries[q]
    BY <1>1, <1>5
  <2> QED
    BY <1>1, <1>4, <2>1, <2>2, FewerPlaces
<1>6. CASE q = x
  <2>1. ToInsert(q)' \subseteq ToInsert(q) \cup {<<r, n>>}
    <3>1. ASSUME NEW place \in ToInsert(q)', place # <<r, n>> PROVE place \in ToInsert(q)
      <4>1. /\ place = <<place[1], place[2]>>
            /\ place[1] \in NotifierPods /\ place[2] \in Nat \ {0}
            /\ place[2] <= Len(batch'[place[1]])
            /\ batch'[place[1]][place[2]] = q
            /\ ~Inserted(place[1], place[2])'
        BY <3>1 DEF ToInsert
      <4>2. ~(place[1] = r /\ place[2] = n)
        BY <3>1, <4>1
      <4>3. place[2] <= Len(batch[place[1]]) /\ batch[place[1]][place[2]] = q
        BY <1>1, <1>3, <4>1, <4>2
      <4>4. ~Inserted(place[1], place[2])
        BY <1>1, <4>1 DEF Inserted
      <4> QED
        BY <4>1, <4>3, <4>4 DEF ToInsert
    <3> QED
      BY <3>1
  <2>2. /\ IsFiniteSet(ToInsert(q) \cup {<<r, n>>})
        /\ Cardinality(ToInsert(q) \cup {<<r, n>>}) <= Cardinality(ToInsert(q)) + 1
        /\ Cardinality(ToInsert(q)) \in Nat
    <3>1. IsFiniteSet(ToInsert(q)) /\ Cardinality(ToInsert(q)) \in Nat
      BY <1>4, FS_CardinalityType DEF InsertInvOf
    <3>2. /\ IsFiniteSet(ToInsert(q) \cup {<<r, n>>})
          /\ \/ Cardinality(ToInsert(q) \cup {<<r, n>>}) = Cardinality(ToInsert(q))
             \/ Cardinality(ToInsert(q) \cup {<<r, n>>}) = Cardinality(ToInsert(q)) + 1
      BY <3>1, FS_AddElement
    <3> QED
      BY <3>1, <3>2
  <2>3. /\ IsFiniteSet(ToInsert(q)')
        /\ Cardinality(ToInsert(q)') <= Cardinality(ToInsert(q) \cup {<<r, n>>})
    BY <2>1, <2>2, FS_Subset
  <2>4. /\ Cardinality(ToInsert(q)') \in Nat
        /\ Cardinality(ToInsert(q) \cup {<<r, n>>}) \in Nat
    BY <2>2, <2>3, FS_CardinalityType
  <2>5. deliveries'[q] = deliveries[q] + 1 /\ deliveries[q] \in Nat
    BY <1>1, <1>6
  <2>6. ASSUME NEW e \in Envs
        PROVE  rows'[e][q] + Cardinality(ToInsert(q)') <= deliveries'[q]
    <3>1. rows[e][q] + Cardinality(ToInsert(q)) <= deliveries[q] /\ rows[e][q] \in Nat
      BY <1>4 DEF InsertInvOf, TypeOK, NotifierTypeOK
    <3> HIDE DEF n
    <3> QED
      BY <1>1, <2>2, <2>3, <2>4, <2>5, <3>1
  <2> QED
    BY <2>3, <2>6 DEF InsertInvOf
<1> QED
  BY <1>5, <1>6

\* An INSERT leaves the rows of other messages alone.
LEMMA RowsAfterInsert ==
  ASSUME rows \in [Envs -> [Requests -> Nat]], NEW e0 \in Envs, NEW x \in Requests,
         \/ rows' = [rows EXCEPT ![e0][x] = @ + 1]
         \/ rows' = rows,
         NEW e \in Envs, NEW q \in Requests
  PROVE  /\ q # x => rows'[e][q] = rows[e][q]
         /\ rows'[e][q] = rows[e][q] \/ rows'[e][q] = rows[e][q] + 1
<1>1. CASE rows' = [rows EXCEPT ![e0][x] = @ + 1]
  <2>1. rows'[e] = IF e = e0 THEN [rows[e] EXCEPT ![x] = @ + 1] ELSE rows[e]
    BY <1>1
  <2>2. rows[e] \in [Requests -> Nat]
    OBVIOUS
  <2> QED
    BY <2>1, <2>2
<1> QED
  BY <1>1

\* An INSERT takes its message from the ones that wait, and adds at most one row.
LEMMA InsertKeepsInserts ==
  ASSUME TypeOK, TypeOK', LoopInv, InsertInv, NEW r \in NotifierPods, Insert(r),
         NEW q \in Requests
  PROVE  InsertInvOf(q)'
<1>1. /\ batch[r] # <<>> /\ pc[r] = "insert"
      /\ pc' = [pc EXCEPT ![r] = pc'[r]] /\ pc'[r] \in {"fanout", "ack"}
      /\ UNCHANGED <<batch, deliveries>>
      /\ \/ rows' = [rows EXCEPT ![EnvOf[r]][Current(r)] = @ + 1]
         \/ rows' = rows
  BY DEF Insert, Goto, LoopInv, TypeOK, NotifierTypeOK, jsVars
<1>2. Current(r) \in Requests /\ Current(r) = batch[r][1] /\ Len(batch[r]) \in Nat \ {0}
  BY <1>1, HeadInBatch DEF TypeOK
<1>3. InsertInvOf(q)
  BY DEF InsertInv, InsertInvOf
<1>4. ToInsert(q)' \subseteq ToInsert(q) \ {<<r, 1>>}
  <2> SUFFICES ASSUME NEW place \in ToInsert(q)'
               PROVE  place \in ToInsert(q) /\ place # <<r, 1>>
    OBVIOUS
  <2>1. /\ place = <<place[1], place[2]>>
        /\ place[1] \in NotifierPods /\ place[2] \in Nat \ {0}
        /\ place[2] <= Len(batch'[place[1]])
        /\ batch'[place[1]][place[2]] = q
        /\ ~Inserted(place[1], place[2])'
    BY DEF ToInsert
  <2>2. ~(place[1] = r /\ place[2] = 1)
    BY <1>1, <2>1 DEF Inserted
  <2>3. ~Inserted(place[1], place[2])
    BY <1>1, <2>1 DEF Inserted, TypeOK, NotifierTypeOK
  <2> QED
    BY <1>1, <2>1, <2>2, <2>3 DEF ToInsert
<1>5. \A e \in Envs :
        /\ q # Current(r) => rows'[e][q] = rows[e][q]
        /\ rows'[e][q] = rows[e][q] \/ rows'[e][q] = rows[e][q] + 1
  <2>1. EnvOf[r] \in Envs /\ rows \in [Envs -> [Requests -> Nat]]
    BY NotifierAssumption DEF TypeOK, NotifierTypeOK
  <2> DEFINE e0 == EnvOf[r]
             x == Current(r)
  <2>2. \/ rows' = [rows EXCEPT ![e0][x] = @ + 1]
        \/ rows' = rows
    BY <1>1
  <2>3. e0 \in Envs /\ x \in Requests
    BY <1>2, <2>1
  <2> HIDE DEF e0, x
  <2>4. \A e \in Envs :
          /\ q # x => rows'[e][q] = rows[e][q]
          /\ rows'[e][q] = rows[e][q] \/ rows'[e][q] = rows[e][q] + 1
    BY <2>1, <2>2, <2>3, RowsAfterInsert
  <2> QED
    BY <2>4 DEF x
<1>6. CASE q # Current(r)
  <2>1. \A e \in Envs : rows'[e][q] = rows[e][q]
    BY <1>6, <1>5
  <2> QED
    BY <1>1, <1>3, <1>4, <2>1, FewerPlaces DEF TypeOK, JSTypeOK
<1>7. CASE q = Current(r)
  <2>1. <<r, 1>> \in ToInsert(q)
    BY <1>1, <1>2, <1>7 DEF ToInsert, Inserted
  <2>2. /\ IsFiniteSet(ToInsert(q) \ {<<r, 1>>})
        /\ Cardinality(ToInsert(q) \ {<<r, 1>>}) = Cardinality(ToInsert(q)) - 1
        /\ Cardinality(ToInsert(q)) \in Nat
    BY <1>3, <2>1, FS_RemoveElement, FS_CardinalityType DEF InsertInvOf
  <2>3. /\ IsFiniteSet(ToInsert(q)')
        /\ Cardinality(ToInsert(q)') <= Cardinality(ToInsert(q) \ {<<r, 1>>})
    BY <1>4, <2>2, FS_Subset
  <2>4. Cardinality(ToInsert(q)') \in Nat
    BY <2>3, FS_CardinalityType
  <2>5. ASSUME NEW e \in Envs
        PROVE  rows'[e][q] + Cardinality(ToInsert(q)') <= deliveries'[q]
    <3>1. /\ rows[e][q] + Cardinality(ToInsert(q)) <= deliveries[q]
          /\ rows[e][q] \in Nat /\ deliveries[q] \in Nat
      BY <1>3 DEF InsertInvOf, TypeOK, NotifierTypeOK, JSTypeOK
    <3>2. rows'[e][q] = rows[e][q] \/ rows'[e][q] = rows[e][q] + 1
      BY <1>5
    <3>3. deliveries' = deliveries
      BY <1>1
    <3> QED
      BY <2>2, <2>3, <2>4, <3>1, <3>2, <3>3
  <2> QED
    BY <2>3, <2>5 DEF InsertInvOf
<1> QED
  BY <1>6, <1>7

\* An acknowledged message makes room: the others move up by one place.
LEMMA AckKeepsInserts ==
  ASSUME TypeOK, TypeOK', LoopInv, InsertInv, NEW r \in NotifierPods, Ack(r),
         NEW q \in Requests
  PROVE  InsertInvOf(q)'
<1>1. /\ batch[r] # <<>> /\ pc[r] = "ack" /\ batch[r] \in Seq(Requests)
      /\ batch' = [batch EXCEPT ![r] = Tail(@)]
      /\ pc' = [pc EXCEPT ![r] = pc'[r]]
      /\ rows' = rows /\ deliveries' = deliveries
  BY DEF Ack, Goto, TakeAck, LoopInv, TypeOK, NotifierTypeOK, jsVars
<1>2. /\ Len(batch[r]) \in Nat \ {0}
      /\ Len(Tail(batch[r])) = Len(batch[r]) - 1
      /\ \A i \in 1..(Len(batch[r]) - 1) : Tail(batch[r])[i] = batch[r][i + 1]
  BY <1>1
<1>3. /\ batch'[r] = Tail(batch[r])
      /\ \A s \in NotifierPods \ {r} : batch'[s] = batch[s] /\ pc'[s] = pc[s]
  BY <1>1 DEF TypeOK, NotifierTypeOK
<1>4. InsertInvOf(q)
  BY DEF InsertInv, InsertInvOf
<1> DEFINE old(place) == IF place[1] = r THEN <<r, place[2] + 1>> ELSE place
           f == [place \in ToInsert(q)' |-> old(place)]
<1>5. ASSUME NEW place \in ToInsert(q)'
      PROVE  /\ place = <<place[1], place[2]>> /\ place[2] \in Nat \ {0}
             /\ old(place) \in ToInsert(q)
  <2>1. /\ place = <<place[1], place[2]>>
        /\ place[1] \in NotifierPods /\ place[2] \in Nat \ {0}
        /\ place[2] <= Len(batch'[place[1]])
        /\ batch'[place[1]][place[2]] = q
        /\ ~Inserted(place[1], place[2])'
    BY DEF ToInsert
  <2>2. CASE place[1] = r
    <3>1. /\ place[2] \in 1..(Len(batch[r]) - 1)
          /\ batch[r][place[2] + 1] = q
      <4>1. place[2] <= Len(batch[r]) - 1 /\ Tail(batch[r])[place[2]] = q
        BY <1>2, <1>3, <2>1, <2>2
      <4>2. place[2] \in 1..(Len(batch[r]) - 1)
        BY <1>2, <2>1, <4>1
      <4> QED
        BY <1>2, <4>1, <4>2
    <3>2. ~Inserted(r, place[2] + 1) /\ place[2] + 1 \in Nat \ {0}
      BY <2>1 DEF Inserted
    <3>3. <<r, place[2] + 1>> \in ToInsert(q)
      BY <1>2, <3>1, <3>2, InToInsert
    <3> QED
      BY <2>1, <2>2, <3>3
  <2>3. CASE place[1] # r
    <3>1. /\ place[2] <= Len(batch[place[1]]) /\ batch[place[1]][place[2]] = q
          /\ ~Inserted(place[1], place[2])
      BY <1>3, <2>1, <2>3 DEF Inserted
    <3> QED
      BY <2>1, <2>3, <3>1 DEF ToInsert
  <2> QED
    BY <2>2, <2>3
<1>6. f \in Injection(ToInsert(q)', ToInsert(q))
  <2>1. f \in [ToInsert(q)' -> ToInsert(q)]
    BY <1>5
  <2>2. ASSUME NEW a \in ToInsert(q)', NEW b \in ToInsert(q)', f[a] = f[b]
        PROVE  a = b
    <3>1. /\ a = <<a[1], a[2]>> /\ b = <<b[1], b[2]>>
          /\ a[2] \in Nat /\ b[2] \in Nat
      BY <1>5
    <3>2. old(a) = old(b)
      BY <2>2
    <3>3. old(a) = IF a[1] = r THEN <<r, a[2] + 1>> ELSE <<a[1], a[2]>>
      BY <3>1
    <3>4. old(b) = IF b[1] = r THEN <<r, b[2] + 1>> ELSE <<b[1], b[2]>>
      BY <3>1
    <3>5. a[1] = b[1] /\ a[2] = b[2]
      BY <3>1, <3>2, <3>3, <3>4
    <3> QED
      BY <3>1, <3>5
  <2> QED
    BY <2>1, <2>2 DEF Injection, IsInjective
<1>7. /\ IsFiniteSet(ToInsert(q)')
      /\ Cardinality(ToInsert(q)') <= Cardinality(ToInsert(q))
  BY <1>4, <1>6, FS_Injection DEF InsertInvOf
<1>8. Cardinality(ToInsert(q)') \in Nat /\ Cardinality(ToInsert(q)) \in Nat
  BY <1>4, <1>7, FS_CardinalityType DEF InsertInvOf
<1>9. ASSUME NEW e \in Envs
      PROVE  rows'[e][q] + Cardinality(ToInsert(q)') <= deliveries'[q]
  <2>1. /\ rows[e][q] + Cardinality(ToInsert(q)) <= deliveries[q]
        /\ rows[e][q] \in Nat /\ deliveries[q] \in Nat
    BY <1>4 DEF InsertInvOf, TypeOK, NotifierTypeOK, JSTypeOK
  <2> QED
    BY <1>1, <1>7, <1>8, <2>1
<1> QED
  BY <1>7, <1>9 DEF InsertInvOf

LEMMA StepKeepsInserts ==
  ASSUME IInv, InsertInv, [Next]_vars
  PROVE  InsertInv'
<1>0. TypeOK /\ TypeOK' /\ LoopInv
  BY StepPreserves DEF IInv
<1>1. ASSUME UNCHANGED <<rows, deliveries>>, NEW q \in Requests,
             ToInsert(q)' \subseteq ToInsert(q)
      PROVE  InsertInvOf(q)'
  <2>1. InsertInvOf(q)
    BY DEF InsertInv, InsertInvOf
  <2> QED
    BY <1>0, <1>1, <2>1, FewerPlaces DEF TypeOK, JSTypeOK
<1>2. ASSUME UNCHANGED <<pc, batch, rows, deliveries>> PROVE InsertInv'
  BY <1>2 DEF InsertInv, ToInsert, Inserted
<1>3. ASSUME UNCHANGED <<rows, deliveries>>, NEW r \in NotifierPods,
             \A s \in NotifierPods \ {r} : batch'[s] = batch[s] /\ pc'[s] = pc[s],
             \/ batch'[r] = <<>>
             \/ batch'[r] = batch[r] /\ pc[r] \notin {"fanout", "ack"}
             \/ batch'[r] = batch[r] /\ pc'[r] \in {"fanout", "ack"}
      PROVE  InsertInv'
  <2> SUFFICES ASSUME NEW q \in Requests PROVE InsertInvOf(q)'
    BY DEF InsertInv, InsertInvOf
  <2> SUFFICES ASSUME NEW place \in ToInsert(q)' PROVE place \in ToInsert(q)
    BY <1>1, <1>3
  <2>1. /\ place = <<place[1], place[2]>>
        /\ place[1] \in NotifierPods /\ place[2] \in Nat \ {0}
        /\ place[2] <= Len(batch'[place[1]])
        /\ batch'[place[1]][place[2]] = q
        /\ ~Inserted(place[1], place[2])'
    BY DEF ToInsert
  <2>2. batch'[place[1]] # <<>>
    BY <2>1
  <2>3. batch'[place[1]] = batch[place[1]]
    BY <1>3, <2>1, <2>2
  <2>4. ~Inserted(place[1], place[2])
    BY <1>3, <2>1, <2>2 DEF Inserted
  <2> QED
    BY <2>1, <2>3, <2>4 DEF ToInsert
<1>4. ASSUME NEW r \in NotifierPods, Consume(r) PROVE InsertInv'
  <2>1. CASE StartNotifier(r) \/ Subscribe(r) \/ FetchReturns(r) \/ fanout(r)
    <3>1. /\ UNCHANGED <<rows, deliveries, batch>>
          /\ \A s \in NotifierPods \ {r} : pc'[s] = pc[s]
          /\ pc[r] \notin {"fanout", "ack"} \/ pc'[r] \in {"fanout", "ack"}
      BY <1>0, <2>1 DEF StartNotifier, Subscribe, FetchReturns, fanout, Goto, jsVars,
                        TypeOK, NotifierTypeOK
    <3> QED
      BY <1>3, <3>1
  <2>2. ASSUME NEW q \in Requests,
               (\E x \in Requests : Deliver(r, x)) \/ Insert(r) \/ Ack(r)
        PROVE  InsertInvOf(q)'
    BY <1>0, <2>2, DeliverKeepsInserts, InsertKeepsInserts, AckKeepsInserts
  <2> QED
    BY <1>4, <2>1, <2>2 DEF Consume, InsertInv, InsertInvOf
<1>5. ASSUME NEW r \in NotifierPods, StopNotifier(r) PROVE InsertInv'
  <2>1. /\ UNCHANGED <<rows, deliveries>> /\ batch'[r] = <<>>
        /\ \A s \in NotifierPods \ {r} : batch'[s] = batch[s] /\ pc'[s] = pc[s]
    BY <1>0, <1>5 DEF StopNotifier, Goto, jsVars, TypeOK, NotifierTypeOK
  <2> QED
    BY <1>3, <2>1
<1>6. CASE \/ \E q \in Requests : Redeliver(q)
           \/ \E c \in Clients : WriteEventTo(c) \/ Disconnect(c)
           \/ \E c \in Clients, r \in NotifierPods : Connect(c, r)
  BY <1>2, <1>6 DEF Redeliver, AckWaitOver, WriteEventTo, Disconnect, Connect,
                    notifierVars, jsVars
<1>7. CASE TasksNext /\ UNCHANGED notifierVars
  <2>1. deliveries' = deliveries
    <3>1. ASSUME NEW p \in TasksPods, StartTasksPod(p) \/ StopTasksPod(p) \/ Flush(p)
          PROVE  deliveries' = deliveries
      BY <3>1 DEF StartTasksPod, StopTasksPod, Flush, Store, AddStream, jsVars
    <3>2. ASSUME NEW q \in Requests, TasksHandler(q) PROVE deliveries' = deliveries
      BY <3>2 DEF TasksHandler, Refuse, createTask, updateTask, deleteTask, publish, reply,
                  WriteEvent, NotFound, Store, jsVars
    <3> QED
      BY <1>7, <3>1, <3>2 DEF TasksNext
  <2> QED
    BY <1>2, <1>7, <2>1 DEF notifierVars
<1>8. CASE UNCHANGED vars
  BY <1>2, <1>8 DEF vars, jsVars, notifierVars
<1> QED
  BY <1>4, <1>5, <1>6, <1>7, <1>8 DEF Next, NotifierNext

\* Copies of a notification come from redeliveries only: one delivery never
\* writes two rows, wherever pods crash and acknowledgements get lost.
THEOREM CopiesAreRedeliveries == Safety => []DuplicatesAreRedeliveries
<1>1. Init => InsertInv
  <2> SUFFICES ASSUME Init, NEW q \in Requests
               PROVE  /\ IsFiniteSet(ToInsert(q))
                      /\ \A e \in Envs :
                           rows[e][q] + Cardinality(ToInsert(q)) <= deliveries[q]
    BY DEF InsertInv
  <2>1. ToInsert(q) = {}
    BY DEF Init, NotifierInit, ToInsert
  <2>2. IsFiniteSet(ToInsert(q)) /\ Cardinality(ToInsert(q)) = 0
    BY <2>1, FS_EmptySet
  <2> QED
    BY <2>2 DEF Init, JSInit, NotifierInit
<1>2. IInv /\ InsertInv => DuplicatesAreRedeliveries
  <2> SUFFICES ASSUME IInv, InsertInv, NEW q \in Requests, NEW e \in Envs
               PROVE  rows[e][q] <= deliveries[q]
    BY DEF DuplicatesAreRedeliveries
  <2>1. Cardinality(ToInsert(q)) \in Nat
    BY FS_CardinalityType DEF InsertInv
  <2>2. rows[e][q] \in Nat /\ deliveries[q] \in Nat
    BY DEF IInv, TypeOK, NotifierTypeOK, JSTypeOK
  <2> QED
    BY <2>1, <2>2 DEF InsertInv
<1> QED
  BY <1>1, <1>2, Invariance, StepPreserves, StepKeepsInserts, PTL DEF Safety

-----------------------------------------------------------------------------
(***************************************************************************)
(* The order on one connection.                                            *)
(***************************************************************************)
\* What was written to the connection of c, and what its channel holds.
Shown(c) == received[c] \o chan[c]

\* y may come after x: it does in the stream, or it was redelivered.
InOrder(x, y) ==
  \A i, j \in 1..Len(stream) :
    stream[i] = x /\ stream[j] = y /\ i >= j => deliveries[y] > 1

Delivered(q) == q \in StreamedSet /\ deliveries[q] > 0

\* The first message of its batch that the loop of r has not yet fanned out.
FirstToShow(r) == IF pc[r] = "ack" THEN 2 ELSE 1

\* Only what the cursor has passed was delivered, and what is pending was.
PassedInv ==
  /\ \A q \in Requests : deliveries[q] > 0 => \E i \in 1..cursor : stream[i] = q
  /\ \A q \in pending : Delivered(q)

\* Whatever is in a batch or shown was delivered.
DeliveredInv ==
  /\ \A r \in NotifierPods : \A i \in 1..Len(batch[r]) : Delivered(batch[r][i])
  /\ \A c \in Clients : \A i \in 1..Len(Shown(c)) : Delivered(Shown(c)[i])

BatchesInOrder ==
  \A r \in NotifierPods : \A i, j \in 1..Len(batch[r]) :
    i < j => InOrder(batch[r][i], batch[r][j])

ConnectionsInOrder ==
  \A c \in Clients : \A i, j \in 1..Len(Shown(c)) :
    i < j => InOrder(Shown(c)[i], Shown(c)[j])

\* What a loop still has to fan out comes after all that its browsers have.
RestInOrder ==
  \A c \in Clients, r \in NotifierPods : conn[c] = r =>
    \A i \in 1..Len(Shown(c)), j \in 1..Len(batch[r]) :
      j >= FirstToShow(r) => InOrder(Shown(c)[i], batch[r][j])

ShownInv ==
  /\ PassedInv /\ DeliveredInv
  /\ BatchesInOrder /\ ConnectionsInOrder /\ RestInOrder
  /\ \A c \in Clients : conn[c] = NoReplica => Shown(c) = <<>>

\* The same after a step, of messages known before it.
DeliveredNext(q) == q \in StreamedSet' /\ deliveries'[q] > 0

InOrderNext(x, y) ==
  \A i, j \in 1..Len(stream') :
    stream'[i] = x /\ stream'[j] = y /\ i >= j => deliveries'[y] > 1

\* A step moves no message of the stream and forgets no delivery.
LEMMA StreamGrows ==
  ASSUME IInv, [Next]_vars
  PROVE  /\ \A i \in 1..Len(stream) : i \in 1..Len(stream') /\ stream'[i] = stream[i]
         /\ \A q \in Requests : deliveries'[q] >= deliveries[q]
<1>1. stream \in Seq(Requests) /\ deliveries \in [Requests -> Nat]
  BY DEF IInv, TypeOK, JSTypeOK
<1>2. ServerStep \/ UNCHANGED jsVars
  BY EveryStep DEF IInv, vars, jsVars
<1>3. stream' = stream \/ \E q \in Requests : stream' = Append(stream, q)
  BY <1>2 DEF ServerStep, AddStream, Store, HandOut, TakeAck, AckWaitOver, jsVars
<1>4. \A i \in 1..Len(stream) : i \in 1..Len(stream') /\ stream'[i] = stream[i]
  BY <1>1, <1>3
<1>5. \A q \in Requests : deliveries'[q] >= deliveries[q]
  BY <1>1, <1>2 DEF ServerStep, AddStream, Store, HandOut, TakeAck, AckWaitOver, jsVars
<1> QED
  BY <1>4, <1>5

\* So what was delivered stays delivered, and what is in order stays in order.
LEMMA StaysDelivered ==
  ASSUME IInv, [Next]_vars, NEW x, Delivered(x)
  PROVE  DeliveredNext(x)
<1>1. PICK i \in 1..Len(stream) : stream[i] = x
  BY DEF Delivered, StreamedSet
<1>2. i \in 1..Len(stream') /\ stream'[i] = x
  BY <1>1, StreamGrows
<1>3. x \in Requests
  BY <1>1 DEF IInv, TypeOK, JSTypeOK
<1>4. deliveries[x] \in Nat /\ deliveries'[x] \in Nat /\ deliveries'[x] >= deliveries[x]
  BY <1>3, StepPreserves, StreamGrows DEF IInv, TypeOK, JSTypeOK
<1> QED
  BY <1>2, <1>4 DEF Delivered, DeliveredNext, StreamedSet

LEMMA StaysInOrder ==
  ASSUME IInv, [Next]_vars, NEW x, NEW y, Delivered(x), Delivered(y), InOrder(x, y)
  PROVE  InOrderNext(x, y)
<1> SUFFICES ASSUME NEW i \in 1..Len(stream'), NEW j \in 1..Len(stream'),
                    stream'[i] = x, stream'[j] = y, i >= j
             PROVE  deliveries'[y] > 1
  BY DEF InOrderNext
<1>1. PICK k \in 1..Len(stream), l \in 1..Len(stream) : stream[k] = x /\ stream[l] = y
  BY DEF Delivered, StreamedSet
<1>2. /\ k \in 1..Len(stream') /\ stream'[k] = x
      /\ l \in 1..Len(stream') /\ stream'[l] = y
  BY <1>1, StreamGrows
<1>3. k = i /\ l = j
  <2>1. PublishedOnce'
    BY StepPreserves DEF IInv
  <2> QED
    BY <1>2, <2>1 DEF PublishedOnce
<1>4. deliveries[y] > 1
  BY <1>1, <1>3 DEF InOrder
<1>5. y \in Requests
  BY <1>1 DEF IInv, TypeOK, JSTypeOK
<1>6. deliveries[y] \in Nat /\ deliveries'[y] \in Nat /\ deliveries'[y] >= deliveries[y]
  BY <1>5, StepPreserves, StreamGrows DEF IInv, TypeOK, JSTypeOK
<1> QED
  BY <1>4, <1>6

\* The message that is handed out has been stored, the cursor has passed it
\* when it has been, and this is its second delivery if it was pending.
LEMMA HandedOut ==
  ASSUME IInv, PassedInv, NEW q \in Requests, HandOut(q)
  PROVE  /\ q \in StreamedSet /\ stream' = stream
         /\ deliveries' = [deliveries EXCEPT ![q] = @ + 1]
         /\ \/ deliveries[q] > 0 /\ cursor' = cursor
            \/ cursor + 1 \in 1..Len(stream) /\ q = stream[cursor + 1] /\ cursor' = cursor + 1
<1>1. JSTypeOK /\ redeliver \subseteq pending
  BY DEF IInv, TypeOK, JSTypeOK
<1>2. CASE q \in redeliver /\ cursor' = cursor
  BY <1>1, <1>2 DEF PassedInv, Delivered, HandOut
<1>3. CASE cursor < Len(stream) /\ q = stream[cursor + 1] /\ cursor' = cursor + 1
  <2>1. cursor + 1 \in 1..Len(stream)
    BY <1>1, <1>3 DEF JSTypeOK
  <2> QED
    BY <1>3, <2>1 DEF HandOut, StreamedSet
<1> QED
  BY <1>2, <1>3 DEF HandOut

LEMMA StepKeepsPassed ==
  ASSUME IInv, PassedInv, [Next]_vars
  PROVE  PassedInv'
<1>1. ServerStep \/ UNCHANGED jsVars
  BY EveryStep DEF IInv, vars, jsVars
<1>2. /\ stream \in Seq(Requests) /\ cursor \in Nat /\ cursor <= Len(stream)
      /\ deliveries \in [Requests -> Nat] /\ pending \subseteq Requests
  BY DEF IInv, TypeOK, JSTypeOK
<1>3. \A q \in pending : DeliveredNext(q)
  BY StaysDelivered DEF PassedInv
<1>4. CASE UNCHANGED jsVars \/ AddStream \/ \E q \in Requests : TakeAck(q) \/ AckWaitOver(q)
  <2>1. UNCHANGED <<stream, cursor, deliveries>> /\ pending' \subseteq pending
    BY <1>4 DEF jsVars, AddStream, TakeAck, AckWaitOver
  <2> QED
    BY <1>3, <2>1 DEF PassedInv, Delivered, DeliveredNext
<1>5. ASSUME NEW q \in Requests, Store(q) PROVE PassedInv'
  <2>1. UNCHANGED <<cursor, deliveries, pending>> /\ stream' = Append(stream, q)
    BY <1>5 DEF Store
  <2>2. \A i \in 1..cursor : stream'[i] = stream[i]
    BY <1>2, <2>1
  <2> QED
    BY <1>3, <2>1, <2>2 DEF PassedInv, Delivered, DeliveredNext
<1>6. ASSUME NEW q \in Requests, HandOut(q) PROVE PassedInv'
  <2>1. /\ q \in StreamedSet /\ stream' = stream
        /\ deliveries' = [deliveries EXCEPT ![q] = @ + 1]
        /\ \/ deliveries[q] > 0 /\ cursor' = cursor
           \/ cursor + 1 \in 1..Len(stream) /\ q = stream[cursor + 1] /\ cursor' = cursor + 1
    BY <1>6, HandedOut
  <2>2. pending' = pending \cup {q} /\ deliveries'[q] > 0
    BY <1>2, <1>6, <2>1 DEF HandOut
  <2>3. DeliveredNext(q)
    BY <2>1, <2>2 DEF DeliveredNext, StreamedSet
  <2>4. \E i \in 1..cursor' : stream'[i] = q
    <3>1. CASE deliveries[q] > 0 /\ cursor' = cursor
      BY <2>1, <3>1 DEF PassedInv
    <3>2. CASE q = stream[cursor + 1] /\ cursor' = cursor + 1
      BY <1>2, <2>1, <3>2
    <3> QED
      BY <2>1, <3>1, <3>2
  <2>5. ASSUME NEW x \in Requests \ {q}, deliveries'[x] > 0
        PROVE  \E i \in 1..cursor' : stream'[i] = x
    <3>1. deliveries[x] > 0
      BY <1>2, <2>1, <2>5
    <3>2. PICK i \in 1..cursor : stream[i] = x
      BY <3>1 DEF PassedInv
    <3>3. i \in 1..cursor'
      BY <1>2, <2>1
    <3> QED
      BY <2>1, <3>2, <3>3
  <2> QED
    BY <1>3, <2>2, <2>3, <2>4, <2>5 DEF PassedInv, Delivered, DeliveredNext
<1> QED
  BY <1>1, <1>4, <1>5, <1>6 DEF ServerStep

\* What follows when a step fans nothing out and fetches nothing.
LEMMA NothingNewShown ==
  ASSUME IInv, ShownInv, [Next]_vars,
         \A r \in NotifierPods :
           \/ batch'[r] = <<>>
           \/ batch'[r] = batch[r] /\ (pc[r] = "ack" => pc'[r] = "ack"),
         \A c \in Clients :
           \/ Shown(c)' = <<>>
           \/ Shown(c)' = Shown(c) /\ conn'[c] = conn[c]
  PROVE  ShownInv'
<1>1. PassedInv'
  BY StepKeepsPassed DEF ShownInv
<1>2. DeliveredInv'
  <2>1. ASSUME NEW r \in NotifierPods, NEW i \in 1..Len(batch'[r])
        PROVE  DeliveredNext(batch'[r][i])
    <3>1. batch'[r] = batch[r]
      OBVIOUS
    <3> QED
      BY <3>1, StaysDelivered DEF ShownInv, DeliveredInv
  <2>2. ASSUME NEW c \in Clients, NEW i \in 1..Len(Shown(c)')
        PROVE  DeliveredNext(Shown(c)'[i])
    <3>1. Shown(c)' = Shown(c)
      OBVIOUS
    <3> QED
      BY <3>1, StaysDelivered DEF ShownInv, DeliveredInv
  <2> QED
    BY <2>1, <2>2 DEF DeliveredInv, Delivered, DeliveredNext
<1>3. BatchesInOrder'
  <2> SUFFICES ASSUME NEW r \in NotifierPods,
                      NEW i \in 1..Len(batch'[r]), NEW j \in 1..Len(batch'[r]), i < j
               PROVE  InOrderNext(batch'[r][i], batch'[r][j])
    BY DEF BatchesInOrder, InOrder, InOrderNext
  <2>1. batch'[r] = batch[r]
    OBVIOUS
  <2> QED
    BY <2>1, StaysInOrder DEF ShownInv, DeliveredInv, BatchesInOrder
<1>4. ConnectionsInOrder'
  <2> SUFFICES ASSUME NEW c \in Clients,
                      NEW i \in 1..Len(Shown(c)'), NEW j \in 1..Len(Shown(c)'), i < j
               PROVE  InOrderNext(Shown(c)'[i], Shown(c)'[j])
    BY DEF ConnectionsInOrder, InOrder, InOrderNext
  <2>1. Shown(c)' = Shown(c)
    OBVIOUS
  <2> QED
    BY <2>1, StaysInOrder DEF ShownInv, DeliveredInv, ConnectionsInOrder
<1>5. RestInOrder'
  <2> SUFFICES ASSUME NEW c \in Clients, NEW r \in NotifierPods, conn'[c] = r,
                      NEW i \in 1..Len(Shown(c)'), NEW j \in 1..Len(batch'[r]),
                      j >= FirstToShow(r)'
               PROVE  InOrderNext(Shown(c)'[i], batch'[r][j])
    BY DEF RestInOrder, InOrder, InOrderNext
  <2>1. /\ Shown(c)' = Shown(c) /\ conn[c] = r
        /\ batch'[r] = batch[r] /\ (pc[r] = "ack" => pc'[r] = "ack")
    OBVIOUS
  <2>2. j >= FirstToShow(r)
    BY <2>1 DEF FirstToShow
  <2> QED
    BY <2>1, <2>2, StaysInOrder DEF ShownInv, DeliveredInv, RestInOrder
<1>6. \A c \in Clients : conn'[c] = NoReplica => Shown(c)' = <<>>
  BY DEF ShownInv
<1> QED
  BY <1>1, <1>2, <1>3, <1>4, <1>5, <1>6 DEF ShownInv

\* The types that the lemmas on single steps need.
LEMMA ShownTypes ==
  ASSUME IInv
  PROVE  /\ stream \in Seq(Requests) /\ cursor \in Nat /\ cursor <= Len(stream)
         /\ deliveries \in [Requests -> Nat]
         /\ pc \in [NotifierPods -> ControlStates]
         /\ batch \in [NotifierPods -> Seq(Requests)]
         /\ \A r \in NotifierPods : batch[r] \in Seq(Requests) /\ Len(batch[r]) \in Nat
         /\ \A c \in Clients : /\ received[c] \in Seq(Requests) /\ chan[c] \in Seq(Requests)
                               /\ Shown(c) \in Seq(Requests) /\ Len(Shown(c)) \in Nat
  BY DEF IInv, TypeOK, JSTypeOK, NotifierTypeOK, Shown

\* A message that the server hands out now comes after every one delivered.
LEMMA HandedOutLast ==
  ASSUME IInv, ShownInv, [Next]_vars, NEW q \in Requests, HandOut(q),
         NEW x, Delivered(x)
  PROVE  InOrderNext(x, q)
<1>0. /\ PublishedOnce /\ stream \in Seq(Requests) /\ cursor \in Nat
      /\ deliveries \in [Requests -> Nat]
  BY ShownTypes DEF IInv
<1>1. /\ q \in StreamedSet /\ stream' = stream
      /\ deliveries' = [deliveries EXCEPT ![q] = @ + 1]
      /\ \/ deliveries[q] > 0
         \/ cursor + 1 \in 1..Len(stream) /\ q = stream[cursor + 1]
  BY HandedOut DEF ShownInv
<1>2. CASE deliveries[q] > 0
  BY <1>0, <1>1, <1>2 DEF InOrderNext
<1>3. CASE cursor + 1 \in 1..Len(stream) /\ q = stream[cursor + 1]
  <2> SUFFICES ASSUME NEW i \in 1..Len(stream), NEW j \in 1..Len(stream),
                      stream[i] = x, stream[j] = q, i >= j
               PROVE  FALSE
    BY <1>1 DEF InOrderNext
  <2>1. j = cursor + 1
    BY <1>0, <1>3 DEF PublishedOnce
  <2>2. x \in Requests /\ deliveries[x] > 0
    BY <1>0 DEF Delivered
  <2>3. PICK k \in 1..cursor : stream[k] = x
    BY <2>2 DEF ShownInv, PassedInv
  <2>4. k \in 1..Len(stream)
    BY <2>3, ShownTypes
  <2>5. k = i
    BY <1>0, <2>3, <2>4 DEF PublishedOnce
  <2> QED
    BY <1>0, <2>1, <2>3, <2>5
<1> QED
  BY <1>1, <1>2, <1>3

LEMMA DeliverKeepsShown ==
  ASSUME IInv, ShownInv, [Next]_vars, NEW r \in NotifierPods, NEW q \in Requests,
         Deliver(r, q)
  PROVE  ShownInv'
<1>1. /\ pc[r] = "fetch" /\ pc' = pc /\ HandOut(q)
      /\ batch' = [batch EXCEPT ![r] = Append(@, q)]
      /\ UNCHANGED <<conn, chan, received>>
  BY DEF Deliver, sseVars
<1>2. \A c \in Clients : Shown(c)' = Shown(c)
  BY <1>1 DEF Shown
<1> DEFINE n == Len(batch[r]) + 1
<1>3. /\ n \in Nat /\ Len(batch'[r]) = n /\ batch'[r][n] = q
      /\ \A i \in 1..Len(batch[r]) : batch'[r][i] = batch[r][i]
      /\ \A i \in 1..n : i \in 1..Len(batch[r]) \/ i = n
      /\ \A s \in NotifierPods \ {r} : batch'[s] = batch[s]
  BY <1>1, ShownTypes
<1> HIDE DEF n
<1>4. DeliveredNext(q)
  <2>1. /\ q \in StreamedSet /\ stream' = stream
        /\ deliveries' = [deliveries EXCEPT ![q] = @ + 1]
    BY <1>1, HandedOut DEF ShownInv
  <2> QED
    BY <2>1, ShownTypes DEF DeliveredNext, StreamedSet
<1>5. PassedInv'
  BY StepKeepsPassed DEF ShownInv
<1>6. DeliveredInv'
  <2>1. ASSUME NEW s \in NotifierPods, NEW i \in 1..Len(batch'[s])
        PROVE  DeliveredNext(batch'[s][i])
    BY <1>3, <1>4, StaysDelivered DEF ShownInv, DeliveredInv
  <2>2. ASSUME NEW c \in Clients, NEW i \in 1..Len(Shown(c)')
        PROVE  DeliveredNext(Shown(c)'[i])
    BY <1>2, StaysDelivered DEF ShownInv, DeliveredInv
  <2> QED
    BY <2>1, <2>2 DEF DeliveredInv, Delivered, DeliveredNext
<1>7. BatchesInOrder'
  <2> SUFFICES ASSUME NEW s \in NotifierPods,
                      NEW i \in 1..Len(batch'[s]), NEW j \in 1..Len(batch'[s]), i < j
               PROVE  InOrderNext(batch'[s][i], batch'[s][j])
    BY DEF BatchesInOrder, InOrder, InOrderNext
  <2>1. CASE s # r
    BY <1>3, <2>1, StaysInOrder DEF ShownInv, DeliveredInv, BatchesInOrder
  <2>2. CASE s = r /\ j = n
    <3>1. i \in 1..Len(batch[r])
      BY <1>3, <2>2
    <3> QED
      BY <1>1, <1>3, <2>2, <3>1, HandedOutLast DEF ShownInv, DeliveredInv
  <2>3. CASE s = r /\ j # n
    <3>1. i \in 1..Len(batch[r]) /\ j \in 1..Len(batch[r])
      BY <1>3, <2>3
    <3> QED
      BY <1>3, <2>3, <3>1, StaysInOrder DEF ShownInv, DeliveredInv, BatchesInOrder
  <2> QED
    BY <2>1, <2>2, <2>3
<1>8. ConnectionsInOrder'
  <2> SUFFICES ASSUME NEW c \in Clients,
                      NEW i \in 1..Len(Shown(c)'), NEW j \in 1..Len(Shown(c)'), i < j
               PROVE  InOrderNext(Shown(c)'[i], Shown(c)'[j])
    BY DEF ConnectionsInOrder, InOrder, InOrderNext
  <2> QED
    BY <1>2, StaysInOrder DEF ShownInv, DeliveredInv, ConnectionsInOrder
<1>9. RestInOrder'
  <2> SUFFICES ASSUME NEW c \in Clients, NEW s \in NotifierPods, conn'[c] = s,
                      NEW i \in 1..Len(Shown(c)'), NEW j \in 1..Len(batch'[s]),
                      j >= FirstToShow(s)'
               PROVE  InOrderNext(Shown(c)'[i], batch'[s][j])
    BY DEF RestInOrder, InOrder, InOrderNext
  <2>1. /\ Shown(c)' = Shown(c) /\ conn[c] = s /\ j >= FirstToShow(s)
        /\ Delivered(Shown(c)[i])
    BY <1>1, <1>2 DEF FirstToShow, ShownInv, DeliveredInv
  <2>2. CASE s = r /\ j = n
    BY <1>1, <1>3, <2>1, <2>2, HandedOutLast
  <2>3. CASE s # r \/ j # n
    <3>1. j \in 1..Len(batch[s]) /\ batch'[s][j] = batch[s][j]
      BY <1>3, <2>3
    <3> QED
      BY <2>1, <3>1, StaysInOrder DEF ShownInv, DeliveredInv, RestInOrder
  <2> QED
    BY <2>2, <2>3
<1>10. \A c \in Clients : conn'[c] = NoReplica => Shown(c)' = <<>>
  BY <1>1, <1>2 DEF ShownInv
<1> QED
  BY <1>5, <1>6, <1>7, <1>8, <1>9, <1>10 DEF ShownInv

\* Appending to the second of two sequences, and moving an element over.
LEMMA AppendToSecond ==
  ASSUME NEW S, NEW a \in Seq(S), NEW b \in Seq(S), NEW x \in S
  PROVE  a \o Append(b, x) = Append(a \o b, x)
<1> DEFINE s == a \o Append(b, x)
           t == Append(a \o b, x)
<1>1. s \in Seq(S) /\ t \in Seq(S) /\ Len(s) = Len(t)
  OBVIOUS
<1>2. \A i \in 1..Len(s) : s[i] = t[i]
  OBVIOUS
<1> HIDE DEF s, t
<1> QED
  BY <1>1, <1>2 DEF s, t

LEMMA MoveToFirst ==
  ASSUME NEW S, NEW a \in Seq(S), NEW b \in Seq(S), b # <<>>
  PROVE  Append(a, Head(b)) \o Tail(b) = a \o b
<1> DEFINE s == Append(a, Head(b)) \o Tail(b)
           t == a \o b
<1>1. /\ Head(b) \in S /\ Tail(b) \in Seq(S) /\ Len(b) \in Nat \ {0}
      /\ Len(Tail(b)) = Len(b) - 1 /\ Head(b) = b[1]
      /\ \A i \in 1..(Len(b) - 1) : Tail(b)[i] = b[i + 1]
  OBVIOUS
<1>2. s \in Seq(S) /\ t \in Seq(S) /\ Len(s) = Len(t)
  BY <1>1
<1>3. ASSUME NEW i \in 1..Len(s) PROVE s[i] = t[i]
  <2>1. CASE i <= Len(a)
    BY <1>1, <2>1
  <2>2. CASE i = Len(a) + 1
    BY <1>1, <2>2
  <2>3. CASE i > Len(a) + 1
    <3>1. s[i] = Tail(b)[i - (Len(a) + 1)]
      BY <1>1, <2>3
    <3>2. i - (Len(a) + 1) \in 1..(Len(b) - 1) /\ t[i] = b[i - Len(a)]
      BY <1>1, <1>2, <2>3
    <3> QED
      BY <1>1, <3>1, <3>2
  <2> QED
    BY <2>1, <2>2, <2>3
<1> HIDE DEF s, t
<1> QED
  BY <1>2, <1>3 DEF s, t

\* fanout shows its message after everything shown before, and before the rest
\* of the batch.
LEMMA FanoutKeepsShown ==
  ASSUME IInv, ShownInv, [Next]_vars, NEW r \in NotifierPods, fanout(r)
  PROVE  ShownInv'
<1> DEFINE q == batch[r][1]
<1>1. /\ pc[r] = "fanout" /\ pc' = [pc EXCEPT ![r] = "ack"]
      /\ chan' = [c \in Clients |->
                    IF conn[c] = r /\ Len(chan[c]) < ChanCap
                      THEN Append(chan[c], Current(r))
                      ELSE chan[c]]
      /\ UNCHANGED <<batch, conn, received>>
      /\ batch[r] # <<>> /\ Current(r) = q /\ 1 \in 1..Len(batch[r])
  BY HeadInBatch DEF fanout, Goto, IInv, TypeOK, LoopInv
<1>2. Delivered(q)
  BY <1>1 DEF ShownInv, DeliveredInv
<1> HIDE DEF q
<1>3. ASSUME NEW c \in Clients
      PROVE  \/ Shown(c)' = Shown(c)
             \/ conn[c] = r /\ Shown(c)' = Append(Shown(c), q)
  <2>1. \/ chan'[c] = chan[c]
        \/ conn[c] = r /\ chan'[c] = Append(chan[c], q)
    BY <1>1
  <2>2. received'[c] = received[c] /\ received[c] \in Seq(Requests) /\ chan[c] \in Seq(Requests)
    BY <1>1, ShownTypes
  <2>3. CASE chan'[c] = chan[c]
    BY <2>2, <2>3 DEF Shown
  <2>4. CASE conn[c] = r /\ chan'[c] = Append(chan[c], q)
    <3> DEFINE a == received[c]
               b == chan[c]
    <3>1. a \in Seq(Requests) /\ b \in Seq(Requests) /\ q \in Requests
      BY <1>2, <2>2, ShownTypes DEF Delivered, StreamedSet
    <3>2. Shown(c) = a \o b /\ Shown(c)' = a \o Append(b, q)
      BY <2>2, <2>4 DEF Shown
    <3> HIDE DEF a, b
    <3>3. a \o Append(b, q) = Append(a \o b, q)
      BY <3>1, AppendToSecond
    <3> QED
      BY <2>4, <3>2, <3>3
  <2> QED
    BY <2>1, <2>3, <2>4
<1>4. ASSUME NEW c \in Clients, NEW i \in 1..Len(Shown(c)')
      PROVE  \/ i \in 1..Len(Shown(c)) /\ Shown(c)'[i] = Shown(c)[i]
             \/ /\ conn[c] = r /\ Shown(c)'[i] = q
                /\ Shown(c)' = Append(Shown(c), q) /\ i = Len(Shown(c)) + 1
  BY <1>3, ShownTypes
<1>5. PassedInv'
  BY StepKeepsPassed DEF ShownInv
<1>6. DeliveredInv'
  <2>1. ASSUME NEW s \in NotifierPods, NEW i \in 1..Len(batch'[s])
        PROVE  DeliveredNext(batch'[s][i])
    BY <1>1, StaysDelivered DEF ShownInv, DeliveredInv
  <2>2. ASSUME NEW c \in Clients, NEW i \in 1..Len(Shown(c)')
        PROVE  DeliveredNext(Shown(c)'[i])
    BY <1>2, <1>4, StaysDelivered DEF ShownInv, DeliveredInv
  <2> QED
    BY <2>1, <2>2 DEF DeliveredInv, Delivered, DeliveredNext
<1>7. BatchesInOrder'
  <2> SUFFICES ASSUME NEW s \in NotifierPods,
                      NEW i \in 1..Len(batch'[s]), NEW j \in 1..Len(batch'[s]), i < j
               PROVE  InOrderNext(batch'[s][i], batch'[s][j])
    BY DEF BatchesInOrder, InOrder, InOrderNext
  <2> QED
    BY <1>1, StaysInOrder DEF ShownInv, DeliveredInv, BatchesInOrder
<1>8. ConnectionsInOrder'
  <2> SUFFICES ASSUME NEW c \in Clients,
                      NEW i \in 1..Len(Shown(c)'), NEW j \in 1..Len(Shown(c)'), i < j
               PROVE  InOrderNext(Shown(c)'[i], Shown(c)'[j])
    BY DEF ConnectionsInOrder, InOrder, InOrderNext
  <2>1. i \in 1..Len(Shown(c)) /\ Shown(c)'[i] = Shown(c)[i] /\ Delivered(Shown(c)[i])
    BY <1>3, <1>4, ShownTypes DEF ShownInv, DeliveredInv
  <2>2. CASE j \in 1..Len(Shown(c)) /\ Shown(c)'[j] = Shown(c)[j]
    BY <2>1, <2>2, StaysInOrder DEF ShownInv, DeliveredInv, ConnectionsInOrder
  <2>3. CASE conn[c] = r /\ Shown(c)'[j] = q
    <3>1. FirstToShow(r) = 1
      BY <1>1 DEF FirstToShow
    <3>2. InOrder(Shown(c)[i], q)
      BY <1>1, <2>1, <2>3, <3>1 DEF ShownInv, RestInOrder, q
    <3> QED
      BY <1>2, <2>1, <2>3, <3>2, StaysInOrder
  <2> QED
    BY <1>4, <2>2, <2>3
<1>9. RestInOrder'
  <2> SUFFICES ASSUME NEW c \in Clients, NEW s \in NotifierPods, conn'[c] = s,
                      NEW i \in 1..Len(Shown(c)'), NEW j \in 1..Len(batch'[s]),
                      j >= FirstToShow(s)'
               PROVE  InOrderNext(Shown(c)'[i], batch'[s][j])
    BY DEF RestInOrder, InOrder, InOrderNext
  <2>1. /\ conn[c] = s /\ batch'[s] = batch[s] /\ j \in 1..Len(batch[s])
        /\ Delivered(batch[s][j])
    BY <1>1 DEF ShownInv, DeliveredInv
  <2>2. j >= FirstToShow(s) /\ (s = r => j >= 2)
    BY <1>1, ShownTypes DEF FirstToShow
  <2>3. CASE i \in 1..Len(Shown(c)) /\ Shown(c)'[i] = Shown(c)[i]
    BY <2>1, <2>2, <2>3, StaysInOrder DEF ShownInv, DeliveredInv, RestInOrder
  <2>4. CASE conn[c] = r /\ Shown(c)'[i] = q
    <3>1. s = r /\ 1 < j
      BY <2>1, <2>2, <2>4
    <3>2. InOrder(q, batch[s][j])
      BY <1>1, <2>1, <3>1 DEF ShownInv, BatchesInOrder, q
    <3> QED
      BY <1>2, <2>1, <2>4, <3>2, StaysInOrder
  <2> QED
    BY <1>4, <2>3, <2>4
<1>10. \A c \in Clients : conn'[c] = NoReplica => Shown(c)' = <<>>
  <2>1. r # NoReplica
    BY NotifierAssumption
  <2> QED
    BY <1>1, <1>3, <2>1 DEF ShownInv
<1> QED
  BY <1>5, <1>6, <1>7, <1>8, <1>9, <1>10 DEF ShownInv

\* Ack drops the message that has been fanned out.
LEMMA AckKeepsShown ==
  ASSUME IInv, ShownInv, [Next]_vars, NEW r \in NotifierPods, Ack(r)
  PROVE  ShownInv'
<1>1. /\ pc[r] = "ack" /\ pc' = [pc EXCEPT ![r] = pc'[r]] /\ pc'[r] # "ack"
      /\ batch[r] # <<>> /\ batch[r] \in Seq(Requests)
      /\ batch' = [batch EXCEPT ![r] = Tail(@)]
      /\ UNCHANGED <<conn, chan, received>>
  BY DEF Ack, Goto, sseVars, IInv, TypeOK, NotifierTypeOK, LoopInv
<1>2. \A c \in Clients : Shown(c)' = Shown(c)
  BY <1>1 DEF Shown
<1>3. ASSUME NEW s \in NotifierPods, NEW i \in 1..Len(batch'[s])
      PROVE  /\ s # r => /\ i \in 1..Len(batch[s]) /\ batch'[s][i] = batch[s][i]
                         /\ FirstToShow(s)' = FirstToShow(s)
             /\ s = r => i + 1 \in 1..Len(batch[r]) /\ batch'[s][i] = batch[r][i + 1]
  <2>1. CASE s # r
    BY <1>1, <2>1, ShownTypes DEF FirstToShow
  <2>2. CASE s = r
    <3>1. /\ Len(Tail(batch[r])) = Len(batch[r]) - 1
          /\ \A k \in 1..(Len(batch[r]) - 1) : Tail(batch[r])[k] = batch[r][k + 1]
          /\ Len(batch[r]) \in Nat
      BY <1>1
    <3>2. batch'[s] = Tail(batch[r])
      BY <1>1, <2>2, ShownTypes
    <3> QED
      BY <2>2, <3>1, <3>2
  <2> QED
    BY <2>1, <2>2
<1>4. ASSUME NEW s \in NotifierPods, NEW i \in 1..Len(batch'[s])
      PROVE  Delivered(batch'[s][i])
  BY <1>3, <1>4 DEF ShownInv, DeliveredInv
<1>5. PassedInv'
  BY StepKeepsPassed DEF ShownInv
<1>6. DeliveredInv'
  <2>1. ASSUME NEW s \in NotifierPods, NEW i \in 1..Len(batch'[s])
        PROVE  DeliveredNext(batch'[s][i])
    BY <1>4, StaysDelivered
  <2>2. ASSUME NEW c \in Clients, NEW i \in 1..Len(Shown(c)')
        PROVE  DeliveredNext(Shown(c)'[i])
    BY <1>2, StaysDelivered DEF ShownInv, DeliveredInv
  <2> QED
    BY <2>1, <2>2 DEF DeliveredInv, Delivered, DeliveredNext
<1>7. BatchesInOrder'
  <2> SUFFICES ASSUME NEW s \in NotifierPods,
                      NEW i \in 1..Len(batch'[s]), NEW j \in 1..Len(batch'[s]), i < j
               PROVE  InOrderNext(batch'[s][i], batch'[s][j])
    BY DEF BatchesInOrder, InOrder, InOrderNext
  <2>1. InOrder(batch'[s][i], batch'[s][j])
    <3>1. CASE s # r
      BY <1>3, <3>1 DEF ShownInv, BatchesInOrder
    <3>2. CASE s = r
      <4>1. i + 1 < j + 1
        OBVIOUS
      <4> QED
        BY <1>3, <3>2, <4>1 DEF ShownInv, BatchesInOrder
    <3> QED
      BY <3>1, <3>2
  <2> QED
    BY <1>4, <2>1, StaysInOrder
<1>8. ConnectionsInOrder'
  <2> SUFFICES ASSUME NEW c \in Clients,
                      NEW i \in 1..Len(Shown(c)'), NEW j \in 1..Len(Shown(c)'), i < j
               PROVE  InOrderNext(Shown(c)'[i], Shown(c)'[j])
    BY DEF ConnectionsInOrder, InOrder, InOrderNext
  <2> QED
    BY <1>2, StaysInOrder DEF ShownInv, DeliveredInv, ConnectionsInOrder
<1>9. RestInOrder'
  <2> SUFFICES ASSUME NEW c \in Clients, NEW s \in NotifierPods, conn'[c] = s,
                      NEW i \in 1..Len(Shown(c)'), NEW j \in 1..Len(batch'[s]),
                      j >= FirstToShow(s)'
               PROVE  InOrderNext(Shown(c)'[i], batch'[s][j])
    BY DEF RestInOrder, InOrder, InOrderNext
  <2>1. conn[c] = s /\ Shown(c)' = Shown(c) /\ Delivered(Shown(c)[i])
    BY <1>1, <1>2 DEF ShownInv, DeliveredInv
  <2>2. InOrder(Shown(c)[i], batch'[s][j])
    <3>1. CASE s # r
      BY <1>2, <1>3, <2>1, <3>1 DEF ShownInv, RestInOrder
    <3>2. CASE s = r
      <4>1. j + 1 >= FirstToShow(r)
        BY <1>1 DEF FirstToShow
      <4> QED
        BY <1>2, <1>3, <2>1, <3>2, <4>1 DEF ShownInv, RestInOrder
    <3> QED
      BY <3>1, <3>2
  <2> QED
    BY <1>4, <2>1, <2>2, StaysInOrder
<1>10. \A c \in Clients : conn'[c] = NoReplica => Shown(c)' = <<>>
  BY <1>1, <1>2 DEF ShownInv
<1> QED
  BY <1>5, <1>6, <1>7, <1>8, <1>9, <1>10 DEF ShownInv

LEMMA NotifierKeepsShown ==
  ASSUME IInv, ShownInv, NotifierNext, UNCHANGED tasksVars
  PROVE  ShownInv'
<1>0. [Next]_vars
  BY DEF Next
<1>1. pc \in [NotifierPods -> ControlStates]
  BY ShownTypes
<1>2. ASSUME NEW r \in NotifierPods,
             StartNotifier(r) \/ Subscribe(r) \/ FetchReturns(r) \/ Insert(r)
      PROVE  ShownInv'
  <2>1. /\ UNCHANGED <<batch, conn, chan, received>>
        /\ \A s \in NotifierPods : pc[s] = "ack" => pc'[s] = "ack"
    BY <1>1, <1>2 DEF StartNotifier, Subscribe, FetchReturns, Insert, Goto, sseVars
  <2> QED
    BY <1>0, <2>1, NothingNewShown DEF Shown
<1>3. ASSUME NEW r \in NotifierPods, Consume(r) PROVE ShownInv'
  BY <1>0, <1>2, <1>3, DeliverKeepsShown, FanoutKeepsShown, AckKeepsShown DEF Consume
<1>4. ASSUME NEW r \in NotifierPods, StopNotifier(r) PROVE ShownInv'
  <2>1. \A s \in NotifierPods :
          \/ batch'[s] = <<>>
          \/ batch'[s] = batch[s] /\ pc'[s] = pc[s]
    BY <1>1, <1>4, ShownTypes DEF StopNotifier, Goto
  <2>2. ASSUME NEW c \in Clients
        PROVE  \/ Shown(c)' = <<>>
               \/ Shown(c)' = Shown(c) /\ conn'[c] = conn[c]
    <3>1. CASE conn[c] = r
      <4>1. received'[c] = <<>> /\ chan'[c] = <<>>
        BY <1>4, <3>1 DEF StopNotifier
      <4> QED
        BY <4>1 DEF Shown
    <3>2. CASE conn[c] # r
      BY <1>4, <3>2 DEF StopNotifier, Shown
    <3> QED
      BY <3>1, <3>2
  <2> QED
    BY <1>0, <2>1, <2>2, NothingNewShown
<1>5. ASSUME NEW q \in Requests, Redeliver(q) PROVE ShownInv'
  BY <1>0, <1>5, NothingNewShown DEF Redeliver, notifierVars, Shown
<1>6. ASSUME NEW c \in Clients, NEW r \in NotifierPods, Connect(c, r) PROVE ShownInv'
  <2>1. /\ UNCHANGED <<pc, batch, chan, received>> /\ conn[c] = NoReplica
        /\ \A d \in Clients \ {c} : conn'[d] = conn[d]
    BY <1>6 DEF Connect, IInv, TypeOK, NotifierTypeOK
  <2>2. \A d \in Clients : Shown(d)' = Shown(d)
    BY <2>1 DEF Shown
  <2>3. Shown(c)' = <<>>
    BY <2>1, <2>2 DEF ShownInv
  <2> QED
    BY <1>0, <2>1, <2>2, <2>3, NothingNewShown
<1>7. ASSUME NEW c \in Clients, WriteEventTo(c) PROVE ShownInv'
  <2>1. UNCHANGED <<pc, batch, conn>>
    BY <1>7 DEF WriteEventTo
  <2>2. ASSUME NEW d \in Clients PROVE Shown(d)' = Shown(d)
    <3>1. CASE d = c
      <4>1. received'[c] = Append(received[c], Head(chan[c])) /\ chan'[c] = Tail(chan[c])
        BY <1>7 DEF WriteEventTo, IInv, TypeOK, NotifierTypeOK
      <4>2. /\ received[c] \in Seq(Requests) /\ chan[c] \in Seq(Requests) /\ chan[c] # <<>>
        BY <1>7, ShownTypes DEF WriteEventTo
      <4>3. Append(received[c], Head(chan[c])) \o Tail(chan[c]) = received[c] \o chan[c]
        BY <4>2, MoveToFirst
      <4> QED
        BY <3>1, <4>1, <4>3 DEF Shown
    <3>2. CASE d # c
      BY <1>7, <3>2 DEF WriteEventTo, Shown, IInv, TypeOK, NotifierTypeOK
    <3> QED
      BY <3>1, <3>2
  <2> QED
    BY <1>0, <2>1, <2>2, NothingNewShown
<1>8. ASSUME NEW c \in Clients, Disconnect(c) PROVE ShownInv'
  <2>1. UNCHANGED <<pc, batch>>
    BY <1>8 DEF Disconnect
  <2>2. Shown(c)' = <<>>
    <3>1. received'[c] = <<>> /\ chan'[c] = <<>>
      BY <1>8 DEF Disconnect, IInv, TypeOK, NotifierTypeOK
    <3> QED
      BY <3>1 DEF Shown
  <2>3. \A d \in Clients \ {c} : Shown(d)' = Shown(d) /\ conn'[d] = conn[d]
    BY <1>8 DEF Disconnect, Shown, IInv, TypeOK, NotifierTypeOK
  <2> QED
    BY <1>0, <2>1, <2>2, <2>3, NothingNewShown
<1> QED
  BY <1>3, <1>4, <1>5, <1>6, <1>7, <1>8 DEF NotifierNext

LEMMA StepKeepsShown ==
  ASSUME IInv, ShownInv, [Next]_vars
  PROVE  ShownInv'
<1>1. CASE UNCHANGED notifierVars
  BY <1>1, NothingNewShown DEF notifierVars, Shown
<1> QED
  BY <1>1, NotifierKeepsShown DEF Next, vars

\* One connection shows the events in the order of the stream; an event that
\* comes late, or again, was redelivered.
THEOREM ConnectionsFollowStream == Safety => []StreamOrderPerConnection
<1>1. Init => ShownInv
  <2> SUFFICES ASSUME Init PROVE ShownInv
    OBVIOUS
  <2>1. \A c \in Clients : Shown(c) = <<>>
    BY DEF Init, NotifierInit, Shown
  <2>2. \A r \in NotifierPods : batch[r] = <<>>
    BY DEF Init, NotifierInit
  <2>3. PassedInv
    BY DEF Init, JSInit, PassedInv
  <2>4. DeliveredInv /\ BatchesInOrder /\ ConnectionsInOrder /\ RestInOrder
    BY <2>1, <2>2 DEF DeliveredInv, BatchesInOrder, ConnectionsInOrder, RestInOrder
  <2> QED
    BY <2>1, <2>3, <2>4 DEF ShownInv
<1>2. IInv /\ ShownInv => StreamOrderPerConnection
  <2> SUFFICES ASSUME IInv, ShownInv, NEW c \in Clients,
                      NEW i \in 1..Len(Shown(c)), NEW j \in 1..Len(Shown(c)),
                      i < j, PositionOf(Shown(c)[i]) >= PositionOf(Shown(c)[j])
               PROVE  deliveries[Shown(c)[j]] > 1
    BY DEF StreamOrderPerConnection, Shown
  <2>1. InOrder(Shown(c)[i], Shown(c)[j])
    BY DEF ShownInv, ConnectionsInOrder
  <2>2. Shown(c)[i] \in StreamedSet /\ Shown(c)[j] \in StreamedSet
    BY DEF ShownInv, DeliveredInv, Delivered
  <2>3. PublishedOnce
    BY DEF IInv
  <2> QED
    BY <2>1, <2>2, <2>3, PositionHolds DEF InOrder
<1> QED
  BY <1>1, <1>2, Invariance, StepPreserves, StepKeepsShown, PTL DEF Safety
==============================================================================
