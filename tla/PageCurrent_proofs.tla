-------------------------- MODULE PageCurrent_proofs --------------------------
(***************************************************************************)
(* Proofs about what the pages of TasksPage show: that the state is well   *)
(* typed and that a calm page which awaits nothing shows the table.  They  *)
(* hold for any number of tabs, requests, accounts, tokens, tasks and      *)
(* failures, and rest on the invariant IInv of TasksPage_proofs.           *)
(***************************************************************************)
EXTENDS TasksPage_proofs, FiniteSetTheorems, FunctionTheorems

-----------------------------------------------------------------------------
(***************************************************************************)
(* Kept.                                                                   *)
(***************************************************************************)
\* The places before and at a place number it.
LEMMA PlacesNumbered ==
  ASSUME NEW places, IsFiniteSet(places), places \subseteq Nat
  PROVE  /\ Cardinality(places) \in Nat
         /\ \A n \in 1..Cardinality(places) :
              \E i \in places : Cardinality({j \in places : j <= i}) = n
         /\ \A i \in places : Cardinality({j \in places : j <= i}) \in 1..Cardinality(places)
         /\ \A i, k \in places :
              Cardinality({j \in places : j <= i}) = Cardinality({j \in places : j <= k}) => i = k
PROOF
<1> DEFINE N == Cardinality(places)
           UpTo(i) == {j \in places : j <= i}
           rank == [i \in places |-> Cardinality(UpTo(i))]
<1>1. N \in Nat
  BY FS_CardinalityType
<1>2. ASSUME NEW i \in places PROVE IsFiniteSet(UpTo(i)) /\ rank[i] = Cardinality(UpTo(i)) /\ rank[i] \in 1..N
  <2> DEFINE b == UpTo(i)
  <2>1. b \subseteq places /\ i \in b
    OBVIOUS
  <2>2. rank[i] = Cardinality(b)
    OBVIOUS
  <2> HIDE DEF b, rank
  <2>3. IsFiniteSet(b) /\ Cardinality(b) \in Nat /\ Cardinality(b) <= N
    BY <2>1, FS_Subset, FS_CardinalityType
  <2>4. Cardinality(b) # 0
    BY <2>1, <2>3, FS_EmptySet
  <2>5. rank[i] \in 1..N
    BY <1>1, <2>2, <2>3, <2>4
  <2> QED BY <2>2, <2>3, <2>5 DEF b
<1>3. ASSUME NEW i \in places, NEW k \in places, i < k PROVE rank[i] < rank[k]
  <2> DEFINE b == UpTo(i)  d == UpTo(k)
  <2>0. i \in places /\ k \in places /\ i \in Int /\ k \in Int /\ i < k /\ \A j \in places : j \in Int
    BY <1>3
  <2>1. b \subseteq d /\ k \in d /\ k \notin b
    <3>1. ASSUME NEW j \in places, j <= i PROVE j <= k
      BY ONLY <2>0, <3>1
    <3>2. k <= k /\ ~(k <= i)
      BY ONLY <2>0
    <3>3. k \in d /\ k \notin b
      BY <2>0, <3>2
    <3>4. b \subseteq d
      BY <3>1
    <3> QED BY <3>3, <3>4
  <2>2. rank[i] = Cardinality(b) /\ rank[k] = Cardinality(d) /\ IsFiniteSet(d)
        /\ Cardinality(b) \in Int /\ Cardinality(d) \in Int
    BY <1>2
  <2> HIDE DEF b, d, rank
  <2>3. Cardinality(b) <= Cardinality(d) /\ (Cardinality(d) = Cardinality(b) => d = b)
    BY <2>1, <2>2, FS_Subset
  <2>4. d # b
    BY <2>1
  <2> QED BY ONLY <2>2, <2>3, <2>4
<1>4. rank \in [places -> 1..N]
  BY <1>2
<1>5. \A i, k \in places : rank[i] = rank[k] => i = k
  <2> SUFFICES ASSUME NEW i \in places, NEW k \in places, rank[i] = rank[k], i # k PROVE FALSE
    OBVIOUS
  <2>1. i \in Int /\ k \in Int /\ rank[i] \in Int /\ rank[k] \in Int
    BY <1>1, <1>2
  <2> HIDE DEF rank
  <2>2. i < k \/ k < i
    BY <2>1
  <2>3. rank[i] < rank[k] \/ rank[k] < rank[i]
    BY <1>3, <2>2
  <2> QED BY <2>1, <2>3
<1>6. IsFiniteSet(1..N) /\ Cardinality(1..N) = N
  BY <1>1, FS_Interval
<1>7. \A n \in 1..N : \E i \in places : rank[i] = n
  <2> HIDE DEF rank
  <2>1. rank \in Injection(places, 1..N)
    BY <1>4, <1>5 DEF Injection, IsInjective
  <2>2. rank \in Surjection(places, 1..N)
    BY <1>6, <2>1, FS_Injection DEF N
  <2> QED BY <2>2 DEF Surjection
<1> QED BY <1>1, <1>2, <1>5, <1>7

\* The items at the places, each once.
LEMMA KeptItems ==
  ASSUME NEW S, NEW s \in Seq(S), NEW places \in SUBSET (1..Len(s))
  PROVE  /\ Kept(s, places) \in Seq(S)
         /\ \E f \in [DOMAIN Kept(s, places) -> places] :
              /\ \A m \in DOMAIN Kept(s, places) : Kept(s, places)[m] = s[f[m]]
              /\ \A m, n \in DOMAIN Kept(s, places) : f[m] = f[n] => m = n
              /\ \A i \in places : \E m \in DOMAIN Kept(s, places) : f[m] = i
PROOF
<1> DEFINE N == Cardinality(places)
           Number(i) == Cardinality({j \in places : j <= i})
           f == [n \in 1..N |-> CHOOSE i \in places : Number(i) = n]
           k == Kept(s, places)
<1>1. Len(s) \in Nat /\ \A i \in 1..Len(s) : s[i] \in S
  BY LenProperties, ElementOfSeq
<1>2. IsFiniteSet(places) /\ places \subseteq Nat
  <2> DEFINE L == Len(s)
  <2>1. L \in Int /\ places \subseteq 1..L
    BY <1>1
  <2> HIDE DEF L
  <2>2. IsFiniteSet(1..L)
    BY <2>1, FS_Interval
  <2>3. IsFiniteSet(places)
    BY ONLY <2>1, <2>2, FS_Subset
  <2> QED BY ONLY <2>1, <2>3
<1>3. /\ N \in Nat /\ \A n \in 1..N : \E i \in places : Number(i) = n
      /\ \A i \in places : Number(i) \in 1..N
      /\ \A i, j \in places : Number(i) = Number(j) => i = j
  BY <1>2, PlacesNumbered
<1>4. k = [n \in 1..N |-> s[CHOOSE i \in places : Number(i) = n]]
  BY DEF Kept
<1> HIDE DEF Number, k, N
<1>5. \A n \in 1..N : f[n] \in places /\ Number(f[n]) = n
  BY <1>3
<1>6. f \in [1..N -> places] /\ DOMAIN k = 1..N /\ \A n \in 1..N : k[n] = s[f[n]]
  BY <1>4, <1>5
<1>7. k \in Seq(S)
  <2>1. \A n \in 1..N : k[n] \in S
    BY <1>1, <1>5, <1>6
  <2>2. k = [n \in 1..N |-> k[n]]
    BY ONLY <1>4
  <2> QED BY ONLY <1>3, <2>1, <2>2
<1> HIDE DEF f
<1>8. \A i \in places : \E m \in 1..N : f[m] = i
  BY <1>3, <1>5
<1>9. \A m, n \in 1..N : f[m] = f[n] => m = n
  BY <1>5
<1> DEFINE D == DOMAIN k
<1>10. /\ f \in [D -> places] /\ \A m \in D : k[m] = s[f[m]]
       /\ \A m, n \in D : f[m] = f[n] => m = n
       /\ \A i \in places : \E m \in D : f[m] = i
  BY <1>6, <1>8, <1>9
<1> HIDE DEF D
<1>11. \E g \in [D -> places] :
         /\ \A m \in D : k[m] = s[g[m]]
         /\ \A m, n \in D : g[m] = g[n] => m = n
         /\ \A i \in places : \E m \in D : g[m] = i
  BY ONLY <1>10
<1> QED BY ONLY <1>7, <1>11 DEF k, D
-----------------------------------------------------------------------------
(***************************************************************************)
(* Types.                                                                  *)
(***************************************************************************)
\* The rows that the table can have had when d ids were drawn.
Seen(d) == [id : 1..d, done : BOOLEAN]

\* A token is held together with its address.
Paired(session) ==
  session \in Session /\ (session.token = NoToken <=> session.email = NoEmail)

PageTyped(p, d) == p \in [session : Session, shown : Seq(Seen(d))] /\ Paired(p.session)

CallType == [at : {"free", "sent", "answered"},
             kind : Writes \cup {"signup", "login", "list"},
             tab : Tabs \cup {NoTab}, token : 0..MaxTokens,
             email : Emails \cup {NoEmail},
             cred : Credentials \cup {NoUser}, id : 0..MaxTasks,
             done : BOOLEAN, ok : BOOLEAN, rows : Seq(Items)]

\* A command names a row that was seen, and an answer tells what was done.
RequestTyped(q, d) ==
  /\ q \in CallType /\ q.rows \in Seq(Seen(d))
  /\ q.at # "free" /\ q.kind \in {"update", "delete"} => q.id \in 1..d
  /\ q.at # "free" /\ q.kind \in SignIns => q.email \in Emails
  /\ q.at = "answered" /\ q.ok /\ q.kind \in SignIns => q.token # NoToken
  /\ q.at = "answered" /\ q.ok /\ q.kind = "update" =>
       q.rows = <<[id |-> q.id, done |-> q.done]>>
  /\ q.at = "answered" /\ q.ok /\ q.kind = "create" =>
       \E id \in 1..d : q.rows = <<[id |-> id, done |-> FALSE]>>

Typed ==
  /\ tasks \in [TaskIds -> [user : UserIds, done : BOOLEAN] \cup {NoTask}]
  /\ Paired(store)
  /\ page = [tab \in Tabs |-> page[tab]] /\ \A tab \in Tabs : PageTyped(page[tab], drawnTask)
  /\ call = [c \in Calls |-> call[c]] /\ \A c \in Calls : RequestTyped(call[c], drawnTask)
  /\ calm \in [Tabs -> BOOLEAN]

LEMMA SeenItems ==
  ASSUME NEW d \in 0..MaxTasks
  PROVE  /\ Seen(d) \subseteq Items
         /\ Seq(Seen(d)) \subseteq Seq(Items)
PROOF
<1>1. Seen(d) \subseteq Items
  BY PageAssumption DEF Seen, Items, TaskIds
<1>2. Seq(Seen(d)) \subseteq Seq(Items)
  BY <1>1, SeqMonotonic
<1> QED BY <1>1, <1>2

LEMMA TypesImply ==
  ASSUME IInv, Typed
  PROVE  TypeOK
PROOF
<1>1. AuthTypeOK /\ drawnTask \in 0..MaxTasks
  BY DEF IInv, AccountsOnce, RowsDrawn
<1>2. page \in [Tabs -> [session : Session, shown : Seq(Items)]]
  <2>1. ASSUME NEW tab \in Tabs PROVE page[tab] \in [session : Session, shown : Seq(Items)]
    BY <1>1, SeenItems DEF Typed, PageTyped
  <2> QED BY <2>1 DEF Typed
<1>3. call \in [Calls -> CallType]
  BY DEF Typed, RequestTyped
<1> QED BY <1>1, <1>2, <1>3 DEF Typed, Paired, TypeOK, CallType

\* The serial only grows, and what was seen stays seen.
Draws == drawnTask \in 0..MaxTasks /\ drawnTask' \in 0..MaxTasks /\ drawnTask <= drawnTask'

LEMMA SeenStays ==
  ASSUME Draws
  PROVE  Seq(Seen(drawnTask)) \subseteq Seq(Seen(drawnTask'))
PROOF
<1> DEFINE S == Seen(drawnTask)  T == Seen(drawnTask')
<1>1. 1..drawnTask \subseteq 1..drawnTask'
  BY PageAssumption DEF Draws
<1>2. S \subseteq T
  BY <1>1 DEF Seen
<1> HIDE DEF S, T
<1>3. Seq(S) \subseteq Seq(T)
  BY <1>2, SeqMonotonic
<1> QED BY <1>3 DEF S, T

LEMMA PageStays ==
  ASSUME Draws, NEW p, PageTyped(p, drawnTask)
  PROVE  PageTyped(p, drawnTask')
BY SeenStays DEF PageTyped

LEMMA RequestStays ==
  ASSUME Draws, NEW q, RequestTyped(q, drawnTask)
  PROVE  RequestTyped(q, drawnTask')
PROOF
<1>1. 1..drawnTask \subseteq 1..drawnTask'
  BY PageAssumption DEF Draws
<1> QED BY <1>1, SeenStays DEF RequestTyped

LEMMA OneTypedRequest ==
  ASSUME Typed, Draws, NEW c \in Calls, NEW q, call' = [call EXCEPT ![c] = q],
         RequestTyped(q, drawnTask')
  PROVE  call' = [d \in Calls |-> call'[d]] /\ \A d \in Calls : RequestTyped(call'[d], drawnTask')
PROOF
<1>1. call' = [d \in Calls |-> call'[d]] /\ \A d \in Calls : call'[d] = IF d = c THEN q ELSE call[d]
  BY DEF Typed
<1> QED BY <1>1, RequestStays DEF Typed

LEMMA SameTypedRequests ==
  ASSUME Typed, Draws, call' = call
  PROVE  call' = [d \in Calls |-> call'[d]] /\ \A d \in Calls : RequestTyped(call'[d], drawnTask')
BY RequestStays DEF Typed

LEMMA OneTypedPage ==
  ASSUME Typed, Draws, NEW tab \in Tabs, NEW p, page' = [page EXCEPT ![tab] = p],
         PageTyped(p, drawnTask')
  PROVE  page' = [t \in Tabs |-> page'[t]] /\ \A t \in Tabs : PageTyped(page'[t], drawnTask')
PROOF
<1>1. page' = [t \in Tabs |-> page'[t]] /\ \A t \in Tabs : page'[t] = IF t = tab THEN p ELSE page[t]
  BY DEF Typed
<1> QED BY <1>1, PageStays DEF Typed

LEMMA SameTypedPages ==
  ASSUME Typed, Draws, page' = page
  PROVE  page' = [t \in Tabs |-> page'[t]] /\ \A t \in Tabs : PageTyped(page'[t], drawnTask')
BY PageStays DEF Typed

LEMMA FreeTyped == ASSUME Typed, NEW d \in Nat PROVE RequestTyped(Free, d)
PROOF
<1>1. <<>> \in Seq(Items) /\ <<>> \in Seq(Seen(d))
  BY EmptySeq
<1>2. 0 \in 0..MaxTasks /\ 0 \in 0..MaxTokens
  BY PageAssumption, AuthAssumption
<1> QED BY <1>1, <1>2 DEF RequestTyped, Free, CallType, NoToken

\* What a page asks for.
LEMMA RequestMadeTyped ==
  ASSUME NEW d \in 0..MaxTasks, NEW tab \in Tabs, NEW session, NEW kind, Paired(session)
  PROVE  /\ kind \in {"create", "list"} => RequestTyped(Request(tab, session, kind), d)
         /\ \A id \in 1..d : kind = "delete" =>
              RequestTyped([Request(tab, session, kind) EXCEPT !.id = id], d)
         /\ \A id \in 1..d, done \in BOOLEAN : kind = "update" =>
              RequestTyped([Request(tab, session, kind) EXCEPT !.id = id, !.done = done], d)
         /\ \A cred \in Credentials : kind \in SignIns =>
              RequestTyped([Request(tab, session, kind) EXCEPT !.email = cred.email, !.cred = cred], d)
PROOF
<1> DEFINE q == Request(tab, session, kind)
<1>1. <<>> \in Seq(Items) /\ <<>> \in Seq(Seen(d))
  BY EmptySeq
<1>2. 0 \in 0..MaxTasks /\ 1..d \subseteq 0..MaxTasks
  BY PageAssumption
<1> DEFINE Kinds == Writes \cup {"signup", "login", "list"}
<1>8. session.token \in 0..MaxTokens /\ session.email \in Emails \cup {NoEmail}
  BY DEF Paired, Session
<1>3. /\ kind \in Kinds => q \in CallType
      /\ q.at = "sent" /\ q.kind = kind /\ q.rows = <<>>
  BY <1>1, <1>2, <1>8, PageAssumption DEF Request, Free, CallType
<1> HIDE DEF q
<1>4. kind \in {"create", "list"} => RequestTyped(q, d)
  BY <1>1, <1>2, <1>3, <1>8 DEF RequestTyped, CallType, Writes, SignIns
<1>5. ASSUME NEW id \in 1..d, kind = "delete" PROVE RequestTyped([q EXCEPT !.id = id], d)
  BY <1>1, <1>2, <1>3, <1>8, <1>5 DEF RequestTyped, CallType, Writes, SignIns
<1>6. ASSUME NEW id \in 1..d, NEW done \in BOOLEAN, kind = "update"
      PROVE  RequestTyped([q EXCEPT !.id = id, !.done = done], d)
  BY <1>1, <1>2, <1>3, <1>8, <1>6 DEF RequestTyped, CallType, Writes, SignIns
<1>7. ASSUME NEW cred \in Credentials, kind \in SignIns
      PROVE  RequestTyped([q EXCEPT !.email = cred.email, !.cred = cred], d)
  BY <1>1, <1>2, <1>3, <1>8, <1>7 DEF RequestTyped, CallType, SignIns, Credentials
<1> QED BY <1>4, <1>5, <1>6, <1>7 DEF q

\* What an answer brings.
LEMMA AnswerTyped ==
  ASSUME Typed, Draws, NEW c \in Calls, NEW ok \in BOOLEAN, NEW token \in 0..MaxTokens,
         NEW rows \in Seq(Seen(drawnTask')), call[c].at = "sent", Answered(c, ok, token, rows),
         ok /\ call[c].kind \in SignIns => token # NoToken,
         ok /\ call[c].kind = "update" => rows = <<[id |-> call[c].id, done |-> call[c].done]>>,
         ok /\ call[c].kind = "create" =>
           \E id \in 1..drawnTask' : rows = <<[id |-> id, done |-> FALSE]>>
  PROVE  call' = [d \in Calls |-> call'[d]] /\ \A d \in Calls : RequestTyped(call'[d], drawnTask')
PROOF
<1> DEFINE q == call[c]
           answered == [q EXCEPT !.at = "answered", !.ok = ok, !.token = token, !.rows = rows]
           after == IF q.tab = NoTab \/ (~ok /\ q.cred # NoUser) THEN Free ELSE answered
<1>1. RequestTyped(q, drawnTask') /\ q.at = "sent"
  BY RequestStays DEF Typed
<1>2. call' = [call EXCEPT ![c] = after]
  BY DEF Answered, Typed
<1>3. rows \in Seq(Items) /\ drawnTask' \in Nat
  BY SeenItems, PageAssumption DEF Draws
<1>4. /\ ok /\ q.kind \in SignIns => token # NoToken
      /\ ok /\ q.kind = "update" => rows = <<[id |-> q.id, done |-> q.done]>>
      /\ ok /\ q.kind = "create" => \E id \in 1..drawnTask' : rows = <<[id |-> id, done |-> FALSE]>>
  OBVIOUS
<1> HIDE DEF q
<1>5. RequestTyped(answered, drawnTask')
  <2>1. /\ answered \in CallType /\ answered.rows = rows /\ answered.kind = q.kind
        /\ answered.id = q.id /\ answered.done = q.done /\ answered.ok = ok
        /\ answered.token = token /\ answered.email = q.email /\ answered.at = "answered"
    BY <1>1, <1>3 DEF RequestTyped, CallType
  <2> HIDE DEF answered
  <2> QED BY <1>1, <1>4, <2>1 DEF RequestTyped
<1>6. RequestTyped(after, drawnTask')
  BY <1>3, <1>5, FreeTyped
<1> HIDE DEF after
<1> QED BY <1>2, <1>6, OneTypedRequest
-----------------------------------------------------------------------------
(***************************************************************************)
(* ownTasks and listTasks.                                                 *)
(***************************************************************************)
Ids(rows) == {rows[i].id : i \in DOMAIN rows}

OneEach(rows) == \A i, j \in DOMAIN rows : rows[i].id = rows[j].id => i = j

\* The rows are those of user u in the table ts, each once.
Lists(rows, u, ts) ==
  /\ OneEach(rows)
  /\ \A id \in TaskIds : (ts[id] # NoTask /\ ts[id].user = u) <=> id \in Ids(rows)
  /\ \A i \in DOMAIN rows : rows[i].done = ts[rows[i].id].done

LEMMA ListIs ==
  ASSUME IInv, Typed, NEW u
  PROVE  ownTasks(u) \in Seq(Seen(drawnTask)) /\ Lists(ownTasks(u), u, tasks)
PROOF
<1> DEFINE byId == [i \in TaskIds |-> MaxTasks + 1 - i]
           places == {i \in TaskIds : Own(u, byId[i])}
           ids == Kept(byId, places)
           rows == [i \in DOMAIN ids |-> [id |-> ids[i], done |-> tasks[ids[i]].done]]
<1>1. /\ MaxTasks \in Nat /\ drawnTask \in 0..MaxTasks
      /\ \A id \in TaskIds : tasks[id] # NoTask => id \in 1..drawnTask /\ tasks[id].done \in BOOLEAN
  <2>1. MaxTasks \in Nat /\ drawnTask \in 0..MaxTasks
    BY PageAssumption DEF IInv, RowsDrawn
  <2>2. ASSUME NEW id \in TaskIds, tasks[id] # NoTask PROVE id \in 1..drawnTask /\ tasks[id].done \in BOOLEAN
    <3>1. ~(id > drawnTask)
      BY <2>2 DEF IInv, RowsDrawn
    <3>2. tasks[id] \in [user : UserIds, done : BOOLEAN]
      BY <2>2 DEF Typed
    <3> QED BY <2>1, <3>1, <3>2 DEF TaskIds
  <2> QED BY <2>1, <2>2
<1>2. /\ \A i \in TaskIds : byId[i] = MaxTasks + 1 - i /\ byId[i] \in TaskIds
      /\ \A id \in TaskIds : MaxTasks + 1 - id \in TaskIds /\ byId[MaxTasks + 1 - id] = id
      /\ \A i, j \in TaskIds : byId[i] = byId[j] => i = j
  BY <1>1 DEF TaskIds
<1>3. byId \in Seq(TaskIds) /\ Len(byId) = MaxTasks
  <2>1. byId = [i \in 1..MaxTasks |-> byId[i]] /\ \A i \in 1..MaxTasks : byId[i] \in TaskIds
    BY <1>2 DEF TaskIds
  <2> HIDE DEF byId
  <2> QED BY ONLY <1>1, <2>1
<1> HIDE DEF byId
<1>4. places \in SUBSET (1..Len(byId))
  BY <1>3 DEF TaskIds
<1>5. ownTasks(u) = rows
  BY DEF ownTasks, byId
<1>6. \A i \in TaskIds : i \in places <=> Own(u, byId[i])
  OBVIOUS
<1> HIDE DEF places, ids
<1>7. ids \in Seq(TaskIds)
  BY <1>3, <1>4, KeptItems DEF ids
<1>8. PICK f \in [DOMAIN ids -> places] :
        /\ \A m \in DOMAIN ids : ids[m] = byId[f[m]]
        /\ \A m, n \in DOMAIN ids : f[m] = f[n] => m = n
        /\ \A i \in places : \E m \in DOMAIN ids : f[m] = i
  BY <1>3, <1>4, KeptItems DEF ids
<1>9. places \subseteq TaskIds
  BY <1>3, <1>4 DEF TaskIds
<1>10. \A m \in DOMAIN ids : ids[m] \in TaskIds /\ Own(u, ids[m])
  BY <1>2, <1>6, <1>8, <1>9
<1>11. \A m, n \in DOMAIN ids : ids[m] = ids[n] => m = n
  BY <1>2, <1>8, <1>9
<1>12. ASSUME NEW id \in TaskIds, Own(u, id) PROVE \E m \in DOMAIN ids : ids[m] = id
  <2>1. MaxTasks + 1 - id \in places
    BY <1>2, <1>6, <1>12
  <2> QED BY <1>2, <1>8, <2>1
<1>13. /\ DOMAIN rows = DOMAIN ids
       /\ \A m \in DOMAIN ids : rows[m] = [id |-> ids[m], done |-> tasks[ids[m]].done]
       /\ \A m \in DOMAIN ids : rows[m].id = ids[m] /\ rows[m].done = tasks[ids[m]].done
  OBVIOUS
<1> HIDE DEF rows
<1>14. Lists(rows, u, tasks)
  <2>1. \A id \in TaskIds : Own(u, id) <=> id \in Ids(rows)
    BY <1>10, <1>12, <1>13 DEF Ids
  <2> QED BY <1>11, <1>13, <2>1 DEF Lists, OneEach, Own
<1>15. rows \in Seq(Seen(drawnTask))
  <2>1. \A m \in DOMAIN ids : rows[m] \in Seen(drawnTask)
    BY <1>1, <1>10, <1>13 DEF Own, Seen
  <2>2. Len(ids) \in Nat /\ DOMAIN ids = 1..Len(ids)
    BY <1>7, LenProperties
  <2>3. rows = [m \in 1..Len(ids) |-> rows[m]]
    BY <2>2 DEF rows
  <2> QED BY <2>1, <2>2, <2>3
<1> QED BY <1>5, <1>14, <1>15
\* What is served: all rows, or the first ListLimit of them.
LEMMA ServedIs ==
  ASSUME IInv, Typed, NEW u
  PROVE  /\ listTasks(u) \in Seq(Seen(drawnTask))
         /\ ~Cut(u) => Lists(listTasks(u), u, tasks)
PROOF
<1> DEFINE own == ownTasks(u)  S == Seen(drawnTask)
<1>1. own \in Seq(S) /\ Lists(own, u, tasks) /\ Len(own) \in Nat
  BY ListIs, LenProperties
<1>2. CASE ~Cut(u)
  BY <1>1, <1>2 DEF listTasks
<1>3. CASE Cut(u)
  <2>1. Len(own) > ListLimit /\ ListLimit \in Nat \ {0}
    BY <1>3, PageAssumption DEF Cut
  <2> HIDE DEF own, S
  <2>2. \A i \in 1..ListLimit : own[i] \in S
    BY <1>1, <2>1, ElementOfSeq
  <2>3. SubSeq(own, 1, ListLimit) \in Seq(S)
    BY <1>1, <2>1, <2>2, SubSeqProperties
  <2> QED BY <1>3, <2>3 DEF listTasks, own, S
<1> QED BY <1>2, <1>3

-----------------------------------------------------------------------------
(***************************************************************************)
(* Every step keeps the types.                                             *)
(***************************************************************************)
LEMMA TypedInit == Init => Typed
PROOF
<1> SUFFICES ASSUME Init PROVE Typed
  OBVIOUS
<1>1. /\ drawnTask = 0 /\ 0 \in Nat /\ <<>> \in Seq(Items) /\ <<>> \in Seq(Seen(0))
      /\ 0 \in 0..MaxTasks /\ 0 \in 0..MaxTokens
  BY EmptySeq, PageAssumption, AuthAssumption DEF Init
<1>2. RequestTyped(Free, 0)
  BY <1>1 DEF RequestTyped, Free, CallType, NoToken
<1>3. Paired(SignedOut)
  BY <1>1 DEF Paired, SignedOut, Session, NoToken
<1>4. PageTyped([session |-> SignedOut, shown |-> <<>>], 0)
  BY <1>1, <1>3 DEF PageTyped, Paired
<1> DEFINE p == [session |-> SignedOut, shown |-> <<>>]
<1>5. tasks = [t \in TaskIds |-> NoTask] /\ store = SignedOut /\ page = [tab \in Tabs |-> p]
      /\ call = [c \in Calls |-> Free] /\ calm = [tab \in Tabs |-> FALSE]
  BY DEF Init
<1> HIDE DEF p
<1> QED BY <1>1, <1>2, <1>3, <1>4, <1>5 DEF Typed, p

LEMMA SameRows ==
  ASSUME IInv, Typed, UNCHANGED tableVars
  PROVE  Draws /\ (tasks \in [TaskIds -> [user : UserIds, done : BOOLEAN] \cup {NoTask}])'
BY PageAssumption DEF IInv, RowsDrawn, Typed, Draws, tableVars

LEMMA Bearer ==
  ASSUME IInv, NEW c \in Calls, call[c].at # "free", call[c].token # NoToken
  PROVE  Subject(call[c].token) \in UserIds
PROOF
<1> DEFINE t == call[c].token
<1>1. t \in 1..Len(tokens)
  <2>1. t \in 0..Len(tokens) /\ Len(tokens) \in Nat
    BY LenProperties DEF IInv, RequestsTrue, RequestTrue, Goes, AccountsOnce, AuthTypeOK
  <2> QED BY <2>1 DEF NoToken
<1> HIDE DEF t
<1>2. tokens[t] \in [user : UserIds, live : BOOLEAN]
  BY <1>1, ElementOfSeq DEF IInv, AccountsOnce, AuthTypeOK
<1> QED BY <1>2 DEF Subject, t

LEMMA ExecuteTyped ==
  ASSUME IInv, IInv', Typed, NEW c \in Calls, call[c].at = "sent", Execute(call[c])
  PROVE  /\ Draws
         /\ (tasks \in [TaskIds -> [user : UserIds, done : BOOLEAN] \cup {NoTask}])'
         /\ Returning(call[c]) \in Seq(Seen(drawnTask'))
         /\ call[c].kind \in Writes
         /\ call[c].kind = "update" =>
              Returning(call[c]) = <<[id |-> call[c].id, done |-> call[c].done]>>
         /\ call[c].kind = "create" =>
              \E id \in 1..drawnTask' : Returning(call[c]) = <<[id |-> id, done |-> FALSE]>>
PROOF
<1> DEFINE q == call[c]  u == Subject(q.token)
           Row == [user : UserIds, done : BOOLEAN] \cup {NoTask}
<1>1. /\ q.token # NoToken /\ q.kind \in Writes
      /\ \/ q.kind = "create" /\ createTask(u)
         \/ q.kind = "update" /\ updateTask(u, q.id, q.done)
         \/ q.kind = "delete" /\ deleteTask(u, q.id)
  BY DEF Execute, Valid, Writes
<1>2. u \in UserIds
  BY <1>1, Bearer
<1>3. /\ drawnTask \in 0..MaxTasks /\ drawnTask' \in 0..MaxTasks /\ MaxTasks \in Nat
      /\ tasks \in [TaskIds -> Row]
  BY PageAssumption DEF IInv, RowsDrawn, Typed
<1>4. RequestTyped(q, drawnTask) /\ q.at = "sent"
  BY DEF Typed
<1> HIDE DEF q, u
<1>5. CASE q.kind = "create" /\ createTask(u)
  <2> DEFINE row == [user |-> u, done |-> FALSE]
  <2>1. drawnTask' = drawnTask + 1 /\ tasks' = [tasks EXCEPT ![drawnTask + 1] = row]
    BY <1>5 DEF createTask
  <2>2. row \in Row
    BY <1>2
  <2>6. Draws
    BY <1>3, <2>1 DEF Draws
  <2> HIDE DEF row, Row
  <2>3. tasks' \in [TaskIds -> Row]
    BY <1>3, <2>1, <2>2
  <2>4. Returning(q) = <<[id |-> drawnTask', done |-> FALSE]>>
    BY <1>5 DEF Returning
  <2>5. drawnTask' \in 1..drawnTask' /\ [id |-> drawnTask', done |-> FALSE] \in Seen(drawnTask')
    BY <1>3, <2>1 DEF Seen
  <2>7. Returning(q) \in Seq(Seen(drawnTask'))
    BY <2>4, <2>5
  <2>8. q.kind # "update" /\ \E id \in 1..drawnTask' : Returning(q) = <<[id |-> id, done |-> FALSE]>>
    BY <1>5, <2>4, <2>5
  <2> QED BY <1>1, <2>3, <2>6, <2>7, <2>8 DEF q, Row
<1>6. CASE q.kind = "update" /\ updateTask(u, q.id, q.done)
  <2>1. drawnTask' = drawnTask /\ q.id \in 1..drawnTask /\ q.done \in BOOLEAN
    BY <1>4, <1>6 DEF updateTask, RequestTyped, CallType
  <2>2. q.id \in TaskIds /\ tasks[q.id] # NoTask /\ tasks' = [tasks EXCEPT ![q.id].done = q.done]
    BY <1>3, <1>6, <2>1 DEF TaskIds, updateTask, Own
  <2>6. [tasks[q.id] EXCEPT !.done = q.done] \in Row
    BY <1>3, <2>1, <2>2
  <2>8. Draws
    BY <1>3, <2>1 DEF Draws
  <2> HIDE DEF Row
  <2>3. tasks' \in [TaskIds -> Row]
    <3> DEFINE row == [tasks[q.id] EXCEPT !.done = q.done]
    <3>1. tasks' = [tasks EXCEPT ![q.id] = row]
      BY <2>2
    <3> HIDE DEF row
    <3>2. row \in Row
      BY <2>6 DEF row
    <3> QED BY ONLY <1>3, <3>1, <3>2
  <2>4. Returning(q) = <<[id |-> q.id, done |-> q.done]>>
    BY <1>6 DEF Returning
  <2>5. [id |-> q.id, done |-> q.done] \in Seen(drawnTask')
    BY <2>1 DEF Seen
  <2>7. Returning(q) \in Seq(Seen(drawnTask')) /\ q.kind # "create"
    BY <1>6, <2>4, <2>5
  <2> QED BY <1>1, <2>3, <2>4, <2>7, <2>8 DEF q, Row
<1>7. CASE q.kind = "delete" /\ deleteTask(u, q.id)
  <2>1. drawnTask' = drawnTask /\ tasks' = [tasks EXCEPT ![q.id] = NoTask]
    BY <1>7 DEF deleteTask
  <2>4. NoTask \in Row
    OBVIOUS
  <2> HIDE DEF Row
  <2>6. Draws
    BY <1>3, <2>1 DEF Draws
  <2>2. tasks' \in [TaskIds -> Row]
    BY ONLY <1>3, <2>1, <2>4
  <2>3. Returning(q) = <<>> /\ <<>> \in Seq(Seen(drawnTask'))
    BY <1>7, EmptySeq DEF Returning
  <2>5. q.kind # "create" /\ q.kind # "update"
    BY <1>7
  <2> QED BY <1>1, <2>2, <2>3, <2>5, <2>6 DEF q, Row
<1> QED BY <1>1, <1>5, <1>6, <1>7

LEMMA ServeAuthTyped ==
  ASSUME IInv, IInv', Typed, NEW c \in Calls, ServeAuth(c)
  PROVE  Typed'
PROOF
<1>1. /\ call[c].at = "sent" /\ call[c].kind \in SignIns
      /\ UNCHANGED tableVars /\ store' = store /\ page' = page /\ calm' = calm
  BY DEF ServeAuth, SignIns
<1>2. PICK token \in 0..MaxTokens : Answered(c, token # NoToken, token, <<>>)
  BY DEF ServeAuth
<1> DEFINE ok == token # NoToken
<1>3. ok \in BOOLEAN /\ (ok => token # NoToken) /\ Answered(c, ok, token, <<>>)
  BY <1>2
<1> HIDE DEF ok
<1>4. <<>> \in Seq(Seen(drawnTask'))
  BY EmptySeq
<1>5. call[c].kind # "update" /\ call[c].kind # "create"
  BY <1>1 DEF SignIns
<1>6. call' = [d \in Calls |-> call'[d]] /\ \A d \in Calls : RequestTyped(call'[d], drawnTask')
  BY <1>1, <1>3, <1>4, <1>5, SameRows, AnswerTyped
<1> QED BY <1>1, <1>6, SameRows, SameTypedPages DEF Typed

\* Any other request is answered with its own token.
LEMMA OwnToken ==
  ASSUME Typed, NEW c \in Calls
  PROVE  call[c].token \in 0..MaxTokens /\ call[c].tab \in Tabs \cup {NoTab}
BY DEF Typed, RequestTyped, CallType

LEMMA DisturbTyped ==
  ASSUME Typed, NEW tabs, Disturb(tabs) \/ UNCHANGED calm
  PROVE  calm' \in [Tabs -> BOOLEAN]
BY DEF Disturb, Typed

LEMMA ServeListTyped ==
  ASSUME IInv, IInv', Typed, NEW c \in Calls, ServeList(c)
  PROVE  Typed'
PROOF
<1> DEFINE list == listTasks(Subject(call[c].token))
<1>1. /\ call[c].at = "sent" /\ call[c].kind = "list"
      /\ UNCHANGED tableVars /\ store' = store /\ page' = page
  BY DEF ServeList
<1>2. PICK ok \in BOOLEAN, rows \in {<<>>, list} : Answered(c, ok, call[c].token, rows)
  BY DEF ServeList
<1>3. drawnTask' = drawnTask /\ Draws
  BY <1>1, SameRows DEF tableVars
<1>4. rows \in Seq(Seen(drawnTask'))
  BY <1>3, EmptySeq, ServedIs
<1>5. call[c].kind \notin SignIns /\ call[c].kind # "update" /\ call[c].kind # "create"
  BY <1>1 DEF SignIns
<1>6. call' = [d \in Calls |-> call'[d]] /\ \A d \in Calls : RequestTyped(call'[d], drawnTask')
  BY <1>1, <1>2, <1>3, <1>4, <1>5, OwnToken, AnswerTyped
<1>7. calm' \in [Tabs -> BOOLEAN]
  BY DisturbTyped DEF ServeList
<1> QED BY <1>1, <1>6, <1>7, SameRows, SameTypedPages DEF Typed

LEMMA ServeWriteTyped ==
  ASSUME IInv, IInv', Typed, NEW c \in Calls, ServeWrite(c)
  PROVE  Typed'
PROOF
<1> DEFINE q == call[c]
           Rows == (tasks \in [TaskIds -> [user : UserIds, done : BOOLEAN] \cup {NoTask}])'
           Requests == call' = [d \in Calls |-> call'[d]]
                       /\ \A d \in Calls : RequestTyped(call'[d], drawnTask')
<1>1. /\ q.at = "sent" /\ q.kind \in Writes /\ q.kind \notin SignIns
      /\ store' = store /\ page' = page
  BY DEF ServeWrite, Writes, SignIns
<1>2. Draws /\ Rows
  <2>1. Execute(q) \/ UNCHANGED tableVars
    BY DEF ServeWrite
  <2> QED BY <1>1, <2>1, ExecuteTyped, SameRows
<1>3. ASSUME Execute(q), Answered(c, TRUE, q.token, Returning(q)) PROVE Requests
  <2>1. /\ Returning(q) \in Seq(Seen(drawnTask'))
        /\ q.kind = "update" => Returning(q) = <<[id |-> q.id, done |-> q.done]>>
        /\ q.kind = "create" => \E id \in 1..drawnTask' : Returning(q) = <<[id |-> id, done |-> FALSE]>>
    BY <1>1, <1>3, ExecuteTyped
  <2> DEFINE rows == Returning(q)
  <2> HIDE DEF rows
  <2>2. rows = Returning(q)
    BY DEF rows
  <2> QED BY <1>1, <1>2, <1>3, <2>1, <2>2, OwnToken, AnswerTyped
<1>4. ASSUME Answered(c, FALSE, q.token, <<>>) PROVE Requests
  <2>1. <<>> \in Seq(Seen(drawnTask'))
    BY EmptySeq
  <2> QED BY <1>1, <1>2, <1>4, <2>1, OwnToken, AnswerTyped
<1>5. Requests
  BY <1>3, <1>4 DEF ServeWrite
<1>6. calm' \in [Tabs -> BOOLEAN]
  <2>1. \E tabs : Disturb(tabs) \/ UNCHANGED calm
    BY DEF ServeWrite
  <2> QED BY <2>1, DisturbTyped
<1> QED BY <1>1, <1>2, <1>5, <1>6, SameTypedPages DEF Typed

LEMMA LateTyped ==
  ASSUME NEW q, NEW d, RequestTyped(q, d)
  PROVE  RequestTyped([q EXCEPT !.tab = NoTab], d)
PROOF
<1> DEFINE late == [q EXCEPT !.tab = NoTab]
<1>1. q \in CallType
  BY DEF RequestTyped
<1>2. /\ late \in CallType /\ late.at = q.at /\ late.kind = q.kind /\ late.token = q.token
      /\ late.email = q.email /\ late.id = q.id /\ late.done = q.done /\ late.ok = q.ok
      /\ late.rows = q.rows
  BY <1>1 DEF CallType
<1> HIDE DEF late
<1>3. RequestTyped(late, d)
  BY <1>2 DEF RequestTyped
<1> QED BY <1>3 DEF late

LEMMA RejectTyped ==
  ASSUME IInv, IInv', Typed, NEW c \in Calls, Reject(c)
  PROVE  Typed'
PROOF
<1> DEFINE late == [call[c] EXCEPT !.tab = NoTab]
<1>1. UNCHANGED tableVars /\ store' = store /\ page' = page /\ Disturb({call[c].tab})
  BY DEF Reject
<1>2. Draws /\ drawnTask' \in Nat
  BY <1>1, SameRows, PageAssumption DEF Draws
<1>3. RequestTyped(call[c], drawnTask')
  BY <1>2, RequestStays DEF Typed
<1>4. RequestTyped(late, drawnTask') /\ RequestTyped(Free, drawnTask')
  BY <1>2, <1>3, LateTyped, FreeTyped
<1>5. call' = [call EXCEPT ![c] = Free] \/ call' = [call EXCEPT ![c] = late]
  BY DEF Reject
<1> HIDE DEF late
<1>6. call' = [d \in Calls |-> call'[d]] /\ \A d \in Calls : RequestTyped(call'[d], drawnTask')
  <2>1. CASE call' = [call EXCEPT ![c] = Free]
    BY <1>2, <1>4, <2>1, OneTypedRequest
  <2>2. CASE call' = [call EXCEPT ![c] = late]
    BY <1>2, <1>4, <2>2, OneTypedRequest
  <2> QED BY <1>5, <2>1, <2>2
<1>7. calm' \in [Tabs -> BOOLEAN]
  BY <1>1, DisturbTyped
<1> QED BY <1>1, <1>6, <1>7, SameRows, SameTypedPages DEF Typed

\* A command of the user is typed, and leaves all but the requests alone.
LEMMA CommandTyped ==
  ASSUME IInv, IInv', Typed, NEW tab \in Tabs,
         \/ Login(tab) \/ addTask(tab)
         \/ \E i \in DOMAIN page[tab].shown : toggle(tab, i) \/ remove(tab, i)
  PROVE  Typed'
PROOF
<1> DEFINE session == page[tab].session
           Requests == call' = [d \in Calls |-> call'[d]]
                       /\ \A d \in Calls : RequestTyped(call'[d], drawnTask')
<1>1. UNCHANGED tableVars /\ store' = store /\ page' = page
  BY DEF Login, addTask, toggle, remove, Command
<1>2. Draws /\ drawnTask' = drawnTask /\ drawnTask' \in 0..MaxTasks
  BY <1>1, SameRows DEF Draws, tableVars
<1>3. Paired(session) /\ Paired(SignedOut)
  <2>1. 0 \in 0..MaxTokens
    BY AuthAssumption
  <2> QED BY <2>1 DEF Typed, PageTyped, Paired, SignedOut, Session, NoToken
<1>4. ASSUME NEW i \in DOMAIN page[tab].shown
      PROVE  page[tab].shown[i].id \in 1..drawnTask' /\ (~page[tab].shown[i].done) \in BOOLEAN
  <2> DEFINE shown == page[tab].shown
  <2>1. shown \in Seq(Seen(drawnTask)) /\ i \in DOMAIN shown
    BY <1>4 DEF Typed, PageTyped
  <2> HIDE DEF shown
  <2>2. i \in 1..Len(shown)
    BY <2>1, LenProperties
  <2>3. shown[i] \in Seen(drawnTask)
    BY <2>1, <2>2, ElementOfSeq
  <2> QED BY <1>2, <2>3 DEF Seen, shown
<1>5. ASSUME Login(tab) PROVE Requests
  <2>1. PICK kind \in SignIns, cred \in Credentials, c \in Calls :
          call' = [call EXCEPT ![c] =
                     [Request(tab, SignedOut, kind) EXCEPT !.email = cred.email, !.cred = cred]]
    BY <1>5 DEF Login, Send, SignIns
  <2> DEFINE q == [Request(tab, SignedOut, kind) EXCEPT !.email = cred.email, !.cred = cred]
  <2>2. RequestTyped(q, drawnTask')
    BY <1>2, <1>3, RequestMadeTyped
  <2>3. call' = [call EXCEPT ![c] = q]
    BY <2>1
  <2> HIDE DEF q
  <2> QED BY <1>2, <2>2, <2>3, OneTypedRequest
<1>6. ASSUME addTask(tab) PROVE Requests
  <2> DEFINE q == Request(tab, session, "create")
  <2>1. PICK c \in Calls : call' = [call EXCEPT ![c] = q]
    BY <1>6 DEF addTask, Command, Send
  <2>2. RequestTyped(q, drawnTask')
    BY <1>2, <1>3, RequestMadeTyped
  <2> HIDE DEF q
  <2> QED BY <1>2, <2>1, <2>2, OneTypedRequest
<1>7. ASSUME NEW i \in DOMAIN page[tab].shown, toggle(tab, i) PROVE Requests
  <2> DEFINE t == page[tab].shown[i]
             q == [Request(tab, session, "update") EXCEPT !.id = t.id, !.done = ~t.done]
  <2>1. PICK c \in Calls : call' = [call EXCEPT ![c] = q]
    BY <1>7 DEF toggle, Command, Send
  <2>2. RequestTyped(q, drawnTask')
    BY <1>2, <1>3, <1>4, RequestMadeTyped
  <2> HIDE DEF q
  <2> QED BY <1>2, <2>1, <2>2, OneTypedRequest
<1>8. ASSUME NEW i \in DOMAIN page[tab].shown, remove(tab, i) PROVE Requests
  <2> DEFINE t == page[tab].shown[i]
             q == [Request(tab, session, "delete") EXCEPT !.id = t.id]
  <2>1. PICK c \in Calls : call' = [call EXCEPT ![c] = q]
    BY <1>8 DEF remove, Command, Send
  <2>2. RequestTyped(q, drawnTask')
    BY <1>2, <1>3, <1>4, RequestMadeTyped
  <2> HIDE DEF q
  <2> QED BY <1>2, <2>1, <2>2, OneTypedRequest
<1>9. Requests
  BY <1>5, <1>6, <1>7, <1>8
<1>10. calm' \in [Tabs -> BOOLEAN]
  <2>1. \E tabs : Disturb(tabs) \/ UNCHANGED calm
    BY DEF Login, addTask, toggle, remove
  <2> QED BY <2>1, DisturbTyped
<1> QED BY <1>1, <1>9, <1>10, SameRows, SameTypedPages DEF Typed

LEMMA SignOutTyped ==
  ASSUME IInv, IInv', Typed, NEW tab \in Tabs, signOut(tab)
  PROVE  Typed'
PROOF
<1> DEFINE p == [session |-> SignedOut, shown |-> <<>>]
<1>1. UNCHANGED tableVars /\ store' = SignedOut /\ page' = [page EXCEPT ![tab] = p]
      /\ call' = call /\ Disturb({tab})
  BY DEF signOut
<1>2. Paired(SignedOut)
  <2>1. 0 \in 0..MaxTokens
    BY AuthAssumption
  <2> QED BY <2>1 DEF Paired, SignedOut, Session, NoToken
<1>3. PageTyped(p, drawnTask')
  BY <1>2, EmptySeq DEF PageTyped, Paired
<1> HIDE DEF p
<1>4. Draws
  BY <1>1, SameRows
<1>5. page' = [t \in Tabs |-> page'[t]] /\ \A t \in Tabs : PageTyped(page'[t], drawnTask')
  BY <1>1, <1>3, <1>4, OneTypedPage
<1>6. calm' \in [Tabs -> BOOLEAN]
  BY <1>1, DisturbTyped
<1> QED BY <1>1, <1>2, <1>4, <1>5, <1>6, SameRows, SameTypedRequests DEF Typed

LEMMA LoadTyped ==
  ASSUME IInv, IInv', Typed, NEW tab \in Tabs, Load(tab)
  PROVE  Typed'
PROOF
<1> DEFINE left == [c \in Calls |->
                      IF c \notin InFlight(tab) THEN call[c]
                      ELSE IF call[c].at = "sent" /\ call[c].kind # "list"
                        THEN [call[c] EXCEPT !.tab = NoTab]
                        ELSE Free]
           p == [session |-> store, shown |-> <<>>]
<1>1. UNCHANGED tableVars /\ store' = store /\ page' = [page EXCEPT ![tab] = p]
  BY DEF Load
<1>2. Draws /\ drawnTask' \in 0..MaxTasks /\ drawnTask' \in Nat
  BY <1>1, SameRows, PageAssumption DEF Draws
<1>3. Paired(store)
  BY DEF Typed
<1>4. PageTyped(p, drawnTask')
  BY <1>3, EmptySeq DEF PageTyped, Paired
<1>5. ASSUME NEW c \in Calls PROVE RequestTyped(left[c], drawnTask')
  <2>1. RequestTyped(call[c], drawnTask')
    BY <1>2, RequestStays DEF Typed
  <2>2. RequestTyped([call[c] EXCEPT !.tab = NoTab], drawnTask')
    BY <2>1, LateTyped
  <2>3. RequestTyped(Free, drawnTask')
    BY <1>2, FreeTyped
  <2>4. \/ left[c] = call[c] \/ left[c] = [call[c] EXCEPT !.tab = NoTab] \/ left[c] = Free
    OBVIOUS
  <2> QED BY ONLY <2>1, <2>2, <2>3, <2>4
<1>6. RequestTyped(Request(tab, store, "list"), drawnTask')
  BY <1>2, <1>3, RequestMadeTyped
<1>7. \/ call' = left
      \/ \E c \in Calls : call' = [left EXCEPT ![c] = Request(tab, store, "list")]
  BY DEF Load
<1>8. left = [c \in Calls |-> left[c]]
  OBVIOUS
<1> DEFINE list == Request(tab, store, "list")
<1> HIDE DEF left, p, list
<1>9. call' = [d \in Calls |-> call'[d]] /\ \A d \in Calls : RequestTyped(call'[d], drawnTask')
  <2>1. CASE call' = left
    BY <1>5, <1>8, <2>1
  <2>2. ASSUME NEW c \in Calls, call' = [left EXCEPT ![c] = list]
        PROVE  call' = [d \in Calls |-> call'[d]] /\ \A d \in Calls : RequestTyped(call'[d], drawnTask')
    <3>1. call' = [d \in Calls |-> call'[d]] /\ \A d \in Calls : call'[d] = IF d = c THEN list ELSE left[d]
      BY <1>8, <2>2
    <3> QED BY <1>5, <1>6, <3>1 DEF list
  <2> QED BY <1>7, <2>1, <2>2 DEF list
<1>10. page' = [t \in Tabs |-> page'[t]] /\ \A t \in Tabs : PageTyped(page'[t], drawnTask')
  BY <1>1, <1>2, <1>4, OneTypedPage
<1>11. calm' \in [Tabs -> BOOLEAN]
  BY DEF Load, Typed
<1> QED BY <1>1, <1>3, <1>9, <1>10, <1>11, SameRows DEF Typed

\* What a callback shows was seen.
LEMMA ShownTyped ==
  ASSUME NEW d \in Nat, NEW q, RequestTyped(q, d), q.at = "answered",
         NEW shown \in Seq(Seen(d))
  PROVE  Shown(q, shown) \in Seq(Seen(d))
PROOF
<1>1. q.rows \in Seq(Seen(d)) /\ q.kind \in Writes \cup {"signup", "login", "list"}
  BY DEF RequestTyped, CallType
<1>2. Len(shown) \in Nat /\ DOMAIN shown = 1..Len(shown) /\ \A i \in 1..Len(shown) : shown[i] \in Seen(d)
  BY LenProperties, ElementOfSeq
<1>3. CASE q.kind = "list"
  BY <1>1, <1>3 DEF Shown
<1>4. CASE q.kind = "create" /\ q.ok
  BY <1>1, <1>4, ConcatProperties DEF Shown
<1>5. CASE q.kind = "update" /\ q.ok
  <2> DEFINE new == [i \in DOMAIN shown |-> IF shown[i].id = q.id THEN q.rows[1] ELSE shown[i]]
  <2>1. q.rows = <<[id |-> q.id, done |-> q.done]>>
    BY <1>5 DEF RequestTyped
  <2>2. Len(q.rows) = 1
    BY <2>1
  <2>3. q.rows[1] \in Seen(d)
    BY <1>1, <2>2, ElementOfSeq
  <2>4. new = [i \in 1..Len(shown) |-> new[i]] /\ \A i \in 1..Len(shown) : new[i] \in Seen(d)
    BY <1>2, <2>3
  <2>5. Shown(q, shown) = new
    BY <1>5 DEF Shown
  <2> HIDE DEF new
  <2> QED BY <1>2, <2>4, <2>5
<1>6. CASE q.kind = "delete" /\ q.ok
  <2> DEFINE places == {i \in DOMAIN shown : shown[i].id # q.id}
  <2>1. places \in SUBSET (1..Len(shown))
    BY <1>2
  <2>2. Shown(q, shown) = Kept(shown, places)
    BY <1>6 DEF Shown
  <2> DEFINE S == Seen(d)
  <2> HIDE DEF places, S
  <2>3. shown \in Seq(S)
    BY DEF S
  <2>4. Kept(shown, places) \in Seq(S)
    BY <2>1, <2>3, KeptItems
  <2> QED BY <2>2, <2>4 DEF S
<1>7. CASE q.kind \in SignIns \/ (q.kind # "list" /\ ~q.ok)
  BY <1>7 DEF Shown, SignIns
<1> QED BY <1>1, <1>3, <1>4, <1>5, <1>6, <1>7 DEF Writes, SignIns

LEMMA CallbackTyped ==
  ASSUME IInv, IInv', Typed, NEW c \in Calls, Callback(c)
  PROVE  Typed'
PROOF
<1> DEFINE q == call[c]  old == page[q.tab]
<1>1. UNCHANGED tableVars /\ q.at = "answered"
  BY DEF Callback
<1>2. Draws /\ drawnTask' \in 0..MaxTasks /\ drawnTask' \in Nat
  BY <1>1, SameRows, PageAssumption DEF Draws
<1>3. RequestTyped(q, drawnTask')
  BY <1>2, RequestStays DEF Typed
<1>4. q.tab \in Tabs
  BY <1>1, PageAssumption DEF IInv, RequestsTrue, RequestTrue
<1>5. PageTyped(old, drawnTask')
  BY <1>2, <1>4, PageStays DEF Typed
<1>6. ASSUME q.ok, q.kind \in SignIns, SignIn(c) PROVE Typed'
  <2> DEFINE session == [token |-> q.token, email |-> q.email]
             p == [old EXCEPT !.session = session]
             list == Request(q.tab, session, "list")
  <2>1. /\ store' = session /\ page' = [page EXCEPT ![q.tab] = p]
        /\ call' = [call EXCEPT ![c] = list]
    BY <1>6 DEF SignIn
  <2>7. calm' \in [Tabs -> BOOLEAN]
    <3> DEFINE now == InFlight(q.tab) = {c}
    <3>1. calm' = [calm EXCEPT ![q.tab] = now] /\ now \in BOOLEAN
      BY <1>6 DEF SignIn
    <3> HIDE DEF now
    <3> QED BY <3>1 DEF Typed
  <2>2. Paired(session)
    BY <1>1, <1>3, <1>6, PageAssumption DEF RequestTyped, CallType, Paired, Session
  <2> HIDE DEF session, q, old
  <2>3. PageTyped(p, drawnTask')
    BY <1>5, <2>2 DEF PageTyped, Paired
  <2>4. RequestTyped(list, drawnTask')
    BY <1>2, <1>4, <2>2, RequestMadeTyped
  <2> HIDE DEF p, list
  <2>5. page' = [t \in Tabs |-> page'[t]] /\ \A t \in Tabs : PageTyped(page'[t], drawnTask')
    BY <1>2, <1>4, <2>1, <2>3, OneTypedPage
  <2>6. call' = [d \in Calls |-> call'[d]] /\ \A d \in Calls : RequestTyped(call'[d], drawnTask')
    BY <1>2, <2>1, <2>4, OneTypedRequest
  <2> QED BY <1>1, <2>1, <2>2, <2>5, <2>6, <2>7, SameRows DEF Typed
<1>7. ASSUME page' = [page EXCEPT ![q.tab].shown = Shown(q, @)],
             call' = [call EXCEPT ![c] = Free], store' = store, calm' = calm
      PROVE  Typed'
  <2> DEFINE rows == Shown(q, old.shown)  p == [old EXCEPT !.shown = rows]
  <2>1. page' = [page EXCEPT ![q.tab] = p]
    BY <1>7
  <2>2. rows \in Seq(Seen(drawnTask'))
    BY <1>1, <1>2, <1>3, <1>5, ShownTyped DEF PageTyped
  <2> HIDE DEF q, old, rows
  <2>3. PageTyped(p, drawnTask')
    BY <1>5, <2>2 DEF PageTyped
  <2> HIDE DEF p
  <2>4. page' = [t \in Tabs |-> page'[t]] /\ \A t \in Tabs : PageTyped(page'[t], drawnTask')
    BY <1>2, <1>4, <2>1, <2>3, OneTypedPage
  <2>5. RequestTyped(Free, drawnTask')
    BY <1>2, FreeTyped
  <2>6. call' = [d \in Calls |-> call'[d]] /\ \A d \in Calls : RequestTyped(call'[d], drawnTask')
    BY <1>2, <1>7, <2>5, OneTypedRequest
  <2> QED BY <1>1, <1>7, <2>4, <2>6, SameRows DEF Typed
<1> QED BY <1>6, <1>7 DEF Callback, SignIns

LEMMA StepTyped == IInv /\ IInv' /\ Typed /\ [Next]_vars => Typed'
PROOF
<1> SUFFICES ASSUME IInv, IInv', Typed, [Next]_vars PROVE Typed'
  OBVIOUS
<1>1. ASSUME NEW c \in Calls,
             ServeAuth(c) \/ ServeList(c) \/ ServeWrite(c) \/ Reject(c) \/ Callback(c)
      PROVE  Typed'
  BY <1>1, ServeAuthTyped, ServeListTyped, ServeWriteTyped, RejectTyped, CallbackTyped
<1>2. ASSUME NEW tab \in Tabs,
             \/ Login(tab) \/ signOut(tab) \/ addTask(tab) \/ Load(tab)
             \/ \E i \in DOMAIN page[tab].shown : toggle(tab, i) \/ remove(tab, i)
      PROVE  Typed'
  BY <1>2, CommandTyped, SignOutTyped, LoadTyped
<1>3. ASSUME UNCHANGED <<tableVars, store, page, call, calm>> PROVE Typed'
  BY <1>3, SameRows, SameTypedPages, SameTypedRequests DEF Typed
<1> QED BY <1>1, <1>2, <1>3 DEF Next, ExpireToken, vars

LEMMA Types == Spec => []Typed
BY TypedInit, StepTyped, Invariance, PTL DEF Spec
-----------------------------------------------------------------------------
\* What the tables of tasks-svc and auth-svc, the storage, the pages and the
\* requests hold is well typed, and a token is stored with its address.
THEOREM TypeCorrect == Spec => []TypeOK
BY TypesImply, Types, Invariance, PTL
-----------------------------------------------------------------------------
(***************************************************************************)
(* Calm pages.                                                             *)
(*                                                                         *)
(* While a page stays calm only its own commands change the rows of its    *)
(* account.  What it shows then differs from the table by the answers that *)
(* are still to be applied: rows created and not yet shown, rows deleted   *)
(* and still shown, rows updated and shown as they were.                   *)
(***************************************************************************)
\* The account whose token the page holds.
Holder(tab) == Subject(Token(tab))

\* The answers to the page's commands that succeeded.
Answers(tab, kind) ==
  {c \in InFlight(tab) : call[c].at = "answered" /\ call[c].ok /\ call[c].kind = kind}

New(c)       == call[c].rows[1].id
Created(tab) == {New(c) : c \in Answers(tab, "create")}
Deleted(tab) == {call[c].id : c \in Answers(tab, "delete")}

\* Nothing that the page shows or awaits gets in the way of something else.
Apart(tab) ==
  /\ OneEach(page[tab].shown)
  /\ \A c, d \in Answers(tab, "create") : New(c) = New(d) => c = d
  /\ \A id \in Created(tab) : id \notin Ids(page[tab].shown)
  /\ \A c \in InFlight(tab) : call[c].kind \in {"update", "delete"} => call[c].id \notin Created(tab)
  /\ \A c, d \in InFlight(tab) :
       call[c].kind = "update" /\ call[d].kind = "update" /\ call[c].id = call[d].id => c = d

\* The rows of the account are those shown, with these answers applied.
IdsAgree(tab) ==
  \A id \in TaskIds : Own(Holder(tab), id) <=>
    (id \in Ids(page[tab].shown) \/ id \in Created(tab)) /\ id \notin Deleted(tab)

DoneAgree(tab) ==
  /\ \A i \in DOMAIN page[tab].shown :
       Own(Holder(tab), page[tab].shown[i].id) =>
         \/ tasks[page[tab].shown[i].id].done = page[tab].shown[i].done
         \/ \E c \in Answers(tab, "update") : call[c].id = page[tab].shown[i].id
  /\ \A c \in Answers(tab, "update") :
       Own(Holder(tab), call[c].id) => tasks[call[c].id].done = call[c].done
  /\ \A c \in Answers(tab, "create") :
       Own(Holder(tab), New(c)) => tasks[New(c)].done = FALSE

\* The page has asked for the list and awaits nothing else.
Loading(tab) ==
  \E c \in Calls :
    /\ InFlight(tab) = {c} /\ call[c].kind = "list"
    /\ call[c].at = "answered" => Lists(call[c].rows, Holder(tab), tasks)

\* The page has its list, and what it awaits are commands.
Working(tab) ==
  /\ \A c \in InFlight(tab) : call[c].kind \in Writes
  /\ Apart(tab) /\ IdsAgree(tab) /\ DoneAgree(tab)

Calm(tab) ==
  /\ Token(tab) # NoToken
  /\ \A c \in InFlight(tab) : call[c].token = Token(tab)
  /\ Loading(tab) \/ Working(tab)

CalmInv == \A tab \in Tabs : calm[tab] => Calm(tab)

\* What is shown and awaited concerns rows that were seen.
LEMMA Ranges ==
  ASSUME IInv, Typed, NEW tab \in Tabs
  PROVE  /\ drawnTask \in Nat /\ 1..drawnTask \subseteq TaskIds
         /\ \A i \in DOMAIN page[tab].shown : page[tab].shown[i].id \in 1..drawnTask
         /\ \A c \in InFlight(tab) : c \in Calls /\ call[c].at # "free" /\ call[c].tab = tab
         /\ \A c \in InFlight(tab) : call[c].kind \in {"update", "delete"} => call[c].id \in 1..drawnTask
         /\ \A c \in Answers(tab, "update") :
              call[c].rows = <<[id |-> call[c].id, done |-> call[c].done]>>
         /\ \A c \in Answers(tab, "create") :
              New(c) \in 1..drawnTask /\ call[c].rows = <<[id |-> New(c), done |-> FALSE]>>
         /\ \A id \in Ids(page[tab].shown) : id \in 1..drawnTask
         /\ \A id \in Created(tab) : id \in 1..drawnTask
         /\ \A id \in Deleted(tab) : id \in 1..drawnTask
         /\ Token(tab) # NoToken => Token(tab) \in 1..Len(tokens)
         /\ \A id \in TaskIds : tasks[id] # NoTask => id \in 1..drawnTask
PROOF
<1>1. drawnTask \in Nat /\ 1..drawnTask \subseteq TaskIds
  BY PageAssumption DEF IInv, RowsDrawn, TaskIds
<1>2. ASSUME NEW i \in DOMAIN page[tab].shown PROVE page[tab].shown[i].id \in 1..drawnTask
  <2> DEFINE shown == page[tab].shown
  <2>1. shown \in Seq(Seen(drawnTask)) /\ i \in DOMAIN shown
    BY <1>2 DEF Typed, PageTyped
  <2> HIDE DEF shown
  <2>2. i \in 1..Len(shown)
    BY <2>1, LenProperties
  <2>3. shown[i] \in Seen(drawnTask)
    BY <2>1, <2>2, ElementOfSeq
  <2> QED BY <2>3 DEF Seen, shown
<1>3. \A c \in InFlight(tab) : c \in Calls /\ call[c].at # "free" /\ call[c].tab = tab
  BY DEF InFlight
<1>4. \A c \in InFlight(tab) : RequestTyped(call[c], drawnTask)
  BY <1>3 DEF Typed
<1>5. \A c \in InFlight(tab) : call[c].kind \in {"update", "delete"} => call[c].id \in 1..drawnTask
  BY <1>3, <1>4 DEF RequestTyped
<1>6. \A c \in Answers(tab, "update") : call[c].rows = <<[id |-> call[c].id, done |-> call[c].done]>>
  BY <1>4 DEF RequestTyped, Answers
<1>7. ASSUME NEW c \in Answers(tab, "create")
      PROVE  New(c) \in 1..drawnTask /\ call[c].rows = <<[id |-> New(c), done |-> FALSE]>>
  <2>1. PICK id \in 1..drawnTask : call[c].rows = <<[id |-> id, done |-> FALSE]>>
    BY <1>4, <1>7 DEF RequestTyped, Answers
  <2>2. New(c) = id
    BY <2>1 DEF New
  <2> QED BY <2>1, <2>2
<1>8. \A id \in Ids(page[tab].shown) : id \in 1..drawnTask
  BY <1>2 DEF Ids
<1>9. \A id \in Created(tab) : id \in 1..drawnTask
  BY <1>7 DEF Created
<1>10. \A id \in Deleted(tab) : id \in 1..drawnTask
  BY <1>5 DEF Deleted, Answers
<1>11. Token(tab) # NoToken => Token(tab) \in 1..Len(tokens)
  <2>1. Token(tab) \in 0..Len(tokens) /\ Len(tokens) \in Nat
    BY LenProperties DEF IInv, PagesTrue, PageTrue, SessionTrue, Goes, Token, AccountsOnce, AuthTypeOK
  <2> QED BY <2>1 DEF NoToken
<1>12. \A id \in TaskIds : tasks[id] # NoTask => id \in 1..drawnTask
  BY <1>1, PageAssumption DEF IInv, RowsDrawn, TaskIds
<1> QED BY <1>1, <1>2, <1>3, <1>5, <1>6, <1>7, <1>8, <1>9, <1>10, <1>11, <1>12

\* The rows of u are not changed.
SameOwn(u) ==
  \A id \in TaskIds : /\ (tasks'[id] # NoTask /\ tasks'[id].user = u) <=> Own(u, id)
                      /\ Own(u, id) => tasks'[id].done = tasks[id].done

LEMMA ListsStay ==
  ASSUME NEW rows \in Seq(Items), NEW u, Lists(rows, u, tasks), SameOwn(u)
  PROVE  Lists(rows, u, tasks')
PROOF
<1>1. DOMAIN rows = 1..Len(rows)
  BY LenProperties
<1>2. \A i \in DOMAIN rows : rows[i].id \in TaskIds
  <2>1. ASSUME NEW i \in 1..Len(rows) PROVE rows[i].id \in TaskIds
    <3>1. rows[i] \in Items
      BY <2>1, ElementOfSeq
    <3> QED BY <3>1 DEF Items
  <2> QED BY <1>1, <2>1
<1>3. \A i \in DOMAIN rows : Own(u, rows[i].id)
  BY <1>2 DEF Lists, Ids, Own
<1>4. \A i \in DOMAIN rows : tasks'[rows[i].id].done = tasks[rows[i].id].done
  BY <1>2, <1>3 DEF SameOwn
<1> QED BY <1>4 DEF Lists, SameOwn, Own

\* The requests of a page are the same as before.
SameInFlight(tab) ==
  InFlight(tab)' = InFlight(tab) /\ \A c \in InFlight(tab) : call'[c] = call[c]

\* A page stays calm while the steps are those of others.
LEMMA Elsewhere ==
  ASSUME IInv, Typed, Grows, NEW tab \in Tabs, Calm(tab),
         page'[tab] = page[tab], SameInFlight(tab), SameOwn(Holder(tab))
  PROVE  Calm(tab)'
PROOF
<1> DEFINE u == Holder(tab)  shown == page[tab].shown
<1>1. Token(tab)' = Token(tab) /\ Token(tab) # NoToken
  BY DEF Token, Calm
<1>2. Holder(tab)' = u
  BY <1>1, Ranges DEF Grows, Holder, Subject
<1>3. \A id \in TaskIds : Own(Holder(tab), id)' <=> Own(u, id)
  BY <1>2 DEF SameOwn, Own
<1>4. \A kind : Answers(tab, kind)' = Answers(tab, kind)
  BY DEF SameInFlight, Answers
<1>5. \A c \in InFlight(tab) : New(c)' = New(c) /\ call'[c] = call[c]
  BY DEF SameInFlight, New
<1>6. Created(tab)' = Created(tab) /\ Deleted(tab)' = Deleted(tab)
  BY <1>4, <1>5 DEF Created, Deleted, Answers
<1>7. InFlight(tab)' = InFlight(tab)
  BY DEF SameInFlight
<1>8. ASSUME Loading(tab) PROVE Loading(tab)'
  <2>1. PICK c \in Calls : /\ InFlight(tab) = {c} /\ call[c].kind = "list"
                           /\ call[c].at = "answered" => Lists(call[c].rows, u, tasks)
    BY <1>8 DEF Loading
  <2>2. call'[c] = call[c] /\ InFlight(tab)' = {c}
    BY <1>5, <1>7, <2>1
  <2>3. call[c].at = "answered" => Lists(call[c].rows, u, tasks')
    <3>1. call[c].rows \in Seq(Items)
      BY <2>1 DEF Typed, RequestTyped, CallType
    <3> QED BY <2>1, <3>1, ListsStay
  <2> QED BY <1>2, <2>1, <2>2, <2>3 DEF Loading
<1>9. ASSUME Working(tab) PROVE Working(tab)'
  <2>1. Apart(tab) /\ IdsAgree(tab) /\ DoneAgree(tab) /\ \A c \in InFlight(tab) : call[c].kind \in Writes
    BY <1>9 DEF Working
  <2>2. shown' = shown
    OBVIOUS
  <2>3. Apart(tab)'
    BY <1>4, <1>5, <1>6, <1>7, <2>1, <2>2 DEF Apart, OneEach, Ids, Answers
  <2>4. IdsAgree(tab)'
    BY <1>2, <1>3, <1>6, <2>1, <2>2 DEF IdsAgree, Ids, Own
  <2>5. DoneAgree(tab)'
    <3>1. \A id \in 1..drawnTask : Own(u, id) => tasks'[id].done = tasks[id].done
      BY Ranges DEF SameOwn
    <3>2. \A id \in 1..drawnTask : Own(Holder(tab), id)' <=> Own(u, id)
      BY <1>3, Ranges
    <3>3. /\ \A i \in DOMAIN shown : shown[i].id \in 1..drawnTask
          /\ \A c \in Answers(tab, "update") : c \in InFlight(tab) /\ call[c].id \in 1..drawnTask
          /\ \A c \in Answers(tab, "create") : c \in InFlight(tab) /\ New(c) \in 1..drawnTask
      BY Ranges DEF Answers
    <3>4. DoneAgree(tab)
      BY <2>1
    <3> QED BY ONLY <1>4, <1>5, <2>2, <3>1, <3>2, <3>3, <3>4 DEF DoneAgree, shown
  <2> QED BY <1>5, <1>7, <2>1, <2>3, <2>4, <2>5 DEF Working
<1> QED BY <1>1, <1>5, <1>7, <1>8, <1>9 DEF Calm

\* One request changes.
Becomes(c, x) == call' = [call EXCEPT ![c] = x]

LEMMA OtherRequest ==
  ASSUME Typed, NEW c \in Calls, NEW x, Becomes(c, x), NEW tab \in Tabs,
         c \notin InFlight(tab), x.tab # tab \/ x.at = "free"
  PROVE  SameInFlight(tab)
PROOF
<1>1. \A d \in Calls : call'[d] = IF d = c THEN x ELSE call[d]
  BY DEF Typed, Becomes
<1> QED BY <1>1 DEF SameInFlight, InFlight

LEMMA NoWrite == ASSUME tasks' = tasks, NEW u PROVE SameOwn(u)
BY DEF SameOwn, Own

LEMMA NoIssue == ASSUME AccountsOnce, UNCHANGED <<users, tokens>> PROVE Grows
BY LenProperties DEF Grows, AccountsOnce, AuthTypeOK

\* What becomes of a request that is answered.
AnswerTo(x, q, token) ==
  /\ x.at = "answered" /\ x.token = token /\ x.tab = q.tab
  /\ x.kind = q.kind /\ x.id = q.id /\ x.done = q.done

Success(x, q, token, rows) == AnswerTo(x, q, token) /\ x.ok = TRUE /\ x.rows = rows

Failure(x, q, token) ==
  \/ x.at = "free" /\ x.tab = NoTab
  \/ AnswerTo(x, q, token) /\ x.ok = FALSE

LEMMA AnsweredIs ==
  ASSUME Typed, NEW c \in Calls, NEW ok, NEW token, NEW rows, Answered(c, ok, token, rows)
  PROVE  \E x : /\ Becomes(c, x) /\ (x.tab = NoTab \/ x.tab = call[c].tab)
                /\ ok = TRUE /\ call[c].tab # NoTab => Success(x, call[c], token, rows)
                /\ ok = FALSE => Failure(x, call[c], token)
PROOF
<1> DEFINE q == call[c]
           answered == [q EXCEPT !.at = "answered", !.ok = ok, !.token = token, !.rows = rows]
           after == IF q.tab = NoTab \/ (~ok /\ q.cred # NoUser) THEN Free ELSE answered
<1>1. call' = [call EXCEPT ![c] = after]
  BY DEF Answered, Typed
<1>2. q \in CallType
  BY DEF Typed, RequestTyped
<1> HIDE DEF q
<1>3. AnswerTo(answered, q, token) /\ answered.ok = ok /\ answered.rows = rows
  BY <1>2 DEF CallType, AnswerTo
<1>4. Free.at = "free" /\ Free.tab = NoTab
  BY DEF Free
<1>5. /\ after = Free \/ after = answered
      /\ ok = TRUE /\ q.tab # NoTab => after = answered
  OBVIOUS
<1> HIDE DEF after, answered
<1>6. after.tab = NoTab \/ after.tab = q.tab
  BY <1>3, <1>4, <1>5 DEF AnswerTo
<1>7. ok = TRUE /\ q.tab # NoTab => Success(after, q, token, rows)
  BY <1>3, <1>5 DEF Success
<1>8. ok = FALSE => Failure(after, q, token)
  BY <1>3, <1>4, <1>5 DEF Failure
<1>9. Becomes(c, after)
  BY <1>1 DEF Becomes
<1> QED BY <1>6, <1>7, <1>8, <1>9 DEF q

LEMMA ServeAuthCalm ==
  ASSUME IInv, Typed, CalmInv, NEW c \in Calls, ServeAuth(c)
  PROVE  CalmInv'
PROOF
<1>1. /\ call[c].at = "sent" /\ call[c].kind \in SignIns
      /\ tasks' = tasks /\ page' = page /\ calm' = calm
  BY DEF ServeAuth, SignIns, tableVars
<1>2. PICK token \in 0..MaxTokens :
        /\ \/ call[c].kind = "signup" /\ signup(call[c].cred, token)
           \/ call[c].kind = "login" /\ login(call[c].cred, token)
        /\ Answered(c, token # NoToken, token, <<>>)
  BY DEF ServeAuth
<1>3. Grows
  <2>1. AccountsOnce /\ call[c].cred \in Credentials
    BY <1>1 DEF IInv, RequestsTrue, RequestTrue
  <2> QED BY <1>2, <2>1, SignupKeeps, LoginKeeps
<1> DEFINE ok == token # NoToken
<1>4. Answered(c, ok, token, <<>>)
  BY <1>2
<1> HIDE DEF ok
<1>5. PICK x : Becomes(c, x) /\ (x.tab = NoTab \/ x.tab = call[c].tab)
  BY <1>4, AnsweredIs
<1> SUFFICES ASSUME NEW tab \in Tabs, calm[tab] PROVE Calm(tab)'
  BY <1>1 DEF CalmInv
<1>6. Calm(tab)
  BY DEF CalmInv
<1>7. c \notin InFlight(tab)
  BY <1>1, <1>6 DEF Calm, Loading, Working, Writes, SignIns
<1>8. x.tab # tab
  BY <1>1, <1>5, <1>7, PageAssumption DEF InFlight
<1>9. SameInFlight(tab)
  BY <1>5, <1>7, <1>8, OtherRequest
<1> QED BY <1>1, <1>3, <1>6, <1>9, NoWrite, Elsewhere

\* The token of a command is that of its page.
LEMMA OwnBearer ==
  ASSUME NEW tab \in Tabs, Calm(tab), NEW c \in InFlight(tab)
  PROVE  call[c].token = Token(tab) /\ Subject(call[c].token) = Holder(tab)
BY DEF Calm, Holder

LEMMA ServeListCalm ==
  ASSUME IInv, Typed, CalmInv, NEW c \in Calls, ServeList(c)
  PROVE  CalmInv'
PROOF
<1> DEFINE u == Subject(call[c].token)  list == listTasks(u)
<1>1. /\ call[c].at = "sent" /\ call[c].kind = "list"
      /\ tasks' = tasks /\ page' = page /\ users' = users /\ tokens' = tokens
      /\ \/ Answered(c, TRUE, call[c].token, list) /\ calm' = calm /\ ~Cut(u)
         \/ Answered(c, TRUE, call[c].token, list) /\ Disturb({call[c].tab})
         \/ Answered(c, FALSE, call[c].token, <<>>) /\ Disturb({call[c].tab})
  BY DEF ServeList, tableVars, accountVars
<1>2. Grows
  BY <1>1, NoIssue DEF IInv
<1> SUFFICES ASSUME NEW tab \in Tabs, calm'[tab] PROVE Calm(tab)'
  BY DEF CalmInv
<1>3. calm[tab] /\ Calm(tab)
  BY <1>1 DEF Disturb, CalmInv
<1> HIDE DEF list, u
<1>4. PICK ok \in BOOLEAN : \E rows : Answered(c, ok, call[c].token, rows)
  BY <1>1
<1>5. CASE c \notin InFlight(tab)
  <2>1. PICK x : Becomes(c, x) /\ (x.tab = NoTab \/ x.tab = call[c].tab)
    BY <1>4, AnsweredIs
  <2>2. x.tab # tab
    BY <1>1, <1>5, <2>1, PageAssumption DEF InFlight
  <2>3. SameInFlight(tab)
    BY <1>5, <2>1, <2>2, OtherRequest
  <2> QED BY <1>1, <1>2, <1>3, <2>3, NoWrite, Elsewhere
<1>6. CASE c \in InFlight(tab)
  <2>1. call[c].tab = tab /\ tab # NoTab
    BY <1>6, PageAssumption DEF InFlight
  <2>2. Answered(c, TRUE, call[c].token, list) /\ ~Cut(u)
    BY <1>1, <2>1 DEF Disturb
  <2>3. PICK x : Becomes(c, x) /\ Success(x, call[c], call[c].token, list)
    BY <2>1, <2>2, AnsweredIs
  <2>4. InFlight(tab) = {c}
    BY <1>1, <1>3, <1>6 DEF Calm, Loading, Working, Writes
  <2>5. \A d \in Calls : call'[d] = IF d = c THEN x ELSE call[d]
    BY <2>3 DEF Typed, Becomes
  <2>6. InFlight(tab)' = {c}
    BY <2>1, <2>3, <2>4, <2>5 DEF InFlight, Success, AnswerTo
  <2>7. Token(tab)' = Token(tab) /\ Holder(tab)' = Holder(tab)
    BY <1>1 DEF Token, Holder, Subject
  <2>8. Lists(list, Holder(tab), tasks)
    BY <1>3, <1>6, <2>2, OwnBearer, ServedIs DEF list, u
  <2>9. Loading(tab)'
    BY <1>1, <2>3, <2>5, <2>6, <2>7, <2>8 DEF Loading, Success, AnswerTo
  <2>10. call[c].token = Token(tab) /\ Token(tab) # NoToken
    BY <1>3, <1>6, OwnBearer DEF Calm
  <2> QED BY <2>3, <2>5, <2>6, <2>7, <2>9, <2>10 DEF Calm, Success, AnswerTo
<1> QED BY <1>5, <1>6

\* What a statement does to the rows of the token's account, and that it leaves
\* those of the others.
LEMMA ExecuteRows ==
  ASSUME IInv, Typed, NEW c \in Calls, call[c].at = "sent", Execute(call[c]),
         NEW u, u = Subject(call[c].token)
  PROVE  /\ \A v : v # u => SameOwn(v)
         /\ call[c].kind \in Writes
         /\ call[c].kind = "create" =>
              /\ drawnTask' = drawnTask + 1 /\ drawnTask' \in TaskIds
              /\ tasks[drawnTask'] = NoTask
              /\ tasks'[drawnTask'] # NoTask /\ tasks'[drawnTask'].user = u
              /\ tasks'[drawnTask'].done = FALSE
              /\ \A id \in TaskIds : id # drawnTask' => tasks'[id] = tasks[id]
         /\ call[c].kind = "update" =>
              /\ drawnTask' = drawnTask /\ Own(u, call[c].id)
              /\ tasks'[call[c].id] # NoTask /\ tasks'[call[c].id].user = u
              /\ tasks'[call[c].id].done = call[c].done
              /\ \A id \in TaskIds : id # call[c].id => tasks'[id] = tasks[id]
         /\ call[c].kind = "delete" =>
              /\ drawnTask' = drawnTask /\ Own(u, call[c].id)
              /\ tasks'[call[c].id] = NoTask
              /\ \A id \in TaskIds : id # call[c].id => tasks'[id] = tasks[id]
PROOF
<1> DEFINE q == call[c]
<1>1. /\ q.token # NoToken
      /\ \/ q.kind = "create" /\ createTask(u)
         \/ q.kind = "update" /\ updateTask(u, q.id, q.done)
         \/ q.kind = "delete" /\ deleteTask(u, q.id)
  BY DEF Execute, Valid
<1>2. u \in UserIds
  BY <1>1, Bearer
<1>3. /\ drawnTask \in 0..MaxTasks /\ MaxTasks \in Nat /\ tasks = [id \in TaskIds |-> tasks[id]]
      /\ \A id \in TaskIds : tasks[id] \in [user : UserIds, done : BOOLEAN] \cup {NoTask}
      /\ \A id \in TaskIds : id > drawnTask => tasks[id] = NoTask
  BY PageAssumption DEF IInv, RowsDrawn, Typed
<1>4. q.kind \in {"update", "delete"} => q.id \in TaskIds
  <2>1. q.kind \in {"update", "delete"} => q.id \in 1..drawnTask
    BY DEF Typed, RequestTyped
  <2> QED BY <1>3, <2>1 DEF TaskIds
<1> HIDE DEF q
<1>5. CASE q.kind = "create" /\ createTask(u)
  <2> DEFINE row == [user |-> u, done |-> FALSE]  n == drawnTask + 1
  <2>1. drawnTask' = n /\ tasks' = [tasks EXCEPT ![n] = row] /\ n \in TaskIds /\ n > drawnTask
    BY <1>3, <1>5 DEF createTask, TaskIds
  <2>2. row \in [user : UserIds, done : BOOLEAN] /\ row.user = u /\ row.done = FALSE
    BY <1>2
  <2>3. row # NoTask
    BY <2>2, PageAssumption
  <2> HIDE DEF row, n
  <2>4. tasks'[n] = row /\ \A id \in TaskIds : id # n => tasks'[id] = tasks[id]
    BY <1>3, <2>1
  <2>5. tasks[n] = NoTask
    BY <1>3, <2>1
  <2>6. \A v : v # u => SameOwn(v)
    BY <2>2, <2>3, <2>4, <2>5 DEF SameOwn, Own
  <2> QED BY <1>5, <2>1, <2>2, <2>3, <2>4, <2>5, <2>6 DEF q, n, Writes
<1>6. CASE q.kind = "update" /\ updateTask(u, q.id, q.done)
  <2> DEFINE m == q.id  row == [tasks[m] EXCEPT !.done = q.done]
  <2>1. /\ drawnTask' = drawnTask /\ tasks' = [tasks EXCEPT ![m] = row]
        /\ Own(u, m) /\ m \in TaskIds
    BY <1>4, <1>6 DEF updateTask
  <2>2. tasks[m] \in [user : UserIds, done : BOOLEAN] /\ tasks[m].user = u
    BY <1>3, <2>1 DEF Own
  <2>3. row.user = u /\ row.done = q.done /\ row = [user |-> u, done |-> q.done]
    BY <2>2
  <2>4. q.done \in BOOLEAN
    BY DEF Typed, RequestTyped, CallType, q
  <2>5. row # NoTask
    BY <1>2, <2>3, <2>4, PageAssumption
  <2> HIDE DEF row, m
  <2>6. tasks'[m] = row /\ \A id \in TaskIds : id # m => tasks'[id] = tasks[id]
    BY <1>3, <2>1
  <2>7. \A v : v # u => SameOwn(v)
    BY <2>2, <2>3, <2>5, <2>6 DEF SameOwn, Own
  <2> QED BY <1>6, <2>1, <2>3, <2>5, <2>6, <2>7 DEF q, m, Writes
<1>7. CASE q.kind = "delete" /\ deleteTask(u, q.id)
  <2> DEFINE m == q.id
  <2>1. drawnTask' = drawnTask /\ tasks' = [tasks EXCEPT ![m] = NoTask] /\ Own(u, m) /\ m \in TaskIds
    BY <1>4, <1>7 DEF deleteTask
  <2> HIDE DEF m
  <2>2. tasks'[m] = NoTask /\ \A id \in TaskIds : id # m => tasks'[id] = tasks[id]
    BY <1>3, <2>1
  <2>3. \A v : v # u => SameOwn(v)
    BY <2>1, <2>2 DEF SameOwn, Own
  <2> QED BY <1>7, <2>1, <2>2, <2>3 DEF q, m, Writes
<1> QED BY <1>1, <1>5, <1>6, <1>7

\* The answer to a command of a calm page.
LEMMA ServedHere ==
  ASSUME IInv, Typed, NEW tab \in Tabs, Calm(tab), NEW c \in InFlight(tab), call[c].at = "sent",
         NEW x, NEW rows, Becomes(c, x), Success(x, call[c], call[c].token, rows),
         page' = page, tokens' = tokens
  PROVE  /\ InFlight(tab)' = InFlight(tab)
         /\ \A d \in InFlight(tab) : d # c => call'[d] = call[d] /\ New(d)' = New(d)
         /\ \A d \in InFlight(tab) : /\ call'[d].kind = call[d].kind /\ call'[d].id = call[d].id
                                     /\ call'[d].done = call[d].done /\ call'[d].token = call[d].token
         /\ New(c)' = rows[1].id
         /\ Answers(tab, call[c].kind)' = Answers(tab, call[c].kind) \cup {c}
         /\ \A kind : kind # call[c].kind => Answers(tab, kind)' = Answers(tab, kind)
         /\ \A kind : c \notin Answers(tab, kind)
         /\ Token(tab)' = Token(tab) /\ Holder(tab)' = Holder(tab)
PROOF
<1>1. \A d \in Calls : call'[d] = IF d = c THEN x ELSE call[d]
  BY DEF Typed, Becomes
<1>2. c \in Calls /\ call[c].tab = tab /\ call[c].at = "sent"
  BY DEF InFlight
<1>3. /\ x.at = "answered" /\ x.token = call[c].token /\ x.tab = tab
      /\ x.kind = call[c].kind /\ x.id = call[c].id /\ x.done = call[c].done
      /\ x.ok = TRUE /\ x.rows = rows
  BY <1>2 DEF Success, AnswerTo
<1>4. call'[c] = x
  BY <1>1, <1>2
<1>5. InFlight(tab)' = InFlight(tab)
  BY <1>1, <1>2, <1>3 DEF InFlight
<1>6. \A d \in InFlight(tab) : d # c => call'[d] = call[d] /\ New(d)' = New(d)
  BY <1>1 DEF InFlight, New
<1>7. New(c)' = rows[1].id
  BY <1>3, <1>4 DEF New
<1>8. \A kind : c \notin Answers(tab, kind)
  BY <1>2 DEF Answers
<1>9. Answers(tab, call[c].kind)' = Answers(tab, call[c].kind) \cup {c}
  BY <1>3, <1>4, <1>5, <1>6 DEF Answers
<1>10. ASSUME NEW kind, kind # call[c].kind PROVE Answers(tab, kind)' = Answers(tab, kind)
  BY <1>3, <1>4, <1>5, <1>6, <1>8, <1>10 DEF Answers
<1>11. Token(tab)' = Token(tab) /\ Holder(tab)' = Holder(tab)
  BY DEF Token, Holder, Subject
<1>12. \A d \in InFlight(tab) : /\ call'[d].kind = call[d].kind /\ call'[d].id = call[d].id
                                /\ call'[d].done = call[d].done /\ call'[d].token = call[d].token
  BY <1>3, <1>4, <1>6
<1> QED BY <1>5, <1>6, <1>7, <1>8, <1>9, <1>10, <1>11, <1>12

\* A row created is one more to be shown.
LEMMA CreatedCalm ==
  ASSUME IInv, Typed, NEW tab \in Tabs, Calm(tab), Working(tab), NEW c \in InFlight(tab),
         call[c].at = "sent", call[c].kind = "create", Execute(call[c]),
         NEW x, Becomes(c, x), Success(x, call[c], call[c].token, Returning(call[c])),
         page' = page, tokens' = tokens
  PROVE  Working(tab)'
PROOF
<1> DEFINE n == drawnTask'  u == Holder(tab)  shown == page[tab].shown
           C == Answers(tab, "create")  U == Answers(tab, "update")  D == Answers(tab, "delete")
           F == InFlight(tab)
<1>1. /\ Apart(tab) /\ IdsAgree(tab) /\ DoneAgree(tab) /\ \A d \in F : call[d].kind \in Writes
      /\ c \in Calls /\ u = Subject(call[c].token)
  BY OwnBearer DEF Working, InFlight
<1>2. /\ n = drawnTask + 1 /\ n \in TaskIds /\ tasks[n] = NoTask
      /\ tasks'[n] # NoTask /\ tasks'[n].user = u /\ tasks'[n].done = FALSE
      /\ \A id \in TaskIds : id # n => tasks'[id] = tasks[id]
  BY <1>1, ExecuteRows
<1>3. drawnTask \in Nat /\ n \notin 1..drawnTask
  BY <1>2, Ranges
<1> DEFINE rows == Returning(call[c])
<1>4. rows[1].id = n
  <2>1. Returning(call[c]) = <<[id |-> n, done |-> FALSE]>>
    BY DEF Returning
  <2> QED BY <2>1
<1> HIDE DEF rows
<1>5. Success(x, call[c], call[c].token, rows)
  BY DEF rows
<1>6. /\ F' = F
      /\ \A d \in F : d # c => call'[d] = call[d] /\ New(d)' = New(d)
      /\ \A d \in F : call'[d].kind = call[d].kind /\ call'[d].id = call[d].id /\ call'[d].done = call[d].done
      /\ New(c)' = n /\ C' = C \cup {c} /\ c \notin C
      /\ Holder(tab)' = u
  BY <1>4, <1>5, ServedHere
<1>7. U' = U /\ D' = D /\ c \notin U /\ c \notin D
  <2>1. "update" # call[c].kind /\ "delete" # call[c].kind
    OBVIOUS
  <2> QED BY <1>5, <2>1, ServedHere
<1>8. /\ C \subseteq F /\ U \subseteq F /\ D \subseteq F
      /\ \A d \in C : New(d) \in 1..drawnTask
      /\ \A id \in Ids(shown) : id \in 1..drawnTask
      /\ \A id \in Created(tab) : id \in 1..drawnTask
      /\ \A id \in Deleted(tab) : id \in 1..drawnTask
      /\ \A d \in F : call[d].kind \in {"update", "delete"} => call[d].id \in 1..drawnTask
      /\ \A i \in DOMAIN shown : shown[i].id \in 1..drawnTask
      /\ 1..drawnTask \subseteq TaskIds
  BY Ranges DEF Answers
<1>9. \A d \in F : d \in C => d # c /\ New(d)' = New(d)
  BY <1>6
<1>10. Created(tab)' = Created(tab) \cup {n} /\ Deleted(tab)' = Deleted(tab)
  <2>1. Created(tab)' = {New(d)' : d \in C'} /\ Created(tab) = {New(d) : d \in C}
    BY DEF Created
  <2>2. Deleted(tab)' = {call'[d].id : d \in D'} /\ Deleted(tab) = {call[d].id : d \in D}
    BY DEF Deleted
  <2> QED BY <1>6, <1>7, <1>8, <1>9, <2>1, <2>2
<1>11. shown' = shown
  OBVIOUS
<1> HIDE DEF n, u, C, U, D, F, shown
<1>12. Apart(tab)'
  <2>1. OneEach(shown)
    BY <1>1 DEF Apart, shown
  <2>2. \A d, e \in C' : New(d)' = New(e)' => d = e
    <3>1. \A d, e \in C : New(d) = New(e) => d = e
      BY <1>1 DEF Apart, C
    <3> QED BY <1>3, <1>6, <1>8, <1>9, <3>1
  <2>3. \A id \in Created(tab)' : id \notin Ids(shown)
    BY <1>1, <1>3, <1>8, <1>10 DEF Apart, shown
  <2>4. \A d \in F : call[d].kind \in {"update", "delete"} => call[d].id \notin Created(tab)'
    BY <1>1, <1>3, <1>8, <1>10 DEF Apart, F
  <2>5. \A d, e \in F : call[d].kind = "update" /\ call[e].kind = "update" /\ call[d].id = call[e].id => d = e
    BY <1>1 DEF Apart, F
  <2>6. page'[tab].shown = shown /\ InFlight(tab)' = F /\ Answers(tab, "create")' = C'
    BY <1>6, <1>11 DEF shown, F, C
  <2> QED BY <1>6, <2>1, <2>2, <2>3, <2>4, <2>5, <2>6 DEF Apart
<1>13. IdsAgree(tab)'
  <2>1. ASSUME NEW id \in TaskIds
        PROVE  (tasks'[id] # NoTask /\ tasks'[id].user = u)
                 <=> (id \in Ids(shown) \/ id \in Created(tab)') /\ id \notin Deleted(tab)'
    <3>1. Own(u, id) <=> (id \in Ids(shown) \/ id \in Created(tab)) /\ id \notin Deleted(tab)
      BY <1>1 DEF IdsAgree, u, shown
    <3>2. CASE id = n
      BY <1>2, <1>3, <1>8, <1>10, <3>2
    <3>3. CASE id # n
      BY <1>2, <1>10, <3>1, <3>3 DEF Own
    <3> QED BY <3>2, <3>3
  <2>2. Holder(tab)' = u /\ page'[tab].shown = shown
    BY <1>6, <1>11 DEF shown
  <2> QED BY <2>1, <2>2 DEF IdsAgree, Own
<1>14. DoneAgree(tab)'
  <2>1. \A id \in 1..drawnTask : tasks'[id] = tasks[id]
    BY <1>2, <1>3, <1>8
  <2>2. \A i \in DOMAIN shown :
          tasks'[shown[i].id] # NoTask /\ tasks'[shown[i].id].user = u =>
            \/ tasks'[shown[i].id].done = shown[i].done
            \/ \E d \in U' : call'[d].id = shown[i].id
    <3>1. \A i \in DOMAIN shown : Own(u, shown[i].id) =>
            \/ tasks[shown[i].id].done = shown[i].done
            \/ \E d \in U : call[d].id = shown[i].id
      BY <1>1 DEF DoneAgree, u, U, shown
    <3> QED BY <1>6, <1>7, <1>8, <2>1, <3>1 DEF Own
  <2>3. \A d \in U' : tasks'[call'[d].id] # NoTask /\ tasks'[call'[d].id].user = u =>
          tasks'[call'[d].id].done = call'[d].done
    <3>1. \A d \in U : Own(u, call[d].id) => tasks[call[d].id].done = call[d].done
      BY <1>1 DEF DoneAgree, u, U
    <3>2. \A d \in U : call[d].id \in 1..drawnTask /\ call'[d].id = call[d].id /\ call'[d].done = call[d].done
      BY <1>6, <1>8 DEF U, Answers
    <3> QED BY <1>7, <2>1, <3>1, <3>2 DEF Own
  <2>4. \A d \in C' : tasks'[New(d)'] # NoTask /\ tasks'[New(d)'].user = u =>
          tasks'[New(d)'].done = FALSE
    <3>1. \A d \in C : Own(u, New(d)) => tasks[New(d)].done = FALSE
      BY <1>1 DEF DoneAgree, u, C
    <3> QED BY <1>2, <1>6, <1>8, <1>9, <2>1, <3>1 DEF Own
  <2>5. Holder(tab)' = u /\ page'[tab].shown = shown
        /\ Answers(tab, "create")' = C' /\ Answers(tab, "update")' = U'
    BY <1>6, <1>11 DEF shown, C, U
  <2> QED BY <2>2, <2>3, <2>4, <2>5 DEF DoneAgree, Own
<1>15. \A d \in InFlight(tab)' : call'[d].kind \in Writes
  BY <1>1, <1>6 DEF F
<1> QED BY <1>12, <1>13, <1>14, <1>15 DEF Working

\* A row updated is shown as it was until its answer is applied.
LEMMA UpdatedCalm ==
  ASSUME IInv, Typed, NEW tab \in Tabs, Calm(tab), Working(tab), NEW c \in InFlight(tab),
         call[c].at = "sent", call[c].kind = "update", Execute(call[c]),
         NEW x, Becomes(c, x), Success(x, call[c], call[c].token, Returning(call[c])),
         page' = page, tokens' = tokens
  PROVE  Working(tab)'
PROOF
<1> DEFINE m == call[c].id  u == Holder(tab)  shown == page[tab].shown
           C == Answers(tab, "create")  U == Answers(tab, "update")  D == Answers(tab, "delete")
           F == InFlight(tab)
<1>1. /\ Apart(tab) /\ IdsAgree(tab) /\ DoneAgree(tab) /\ \A d \in F : call[d].kind \in Writes
      /\ c \in Calls /\ u = Subject(call[c].token) /\ c \in F
  BY OwnBearer DEF Working, InFlight
<1>2. /\ Own(u, m) /\ tasks'[m] # NoTask /\ tasks'[m].user = u /\ tasks'[m].done = call[c].done
      /\ \A id \in TaskIds : id # m => tasks'[id] = tasks[id]
  BY <1>1, ExecuteRows
<1> DEFINE rows == Returning(call[c])
<1> HIDE DEF rows
<1>5. Success(x, call[c], call[c].token, rows)
  BY DEF rows
<1>6. /\ F' = F
      /\ \A d \in F : d # c => call'[d] = call[d] /\ New(d)' = New(d)
      /\ \A d \in F : call'[d].kind = call[d].kind /\ call'[d].id = call[d].id /\ call'[d].done = call[d].done
      /\ Holder(tab)' = u
  BY <1>5, ServedHere
<1>19. U' = U \cup {c}
  <2>1. Answers(tab, call[c].kind)' = Answers(tab, call[c].kind) \cup {c}
    BY <1>5, ServedHere
  <2>2. call'[c].kind = call[c].kind
    BY <1>6
  <2> QED BY <2>1, <2>2
<1>18. c \notin U /\ c \notin C
  BY DEF Answers
<1>7. C' = C /\ D' = D
  <2>1. "create" # call[c].kind /\ "delete" # call[c].kind
    OBVIOUS
  <2> QED BY <1>5, <2>1, ServedHere
<1>8. /\ C \subseteq F /\ U \subseteq F /\ D \subseteq F
      /\ \A d \in C : New(d) \in 1..drawnTask
      /\ \A d \in F : call[d].kind \in {"update", "delete"} => call[d].id \in 1..drawnTask
      /\ \A i \in DOMAIN shown : shown[i].id \in 1..drawnTask
      /\ 1..drawnTask \subseteq TaskIds
  BY Ranges DEF Answers
<1>9. \A d \in C : New(d)' = New(d) /\ New(d) # m
  <2>1. \A d \in C : New(d) \in Created(tab)
    BY DEF Created
  <2>2. m \notin Created(tab)
    BY <1>1 DEF Apart
  <2> QED BY <1>6, <1>19, <1>8, <1>18, <2>1, <2>2
<1>10. Created(tab)' = Created(tab) /\ Deleted(tab)' = Deleted(tab)
  <2>1. Created(tab)' = {New(d)' : d \in C'} /\ Created(tab) = {New(d) : d \in C}
    BY DEF Created
  <2>2. Deleted(tab)' = {call'[d].id : d \in D'} /\ Deleted(tab) = {call[d].id : d \in D}
    BY DEF Deleted
  <2> QED BY <1>6, <1>19, <1>7, <1>8, <1>9, <2>1, <2>2
<1>11. shown' = shown
  OBVIOUS
<1>16. \A d \in F : call[d].kind = "update" /\ call[d].id = m => d = c
  BY <1>1 DEF Apart
<1>17. \A d \in U : call[d].kind = "update"
  BY DEF Answers
<1> HIDE DEF m, u, C, U, D, F, shown
<1>12. Apart(tab)'
  <2>1. \A d, e \in C' : New(d)' = New(e)' => d = e
    BY <1>1, <1>7, <1>9 DEF Apart, C
  <2>2. page'[tab].shown = shown /\ InFlight(tab)' = F /\ Answers(tab, "create")' = C'
    BY <1>6, <1>11 DEF shown, F, C
  <2> QED BY <1>1, <1>6, <1>10, <2>1, <2>2 DEF Apart, F, shown
<1>13. IdsAgree(tab)'
  <2>1. \A id \in TaskIds : (tasks'[id] # NoTask /\ tasks'[id].user = u) <=> Own(u, id)
    BY <1>2 DEF Own
  <2>2. Holder(tab)' = u /\ page'[tab].shown = shown
    BY <1>6, <1>11 DEF shown
  <2> QED BY <1>1, <1>10, <2>1, <2>2 DEF IdsAgree, Own, u, shown
<1>14. DoneAgree(tab)'
  <2>1. \A id \in 1..drawnTask : id # m => tasks'[id] = tasks[id]
    BY <1>2, <1>8
  <2>2. ASSUME NEW i \in DOMAIN shown, tasks'[shown[i].id] # NoTask, tasks'[shown[i].id].user = u
        PROVE  \/ tasks'[shown[i].id].done = shown[i].done
               \/ \E d \in U' : call'[d].id = shown[i].id
    <3>1. Own(u, shown[i].id) => \/ tasks[shown[i].id].done = shown[i].done
                                 \/ \E d \in U : call[d].id = shown[i].id
      BY <1>1, <2>2 DEF DoneAgree, u, U, shown
    <3>2. CASE shown[i].id = m
      <4>1. c \in U' /\ call'[c].id = m
        BY <1>1, <1>6, <1>19 DEF m
      <4> QED BY <3>2, <4>1
    <3>3. CASE shown[i].id # m
      BY <1>6, <1>19, <1>8, <1>18, <2>1, <2>2, <3>1, <3>3 DEF Own
    <3> QED BY <3>2, <3>3
  <2>3. ASSUME NEW d \in U', tasks'[call'[d].id] # NoTask, tasks'[call'[d].id].user = u
        PROVE  tasks'[call'[d].id].done = call'[d].done
    <3>1. CASE d = c
      BY <1>1, <1>2, <1>6, <1>19, <3>1 DEF m
    <3>2. CASE d # c
      <4>1. d \in U /\ d \in F
        BY <1>6, <1>19, <1>8, <2>3, <3>2
      <4>2. call[d].id # m /\ call[d].id \in 1..drawnTask /\ call'[d].id = call[d].id /\ call'[d].done = call[d].done
        BY <1>6, <1>8, <1>16, <1>17, <3>2, <4>1
      <4>3. Own(u, call[d].id) => tasks[call[d].id].done = call[d].done
        BY <1>1, <4>1 DEF DoneAgree, u, U
      <4> QED BY <2>1, <2>3, <4>2, <4>3 DEF Own
    <3> QED BY <3>1, <3>2
  <2>4. \A d \in C' : tasks'[New(d)'] # NoTask /\ tasks'[New(d)'].user = u =>
          tasks'[New(d)'].done = FALSE
    <3>1. \A d \in C : Own(u, New(d)) => tasks[New(d)].done = FALSE
      BY <1>1 DEF DoneAgree, u, C
    <3> QED BY <1>7, <1>8, <1>9, <2>1, <3>1 DEF Own
  <2>5. Holder(tab)' = u /\ page'[tab].shown = shown
        /\ Answers(tab, "create")' = C' /\ Answers(tab, "update")' = U'
    BY <1>6, <1>11 DEF shown, C, U
  <2> QED BY <2>2, <2>3, <2>4, <2>5 DEF DoneAgree, Own
<1>15. \A d \in InFlight(tab)' : call'[d].kind \in Writes
  BY <1>1, <1>6 DEF F
<1> QED BY <1>12, <1>13, <1>14, <1>15 DEF Working

\* A row deleted is still shown.
LEMMA DeletedCalm ==
  ASSUME IInv, Typed, NEW tab \in Tabs, Calm(tab), Working(tab), NEW c \in InFlight(tab),
         call[c].at = "sent", call[c].kind = "delete", Execute(call[c]),
         NEW x, Becomes(c, x), Success(x, call[c], call[c].token, Returning(call[c])),
         page' = page, tokens' = tokens
  PROVE  Working(tab)'
PROOF
<1> DEFINE m == call[c].id  u == Holder(tab)  shown == page[tab].shown
           C == Answers(tab, "create")  U == Answers(tab, "update")  D == Answers(tab, "delete")
           F == InFlight(tab)
<1>1. /\ Apart(tab) /\ IdsAgree(tab) /\ DoneAgree(tab) /\ \A d \in F : call[d].kind \in Writes
      /\ c \in Calls /\ u = Subject(call[c].token) /\ c \in F
  BY OwnBearer DEF Working, InFlight
<1>2. /\ Own(u, m) /\ tasks'[m] = NoTask
      /\ \A id \in TaskIds : id # m => tasks'[id] = tasks[id]
  BY <1>1, ExecuteRows
<1> DEFINE rows == Returning(call[c])
<1> HIDE DEF rows
<1>5. Success(x, call[c], call[c].token, rows)
  BY DEF rows
<1>6. /\ F' = F
      /\ \A d \in F : d # c => call'[d] = call[d] /\ New(d)' = New(d)
      /\ \A d \in F : call'[d].kind = call[d].kind /\ call'[d].id = call[d].id /\ call'[d].done = call[d].done
      /\ Holder(tab)' = u
  BY <1>5, ServedHere
<1>19. D' = D \cup {c}
  <2>1. Answers(tab, call[c].kind)' = Answers(tab, call[c].kind) \cup {c}
    BY <1>5, ServedHere
  <2>2. call'[c].kind = call[c].kind
    BY <1>6
  <2> QED BY <2>1, <2>2
<1>18. c \notin U /\ c \notin C
  BY DEF Answers
<1>7. C' = C /\ U' = U
  <2>1. "create" # call[c].kind /\ "update" # call[c].kind
    OBVIOUS
  <2> QED BY <1>5, <2>1, ServedHere
<1>8. /\ C \subseteq F /\ U \subseteq F /\ D \subseteq F
      /\ \A d \in C : New(d) \in 1..drawnTask
      /\ \A d \in F : call[d].kind \in {"update", "delete"} => call[d].id \in 1..drawnTask
      /\ \A i \in DOMAIN shown : shown[i].id \in 1..drawnTask
      /\ 1..drawnTask \subseteq TaskIds
  BY Ranges DEF Answers
<1>9. \A d \in C : New(d)' = New(d)
  BY <1>6, <1>19, <1>8, <1>18
<1>10. Created(tab)' = Created(tab) /\ Deleted(tab)' = Deleted(tab) \cup {m}
  <2>1. Created(tab)' = {New(d)' : d \in C'} /\ Created(tab) = {New(d) : d \in C}
    BY DEF Created
  <2>2. Deleted(tab)' = {call'[d].id : d \in D'} /\ Deleted(tab) = {call[d].id : d \in D}
    BY DEF Deleted
  <2>3. Created(tab)' = Created(tab)
    BY <1>7, <1>9, <2>1
  <2>4. \A d \in D' : call'[d].id = call[d].id
    BY <1>1, <1>6, <1>19, <1>8
  <2> QED BY <1>6, <1>19, <2>2, <2>3, <2>4
<1>11. shown' = shown
  OBVIOUS
<1> HIDE DEF m, u, C, U, D, F, shown
<1>12. Apart(tab)'
  <2>1. \A d, e \in C' : New(d)' = New(e)' => d = e
    BY <1>1, <1>7, <1>9 DEF Apart, C
  <2>2. page'[tab].shown = shown /\ InFlight(tab)' = F /\ Answers(tab, "create")' = C'
    BY <1>6, <1>11 DEF shown, F, C
  <2> QED BY <1>1, <1>6, <1>10, <2>1, <2>2 DEF Apart, F, shown
<1>13. IdsAgree(tab)'
  <2>1. \A id \in TaskIds : (tasks'[id] # NoTask /\ tasks'[id].user = u) <=> Own(u, id) /\ id # m
    BY <1>2 DEF Own
  <2>2. Holder(tab)' = u /\ page'[tab].shown = shown
    BY <1>6, <1>11 DEF shown
  <2> QED BY <1>1, <1>10, <2>1, <2>2 DEF IdsAgree, Own, u, shown
<1>14. DoneAgree(tab)'
  <2>1. \A id \in 1..drawnTask : tasks'[id] # NoTask => tasks'[id] = tasks[id]
    BY <1>2, <1>8
  <2>2. \A i \in DOMAIN shown :
          tasks'[shown[i].id] # NoTask /\ tasks'[shown[i].id].user = u =>
            \/ tasks'[shown[i].id].done = shown[i].done
            \/ \E d \in U' : call'[d].id = shown[i].id
    <3>1. \A i \in DOMAIN shown : Own(u, shown[i].id) =>
            \/ tasks[shown[i].id].done = shown[i].done
            \/ \E d \in U : call[d].id = shown[i].id
      BY <1>1 DEF DoneAgree, u, U, shown
    <3> QED BY <1>6, <1>7, <1>8, <2>1, <3>1 DEF Own
  <2>3. \A d \in U' : tasks'[call'[d].id] # NoTask /\ tasks'[call'[d].id].user = u =>
          tasks'[call'[d].id].done = call'[d].done
    <3>1. \A d \in U : Own(u, call[d].id) => tasks[call[d].id].done = call[d].done
      BY <1>1 DEF DoneAgree, u, U
    <3>2. \A d \in U : call[d].id \in 1..drawnTask /\ call'[d].id = call[d].id /\ call'[d].done = call[d].done
      BY <1>6, <1>8 DEF U, Answers
    <3> QED BY <1>7, <2>1, <3>1, <3>2 DEF Own
  <2>4. \A d \in C' : tasks'[New(d)'] # NoTask /\ tasks'[New(d)'].user = u =>
          tasks'[New(d)'].done = FALSE
    <3>1. \A d \in C : Own(u, New(d)) => tasks[New(d)].done = FALSE
      BY <1>1 DEF DoneAgree, u, C
    <3> QED BY <1>7, <1>8, <1>9, <2>1, <3>1 DEF Own
  <2>5. Holder(tab)' = u /\ page'[tab].shown = shown
        /\ Answers(tab, "create")' = C' /\ Answers(tab, "update")' = U'
    BY <1>6, <1>11 DEF shown, C, U
  <2> QED BY <2>2, <2>3, <2>4, <2>5 DEF DoneAgree, Own
<1>15. \A d \in InFlight(tab)' : call'[d].kind \in Writes
  BY <1>1, <1>6 DEF F
<1> QED BY <1>12, <1>13, <1>14, <1>15 DEF Working

\* A request ends that has nothing to be applied.
LEMMA EndedCalm ==
  ASSUME NEW tab \in Tabs, Calm(tab), Working(tab),
         page'[tab] = page[tab], tasks' = tasks, tokens' = tokens,
         InFlight(tab)' \subseteq InFlight(tab),
         \A d \in InFlight(tab)' :
           /\ call'[d].kind = call[d].kind /\ call'[d].id = call[d].id
           /\ call'[d].token = call[d].token,
         \A kind \in Writes : Answers(tab, kind)' = Answers(tab, kind),
         \A kind \in Writes : \A d \in Answers(tab, kind) : call'[d] = call[d]
  PROVE  Calm(tab)'
PROOF
<1>1. Token(tab)' = Token(tab) /\ Holder(tab)' = Holder(tab)
  BY DEF Token, Holder, Subject
<1> DEFINE C == Answers(tab, "create")  U == Answers(tab, "update")  D == Answers(tab, "delete")
           shown == page[tab].shown
<1>2. C' = C /\ U' = U /\ D' = D
  BY DEF Writes
<1>3. \A d \in C \cup U \cup D : call'[d] = call[d]
  BY DEF Writes
<1>4. \A d \in C : New(d)' = New(d)
  BY <1>3 DEF New
<1>5. Created(tab)' = Created(tab) /\ Deleted(tab)' = Deleted(tab)
  BY <1>2, <1>3, <1>4 DEF Created, Deleted
<1>6. page'[tab].shown = shown
  OBVIOUS
<1>7. Apart(tab) /\ IdsAgree(tab) /\ DoneAgree(tab) /\ \A d \in InFlight(tab) : call[d].kind \in Writes
  BY DEF Working
<1>8. Apart(tab)'
  BY <1>2, <1>4, <1>5, <1>6, <1>7 DEF Apart
<1>9. IdsAgree(tab)'
  BY <1>1, <1>5, <1>6, <1>7 DEF IdsAgree, Own
<1>10. DoneAgree(tab)'
  BY ONLY tasks' = tasks, <1>1, <1>2, <1>3, <1>4, <1>6, <1>7 DEF DoneAgree, Own
<1>11. Working(tab)'
  BY <1>7, <1>8, <1>9, <1>10 DEF Working
<1> QED BY <1>1, <1>11 DEF Calm

LEMMA RefusedCalm ==
  ASSUME Typed, NEW tab \in Tabs, Calm(tab), Working(tab), NEW c \in InFlight(tab),
         call[c].at = "sent", NEW x, Becomes(c, x), Failure(x, call[c], call[c].token),
         page' = page, tasks' = tasks, tokens' = tokens
  PROVE  Calm(tab)'
PROOF
<1>1. \A d \in Calls : call'[d] = IF d = c THEN x ELSE call[d]
  BY DEF Typed, Becomes
<1>2. c \in Calls /\ call[c].tab = tab
  BY DEF InFlight
<1>3. \/ x.at = "free"
      \/ /\ x.at = "answered" /\ x.token = call[c].token /\ x.tab = tab /\ x.ok = FALSE
         /\ x.kind = call[c].kind /\ x.id = call[c].id
  BY <1>2 DEF Failure, AnswerTo
<1>4. InFlight(tab)' \subseteq InFlight(tab)
  BY <1>1, <1>2 DEF InFlight
<1>5. \A d \in InFlight(tab)' : /\ call'[d].kind = call[d].kind /\ call'[d].id = call[d].id
                                /\ call'[d].token = call[d].token
  BY <1>1, <1>3 DEF InFlight
<1>6. \A kind : Answers(tab, kind)' = Answers(tab, kind)
  BY <1>1, <1>3 DEF Answers, InFlight
<1>7. \A kind : \A d \in Answers(tab, kind) : call'[d] = call[d]
  BY <1>1 DEF Answers, InFlight
<1> QED BY <1>4, <1>5, <1>6, <1>7, EndedCalm

LEMMA ExecutedCalm ==
  ASSUME IInv, Typed, NEW tab \in Tabs, Calm(tab), Working(tab), NEW c \in InFlight(tab),
         call[c].at = "sent", Execute(call[c]),
         NEW x, Becomes(c, x), Success(x, call[c], call[c].token, Returning(call[c])),
         page' = page, tokens' = tokens
  PROVE  Calm(tab)'
PROOF
<1>1. call[c].kind \in Writes
  BY DEF Execute, Writes
<1>2. Working(tab)'
  BY <1>1, CreatedCalm, UpdatedCalm, DeletedCalm DEF Writes
<1> DEFINE rows == Returning(call[c])
<1>3. Success(x, call[c], call[c].token, rows)
  OBVIOUS
<1> HIDE DEF rows
<1>4. /\ InFlight(tab)' = InFlight(tab) /\ Token(tab)' = Token(tab)
      /\ \A d \in InFlight(tab) : call'[d].token = call[d].token
  BY <1>3, ServedHere
<1> QED BY <1>2, <1>4 DEF Calm

LEMMA ServeWriteCalm ==
  ASSUME IInv, Typed, CalmInv, NEW c \in Calls, ServeWrite(c)
  PROVE  CalmInv'
PROOF
<1> DEFINE q == call[c]  u == Subject(q.token)
<1>1. /\ q.at = "sent" /\ q.kind \in Writes
      /\ page' = page /\ users' = users /\ tokens' = tokens
      /\ \/ Execute(q) /\ Answered(c, TRUE, q.token, Returning(q)) /\ Disturb(Others(q.tab, u))
         \/ Answered(c, FALSE, q.token, <<>>) /\ tasks' = tasks /\ calm' = calm
         \/ Answered(c, FALSE, q.token, <<>>) /\ Execute(q) /\ Disturb({q.tab} \cup Others(q.tab, u))
         \/ Answered(c, FALSE, q.token, <<>>) /\ tasks' = tasks /\ Disturb({q.tab})
  BY DEF ServeWrite, tableVars, accountVars
<1>2. Grows
  BY <1>1, NoIssue DEF IInv
<1> SUFFICES ASSUME NEW tab \in Tabs, calm'[tab] PROVE Calm(tab)'
  BY DEF CalmInv
<1>3. calm[tab] /\ Calm(tab)
  BY <1>1 DEF Disturb, CalmInv
<1>4. CASE c \notin InFlight(tab)
  <2>1. PICK ok \in BOOLEAN : \E rows : Answered(c, ok, q.token, rows)
    BY <1>1
  <2>2. PICK x : Becomes(c, x) /\ (x.tab = NoTab \/ x.tab = q.tab)
    BY <2>1, AnsweredIs
  <2>3. q.tab # tab /\ tab # NoTab
    BY <1>1, <1>4, PageAssumption DEF InFlight
  <2>4. SameInFlight(tab)
    BY <1>4, <2>2, <2>3, OtherRequest
  <2>5. SameOwn(Holder(tab))
    <3>1. CASE tasks' = tasks
      BY <3>1, NoWrite
    <3>2. CASE Execute(q) /\ tab \notin Others(q.tab, u)
      <4>1. Holder(tab) # u
        BY <1>3, <2>3, <3>2 DEF Others, Calm, Holder
      <4> QED BY <1>1, <3>2, <4>1, ExecuteRows
    <3> QED BY <1>1, <3>1, <3>2 DEF Disturb
  <2> QED BY <1>1, <1>2, <1>3, <2>4, <2>5, Elsewhere
<1>5. CASE c \in InFlight(tab)
  <2>1. q.tab = tab /\ tab # NoTab
    BY <1>5, PageAssumption DEF InFlight
  <2>2. Working(tab)
    BY <1>1, <1>3, <1>5 DEF Calm, Loading, Writes
  <2>3. CASE Execute(q) /\ Answered(c, TRUE, q.token, Returning(q))
    <3> DEFINE rows == Returning(q)
    <3>1. Answered(c, TRUE, q.token, rows)
      BY <2>3
    <3> HIDE DEF rows
    <3>2. PICK x : Becomes(c, x) /\ Success(x, q, q.token, rows)
      BY <2>1, <3>1, AnsweredIs
    <3> QED BY <1>1, <1>3, <1>5, <2>2, <2>3, <3>2, ExecutedCalm DEF rows
  <2>4. CASE Answered(c, FALSE, q.token, <<>>) /\ tasks' = tasks
    <3>1. PICK x : Becomes(c, x) /\ Failure(x, q, q.token)
      BY <2>4, AnsweredIs
    <3> QED BY <1>1, <1>3, <1>5, <2>2, <2>4, <3>1, RefusedCalm
  <2> QED BY <1>1, <2>1, <2>3, <2>4 DEF Disturb
<1> QED BY <1>4, <1>5

LEMMA RejectCalm ==
  ASSUME IInv, Typed, CalmInv, NEW c \in Calls, Reject(c)
  PROVE  CalmInv'
PROOF
<1> DEFINE q == call[c]  late == [q EXCEPT !.tab = NoTab]
<1>1. /\ q.tab # NoTab /\ page' = page /\ tasks' = tasks /\ users' = users /\ tokens' = tokens
      /\ Disturb({q.tab})
      /\ call' = [call EXCEPT ![c] = Free] \/ call' = [call EXCEPT ![c] = late]
  BY DEF Reject, tableVars, accountVars
<1>2. Free.at = "free" /\ late.tab = NoTab
  <2>1. q \in CallType
    BY DEF Typed, RequestTyped
  <2> QED BY <2>1 DEF Free, CallType
<1> HIDE DEF late
<1>3. PICK x : Becomes(c, x) /\ (x.at = "free" \/ x.tab = NoTab)
  BY <1>1, <1>2 DEF Becomes
<1> SUFFICES ASSUME NEW tab \in Tabs, calm'[tab] PROVE Calm(tab)'
  BY DEF CalmInv
<1>4. calm[tab] /\ Calm(tab) /\ tab # q.tab /\ tab # NoTab
  BY <1>1, PageAssumption DEF Disturb, CalmInv
<1>5. SameInFlight(tab)
  BY <1>3, <1>4, OtherRequest DEF InFlight
<1>6. Grows
  BY <1>1, NoIssue DEF IInv
<1> QED BY <1>1, <1>4, <1>5, <1>6, NoWrite, Elsewhere

\* A command of the page for a row it shows, and no second update of that row.
Fits(q, tab) ==
  /\ ~Listing(tab) /\ q.kind \in Writes
  /\ q.kind \in {"update", "delete"} => q.id \in Ids(page[tab].shown)
  /\ q.kind = "update" =>
       \A d \in InFlight(tab) : call[d].kind = "update" => call[d].id # q.id

LEMMA CommandedCalm ==
  ASSUME Typed, NEW tab \in Tabs, Calm(tab), NEW c \in Calls, call[c].at = "free",
         NEW q, Becomes(c, q), Fits(q, tab),
         q.at = "sent", q.tab = tab, q.token = Token(tab),
         page' = page, tasks' = tasks, tokens' = tokens
  PROVE  Calm(tab)'
PROOF
<1>1. Working(tab)
  BY DEF Fits, Listing, Calm, Loading
<1>2. Apart(tab) /\ IdsAgree(tab) /\ DoneAgree(tab) /\ \A d \in InFlight(tab) : call[d].kind \in Writes
  BY <1>1 DEF Working
<1>3. \A d \in Calls : call'[d] = IF d = c THEN q ELSE call[d]
  BY DEF Typed, Becomes
<1>4. /\ InFlight(tab)' = InFlight(tab) \cup {c} /\ c \notin InFlight(tab)
      /\ call'[c] = q /\ \A d \in InFlight(tab) : call'[d] = call[d]
  BY <1>3 DEF InFlight
<1>5. Token(tab)' = Token(tab) /\ Holder(tab)' = Holder(tab)
  BY DEF Token, Holder, Subject
<1>6. \A kind : /\ Answers(tab, kind)' = Answers(tab, kind)
                /\ \A d \in Answers(tab, kind) : call'[d] = call[d]
  BY <1>4 DEF Answers
<1> DEFINE C == Answers(tab, "create")  U == Answers(tab, "update")  D == Answers(tab, "delete")
           shown == page[tab].shown
<1>7. /\ C' = C /\ U' = U /\ D' = D /\ \A d \in C \cup U \cup D : call'[d] = call[d]
      /\ shown' = shown
  BY <1>6
<1>8. \A d \in C : New(d)' = New(d)
  BY <1>6 DEF New
<1>9. Created(tab)' = Created(tab) /\ Deleted(tab)' = Deleted(tab)
  BY <1>7, <1>8 DEF Created, Deleted
<1>10. Apart(tab)'
  <2>1. \A d, e \in C' : New(d)' = New(e)' => d = e
    BY <1>2, <1>7, <1>8 DEF Apart
  <2>2. ASSUME NEW d \in InFlight(tab)', call'[d].kind \in {"update", "delete"}
        PROVE  call'[d].id \notin Created(tab)
    BY <1>2, <1>4, <2>2 DEF Apart, Fits
  <2>3. ASSUME NEW d \in InFlight(tab)', NEW e \in InFlight(tab)',
               call'[d].kind = "update", call'[e].kind = "update", call'[d].id = call'[e].id
        PROVE  d = e
    BY <1>2, <1>4, <2>3 DEF Apart, Fits
  <2>4. OneEach(shown) /\ \A id \in Created(tab) : id \notin Ids(shown)
    BY <1>2 DEF Apart
  <2> QED BY <1>7, <1>9, <2>1, <2>2, <2>3, <2>4 DEF Apart
<1>11. IdsAgree(tab)'
  BY <1>2, <1>5, <1>7, <1>9 DEF IdsAgree, Own
<1>12. DoneAgree(tab)'
  BY ONLY tasks' = tasks, <1>2, <1>5, <1>7, <1>8 DEF DoneAgree, Own
<1>13. \A d \in InFlight(tab)' : call'[d].kind \in Writes /\ call'[d].token = Token(tab)
  BY <1>2, <1>4 DEF Calm, Fits
<1>14. Token(tab) # NoToken
  BY DEF Calm
<1> QED BY <1>5, <1>10, <1>11, <1>12, <1>13, <1>14 DEF Calm, Working

LEMMA CommandCalm ==
  ASSUME IInv, Typed, CalmInv, NEW tab \in Tabs,
         \/ Login(tab) \/ addTask(tab)
         \/ \E i \in DOMAIN page[tab].shown : toggle(tab, i) \/ remove(tab, i)
  PROVE  CalmInv'
PROOF
<1> DEFINE session == page[tab].session  shown == page[tab].shown
           Sent(c, q) == call[c].at = "free" /\ Becomes(c, q) /\ q.at = "sent" /\ q.tab = tab
           Right(q) == q.token = Token(tab) /\ Fits(q, tab)
           Commanded == \E c, q : c \in Calls /\ Sent(c, q) /\ (calm'[tab] /\ Calm(tab) => Right(q))
<1>1. /\ page' = page /\ tasks' = tasks /\ users' = users /\ tokens' = tokens
      /\ calm' = calm \/ Disturb({tab})
  BY DEF Login, addTask, toggle, remove, Command, authVars, accountVars, tableVars
<1>2. ASSUME Login(tab) PROVE Commanded
  <2>1. PICK kind \in SignIns, cred \in Credentials, c \in Calls :
          /\ call[c].at = "free"
          /\ call' = [call EXCEPT ![c] =
                       [Request(tab, SignedOut, kind) EXCEPT !.email = cred.email, !.cred = cred]]
    BY <1>2 DEF Login, Send, SignIns
  <2> DEFINE q == [Request(tab, SignedOut, kind) EXCEPT !.email = cred.email, !.cred = cred]
  <2>2. q.at = "sent" /\ q.tab = tab
    BY DEF Request, Free
  <2>3. Token(tab) = NoToken
    BY <1>2 DEF Login
  <2>4. Becomes(c, q)
    BY <2>1 DEF Becomes
  <2> HIDE DEF q
  <2> QED BY <2>1, <2>2, <2>3, <2>4 DEF Calm
<1>3. ASSUME addTask(tab) PROVE Commanded
  <2> DEFINE q == Request(tab, session, "create")
  <2>1. PICK c \in Calls : call[c].at = "free" /\ Becomes(c, q)
    BY <1>3 DEF addTask, Command, Send, Becomes
  <2>2. q.at = "sent" /\ q.tab = tab /\ q.token = Token(tab) /\ q.kind = "create"
    BY DEF Request, Free, Token
  <2>3. calm'[tab] => ~Listing(tab)
    BY <1>3 DEF addTask, Disturb
  <2> HIDE DEF q
  <2> QED BY <2>1, <2>2, <2>3 DEF Fits, Writes
<1>4. ASSUME NEW i \in DOMAIN shown, toggle(tab, i) PROVE Commanded
  <2> DEFINE m == shown[i].id
             q == [Request(tab, session, "update") EXCEPT !.id = m, !.done = ~shown[i].done]
  <2>1. PICK c \in Calls : call[c].at = "free" /\ Becomes(c, q)
    BY <1>4 DEF toggle, Command, Send, Becomes
  <2>2. q.at = "sent" /\ q.tab = tab /\ q.token = Token(tab) /\ q.kind = "update"
    BY DEF Request, Free, Token
  <2>3. q.id = m
    BY DEF Request, Free
  <2>4. m \in Ids(shown)
    BY DEF Ids
  <2>5. calm'[tab] => /\ ~Listing(tab)
                      /\ \A d \in InFlight(tab) : call[d].kind = "update" => call[d].id # m
    BY <1>4 DEF toggle, Disturb
  <2> HIDE DEF q, m
  <2> QED BY <2>1, <2>2, <2>3, <2>4, <2>5 DEF Fits, Writes
<1>5. ASSUME NEW i \in DOMAIN shown, remove(tab, i) PROVE Commanded
  <2> DEFINE m == shown[i].id
             q == [Request(tab, session, "delete") EXCEPT !.id = m]
  <2>1. PICK c \in Calls : call[c].at = "free" /\ Becomes(c, q)
    BY <1>5 DEF remove, Command, Send, Becomes
  <2>2. q.at = "sent" /\ q.tab = tab /\ q.token = Token(tab) /\ q.kind = "delete"
    BY DEF Request, Free, Token
  <2>3. q.id = m
    BY DEF Request, Free
  <2>4. m \in Ids(shown)
    BY DEF Ids
  <2>5. calm'[tab] => ~Listing(tab)
    BY <1>5 DEF remove, Disturb
  <2> HIDE DEF q, m
  <2> QED BY <2>1, <2>2, <2>3, <2>4, <2>5 DEF Fits, Writes
<1>6. Commanded
  BY <1>2, <1>3, <1>4, <1>5
<1>7. PICK c, q : c \in Calls /\ Sent(c, q) /\ (calm'[tab] /\ Calm(tab) => Right(q))
  BY <1>6
<1> SUFFICES ASSUME NEW t \in Tabs, calm'[t] PROVE Calm(t)'
  BY DEF CalmInv
<1>8. calm[t] /\ Calm(t)
  BY <1>1 DEF Disturb, CalmInv
<1>9. CASE t = tab
  BY <1>1, <1>7, <1>8, <1>9, CommandedCalm
<1>10. CASE t # tab
  <2>1. SameInFlight(t)
    BY <1>7, <1>10, OtherRequest DEF InFlight
  <2>2. Grows
    BY <1>1, NoIssue DEF IInv
  <2> QED BY <1>1, <1>8, <2>1, <2>2, NoWrite, Elsewhere
<1> QED BY <1>9, <1>10

LEMMA SignOutCalm ==
  ASSUME IInv, Typed, CalmInv, NEW tab \in Tabs, signOut(tab)
  PROVE  CalmInv'
PROOF
<1> DEFINE p == [session |-> SignedOut, shown |-> <<>>]
<1>1. /\ page' = [page EXCEPT ![tab] = p] /\ Disturb({tab}) /\ call' = call
      /\ tasks' = tasks /\ users' = users /\ tokens' = tokens
  BY DEF signOut, authVars, accountVars, tableVars
<1> HIDE DEF p
<1> SUFFICES ASSUME NEW t \in Tabs, calm'[t] PROVE Calm(t)'
  BY DEF CalmInv
<1>2. calm[t] /\ Calm(t) /\ t # tab
  BY <1>1 DEF Disturb, CalmInv
<1>3. page'[t] = page[t]
  BY <1>1, <1>2 DEF Typed
<1>4. SameInFlight(t)
  BY <1>1 DEF SameInFlight, InFlight
<1>5. Grows
  BY <1>1, NoIssue DEF IInv
<1> QED BY <1>1, <1>2, <1>3, <1>4, <1>5, NoWrite, Elsewhere

LEMMA LoadCalm ==
  ASSUME IInv, Typed, CalmInv, NEW tab \in Tabs, Load(tab)
  PROVE  CalmInv'
PROOF
<1> DEFINE left == [c \in Calls |->
                      IF c \notin InFlight(tab) THEN call[c]
                      ELSE IF call[c].at = "sent" /\ call[c].kind # "list"
                        THEN [call[c] EXCEPT !.tab = NoTab]
                        ELSE Free]
           p == [session |-> store, shown |-> <<>>]
           list == Request(tab, store, "list")
<1>1. /\ page' = [page EXCEPT ![tab] = p] /\ calm' = [calm EXCEPT ![tab] = store.token # NoToken]
      /\ tasks' = tasks /\ users' = users /\ tokens' = tokens
      /\ \/ store.token = NoToken /\ call' = left
         \/ store.token # NoToken /\ \E c \in Calls : left[c].at = "free" /\ call' = [left EXCEPT ![c] = list]
  BY DEF Load, authVars, accountVars, tableVars
<1>2. \A d \in Calls : (left[d] = call[d] /\ d \notin InFlight(tab)) \/ left[d].at = "free" \/ left[d].tab = NoTab
  <2>1. \A d \in Calls : call[d] \in CallType
    BY DEF Typed, RequestTyped
  <2>2. Free.at = "free"
    BY DEF Free
  <2>3. \A d \in Calls : [call[d] EXCEPT !.tab = NoTab].tab = NoTab
    BY <2>1 DEF CallType
  <2> QED BY <2>2, <2>3
<1>9. \A d \in Calls : d \notin InFlight(tab) => left[d] = call[d]
  OBVIOUS
<1>3. left = [d \in Calls |-> left[d]]
  OBVIOUS
<1>4. list.at = "sent" /\ list.tab = tab /\ list.token = store.token /\ list.kind = "list"
  BY DEF Request, Free
<1>5. page = [t \in Tabs |-> page[t]] /\ p.session = store /\ calm \in [Tabs -> BOOLEAN] /\ tab # NoTab
  BY PageAssumption DEF Typed
<1> HIDE DEF left, list, p
<1> SUFFICES ASSUME NEW t \in Tabs, calm'[t] PROVE Calm(t)'
  BY DEF CalmInv
<1>6. CASE t = tab
  <2> DEFINE signed == store.token # NoToken
  <2>1. calm'[tab] = signed
    BY <1>1, <1>5
  <2>2. PICK c \in Calls : call' = [left EXCEPT ![c] = list]
    BY <1>1, <1>6, <2>1
  <2>3. \A d \in Calls : call'[d] = IF d = c THEN list ELSE left[d]
    BY <1>3, <2>2
  <2>4. \A d \in Calls : left[d].at # "free" => left[d].tab # tab
    BY <1>2, <1>5 DEF InFlight
  <2>5. InFlight(tab)' = {c}
    BY <1>4, <2>3, <2>4 DEF InFlight
  <2>6. Token(tab)' = store.token
    BY <1>1, <1>5 DEF Token
  <2>7. call'[c] = list
    BY <2>3
  <2>8. Loading(tab)'
    BY <1>4, <2>5, <2>7 DEF Loading
  <2> QED BY <1>4, <1>6, <2>1, <2>5, <2>6, <2>7, <2>8 DEF Calm
<1>7. CASE t # tab
  <2>1. calm[t] /\ page'[t] = page[t]
    BY <1>1, <1>5, <1>7
  <2>2. Calm(t) /\ t # NoTab
    BY <2>1, PageAssumption DEF CalmInv
  <2>3. \A d \in InFlight(t) : d \in Calls /\ left[d] = call[d] /\ call[d].at # "free" /\ call[d].tab = t
    BY <1>7, <1>9 DEF InFlight
  <2>4. \A d \in Calls : left[d].at # "free" /\ left[d].tab = t => d \in InFlight(t)
    BY <1>2, <2>2 DEF InFlight
  <2>5. SameInFlight(t)
    <3>1. CASE call' = left
      BY <2>3, <2>4, <3>1 DEF SameInFlight, InFlight
    <3>2. ASSUME NEW c \in Calls, left[c].at = "free", call' = [left EXCEPT ![c] = list] PROVE SameInFlight(t)
      <4>1. \A d \in Calls : call'[d] = IF d = c THEN list ELSE left[d]
        BY <1>3, <3>2
      <4>2. c \notin InFlight(t)
        BY <2>3, <3>2
      <4> QED BY <1>4, <1>7, <2>3, <2>4, <4>1, <4>2 DEF SameInFlight, InFlight
    <3> QED BY <1>1, <3>1, <3>2
  <2>6. Grows
    BY <1>1, NoIssue DEF IInv
  <2> QED BY <1>1, <2>1, <2>2, <2>5, <2>6, NoWrite, Elsewhere
<1> QED BY <1>6, <1>7

\* The answer to a command of a calm page is applied.
Applied(tab, c) ==
  /\ c \in InFlight(tab) /\ call[c].at = "answered" /\ call[c].ok /\ call[c].kind \in Writes
  /\ Becomes(c, Free)
  /\ page'[tab].session = page[tab].session
  /\ page'[tab].shown = Shown(call[c], page[tab].shown)
  /\ tasks' = tasks /\ tokens' = tokens

LEMMA AppliedHere ==
  ASSUME Typed, NEW tab \in Tabs, NEW c, Applied(tab, c)
  PROVE  /\ InFlight(tab)' = InFlight(tab) \ {c}
         /\ \A d \in InFlight(tab)' : call'[d] = call[d] /\ New(d)' = New(d)
         /\ \A kind : Answers(tab, kind)' = Answers(tab, kind) \ {c}
         /\ c \in Answers(tab, call[c].kind)
         /\ Token(tab)' = Token(tab) /\ Holder(tab)' = Holder(tab)
PROOF
<1>1. \A d \in Calls : call'[d] = IF d = c THEN Free ELSE call[d]
  BY DEF Applied, InFlight, Typed, Becomes
<1>2. Free.at = "free"
  BY DEF Free
<1>3. InFlight(tab)' = InFlight(tab) \ {c}
  BY <1>1, <1>2 DEF InFlight
<1>4. \A d \in InFlight(tab)' : call'[d] = call[d] /\ New(d)' = New(d)
  BY <1>1, <1>2 DEF InFlight, New
<1>5. \A kind : Answers(tab, kind)' = Answers(tab, kind) \ {c}
  BY <1>3, <1>4 DEF Answers
<1>6. c \in Answers(tab, call[c].kind)
  BY DEF Applied, Answers
<1>7. Token(tab)' = Token(tab) /\ Holder(tab)' = Holder(tab)
  BY DEF Applied, Token, Holder, Subject
<1> QED BY <1>3, <1>4, <1>5, <1>6, <1>7

\* A row created is shown in front.
LEMMA CreateApplied ==
  ASSUME IInv, Typed, NEW tab \in Tabs, Working(tab), NEW c, Applied(tab, c), call[c].kind = "create"
  PROVE  Working(tab)'
PROOF
<1> DEFINE n == New(c)  u == Holder(tab)  shown == page[tab].shown  new == page'[tab].shown
           C == Answers(tab, "create")  U == Answers(tab, "update")  D == Answers(tab, "delete")
           F == InFlight(tab)  row == [id |-> n, done |-> FALSE]
<1>1. Apart(tab) /\ IdsAgree(tab) /\ DoneAgree(tab) /\ \A d \in F : call[d].kind \in Writes
  BY DEF Working
<1>2. /\ F' = F \ {c} /\ \A d \in F' : call'[d] = call[d] /\ New(d)' = New(d)
      /\ C' = C \ {c} /\ c \in C /\ Holder(tab)' = u
  BY AppliedHere
<1>3. U' = U /\ D' = D
  <2>1. c \notin U /\ c \notin D
    BY DEF Answers
  <2>2. U' = U \ {c} /\ D' = D \ {c}
    BY AppliedHere
  <2> QED BY <2>1, <2>2
<1>4. C \subseteq F /\ U' \subseteq F' /\ D' \subseteq F' /\ C' \subseteq F'
  BY DEF Answers
<1>5. call[c].rows = <<row>> /\ n \in 1..drawnTask
  BY <1>2, Ranges
<1>6. shown \in Seq(Seen(drawnTask)) /\ row \in Seen(drawnTask)
  BY <1>5 DEF Typed, PageTyped, Seen
<1>7. new = <<row>> \o shown
  BY <1>5 DEF Applied, Shown
<1> DEFINE S == Seen(drawnTask)
<1>8. row.id = n /\ row.done = FALSE
  OBVIOUS
<1>9. \A d \in C : n = New(d) => d = c
  BY <1>1, <1>2 DEF Apart
<1>10. n \in Created(tab) /\ n \notin Ids(shown)
  BY <1>1, <1>2 DEF Created, Apart
<1> HIDE DEF n, u, shown, new, C, U, D, F, row, S
<1>11. /\ Len(shown) \in Nat /\ DOMAIN shown = 1..Len(shown) /\ DOMAIN new = 1..(Len(shown) + 1)
       /\ new[1] = row /\ \A i \in 1..Len(shown) : new[i + 1] = shown[i]
  <2>1. shown \in Seq(S) /\ row \in S
    BY <1>6 DEF S
  <2>2. <<row>> \in Seq(S) /\ Len(<<row>>) = 1 /\ <<row>>[1] = row
    BY <2>1
  <2>3. Len(shown) \in Nat /\ DOMAIN shown = 1..Len(shown)
    BY <2>1, LenProperties
  <2> DEFINE r == <<row>>
  <2> HIDE DEF r
  <2>4. r \in Seq(S) /\ Len(r) = 1 /\ r[1] = row /\ new = r \o shown
    BY <1>7, <2>2 DEF r
  <2>5. /\ new \in Seq(S) /\ Len(new) = 1 + Len(shown)
        /\ \A i \in 1..(1 + Len(shown)) : new[i] = IF i <= 1 THEN r[i] ELSE shown[i - 1]
    <3>1. /\ r \o shown \in Seq(S) /\ Len(r \o shown) = Len(r) + Len(shown)
          /\ \A i \in 1..(Len(r) + Len(shown)) :
               (r \o shown)[i] = IF i <= Len(r) THEN r[i] ELSE shown[i - Len(r)]
      BY <2>1, <2>4, ConcatProperties
    <3> QED BY <2>4, <3>1
  <2>6. DOMAIN new = 1..(Len(shown) + 1)
    BY <2>3, <2>5, LenProperties
  <2>7. new[1] = row
    BY <2>3, <2>4, <2>5
  <2>8. \A i \in 1..Len(shown) : new[i + 1] = shown[i]
    BY <2>3, <2>5
  <2> QED BY <2>3, <2>6, <2>7, <2>8
<1>12. \A j \in DOMAIN new : j = 1 \/ (j # 1 /\ \E i \in DOMAIN shown : j = i + 1 /\ new[j] = shown[i])
  <2> SUFFICES ASSUME NEW j \in DOMAIN new, j # 1
               PROVE  \E i \in DOMAIN shown : j = i + 1 /\ new[j] = shown[i]
    OBVIOUS
  <2>1. j - 1 \in DOMAIN shown /\ j = (j - 1) + 1
    BY <1>11
  <2> QED BY <1>11, <2>1
<1>13. Ids(new) = Ids(shown) \cup {n}
  <2>1. 1 \in DOMAIN new /\ \A i \in DOMAIN shown : i + 1 \in DOMAIN new /\ new[i + 1] = shown[i]
    BY <1>11
  <2> QED BY <1>8, <1>11, <1>12, <2>1 DEF Ids
<1>14. Created(tab)' = Created(tab) \ {n} /\ Deleted(tab)' = Deleted(tab)
  <2>1. Created(tab)' = {New(d)' : d \in C'} /\ Created(tab) = {New(d) : d \in C}
    BY DEF Created, C
  <2>2. Deleted(tab)' = {call'[d].id : d \in D'} /\ Deleted(tab) = {call[d].id : d \in D}
    BY DEF Deleted, D
  <2>3. \A d \in C' : New(d)' = New(d)
    BY <1>2, <1>4
  <2>4. \A d \in D' : call'[d].id = call[d].id
    BY <1>2, <1>4
  <2>5. New(c) = n
    BY DEF n
  <2> QED BY <1>2, <1>3, <1>9, <2>1, <2>2, <2>3, <2>4, <2>5
<1>15. Apart(tab)'
  <2>1. OneEach(new)
    <3>1. OneEach(shown) /\ \A i \in DOMAIN shown : shown[i].id # n
      BY <1>1, <1>10 DEF Apart, shown, Ids
    <3> QED BY <1>8, <1>11, <1>12, <3>1 DEF OneEach
  <2>2. \A d, e \in C' : New(d)' = New(e)' => d = e
    BY <1>1, <1>2, <1>4 DEF Apart, C
  <2>3. \A id \in Created(tab)' : id \notin Ids(new)
    BY <1>1, <1>13, <1>14 DEF Apart, shown
  <2>4. \A d \in F' : call[d].kind \in {"update", "delete"} => call[d].id \notin Created(tab)'
    BY <1>1, <1>2, <1>14 DEF Apart, F
  <2>5. \A d, e \in F' : call[d].kind = "update" /\ call[e].kind = "update" /\ call[d].id = call[e].id => d = e
    BY <1>1, <1>2 DEF Apart, F
  <2>6. page'[tab].shown = new /\ InFlight(tab)' = F' /\ Answers(tab, "create")' = C'
    BY DEF new, F, C
  <2> QED BY <1>2, <2>1, <2>2, <2>3, <2>4, <2>5, <2>6 DEF Apart
<1>16. IdsAgree(tab)'
  <2>1. \A id \in TaskIds :
          (tasks[id] # NoTask /\ tasks[id].user = u) <=>
            (id \in Ids(new) \/ id \in Created(tab)') /\ id \notin Deleted(tab)'
    BY <1>1, <1>10, <1>13, <1>14 DEF IdsAgree, Own, u, shown
  <2> QED BY <1>2, <2>1 DEF IdsAgree, Own, Applied, new
<1>17. DoneAgree(tab)'
  <2>1. ASSUME NEW j \in DOMAIN new, tasks[new[j].id] # NoTask, tasks[new[j].id].user = u
        PROVE  \/ tasks[new[j].id].done = new[j].done
               \/ \E d \in U' : call'[d].id = new[j].id
    <3>1. CASE j = 1
      <4>1. Own(u, n) => tasks[n].done = FALSE
        BY <1>1, <1>2 DEF DoneAgree, u, C, n
      <4> QED BY <1>8, <1>11, <2>1, <3>1, <4>1 DEF Own
    <3>2. ASSUME NEW i \in DOMAIN shown, new[j] = shown[i]
          PROVE  \/ tasks[new[j].id].done = new[j].done
                 \/ \E d \in U' : call'[d].id = new[j].id
      <4>1. Own(u, shown[i].id) => \/ tasks[shown[i].id].done = shown[i].done
                                   \/ \E d \in U : call[d].id = shown[i].id
        BY <1>1 DEF DoneAgree, u, U, shown
      <4> QED BY <1>2, <1>3, <1>4, <2>1, <3>2, <4>1 DEF Own
    <3> QED BY <1>12, <3>1, <3>2
  <2>2. \A d \in U' : tasks[call'[d].id] # NoTask /\ tasks[call'[d].id].user = u =>
          tasks[call'[d].id].done = call'[d].done
    <3>1. \A d \in U : Own(u, call[d].id) => tasks[call[d].id].done = call[d].done
      BY <1>1 DEF DoneAgree, u, U
    <3> QED BY <1>2, <1>3, <1>4, <3>1 DEF Own
  <2>3. \A d \in C' : tasks[New(d)'] # NoTask /\ tasks[New(d)'].user = u =>
          tasks[New(d)'].done = FALSE
    <3>1. \A d \in C : Own(u, New(d)) => tasks[New(d)].done = FALSE
      BY <1>1 DEF DoneAgree, u, C
    <3> QED BY <1>2, <1>4, <3>1 DEF Own
  <2>4. Holder(tab)' = u /\ page'[tab].shown = new /\ tasks' = tasks
        /\ Answers(tab, "create")' = C' /\ Answers(tab, "update")' = U'
    BY <1>2 DEF new, C, U, Applied
  <2> QED BY <2>1, <2>2, <2>3, <2>4 DEF DoneAgree, Own
<1>18. \A d \in InFlight(tab)' : call'[d].kind \in Writes
  BY <1>1, <1>2 DEF F
<1> QED BY <1>15, <1>16, <1>17, <1>18 DEF Working

\* A row updated replaces the one shown.
LEMMA UpdateApplied ==
  ASSUME IInv, Typed, NEW tab \in Tabs, Working(tab), NEW c, Applied(tab, c), call[c].kind = "update"
  PROVE  Working(tab)'
PROOF
<1> DEFINE m == call[c].id  u == Holder(tab)  shown == page[tab].shown  new == page'[tab].shown
           C == Answers(tab, "create")  U == Answers(tab, "update")  D == Answers(tab, "delete")
           F == InFlight(tab)  row == [id |-> m, done |-> call[c].done]
<1>1. Apart(tab) /\ IdsAgree(tab) /\ DoneAgree(tab) /\ \A d \in F : call[d].kind \in Writes
  BY DEF Working
<1>2. /\ F' = F \ {c} /\ \A d \in F' : call'[d] = call[d] /\ New(d)' = New(d)
      /\ U' = U \ {c} /\ c \in U /\ Holder(tab)' = u
  BY AppliedHere
<1>3. C' = C /\ D' = D
  <2>1. c \notin C /\ c \notin D
    BY DEF Answers
  <2>2. C' = C \ {c} /\ D' = D \ {c}
    BY AppliedHere
  <2> QED BY <2>1, <2>2
<1>4. U \subseteq F /\ U' \subseteq F' /\ D' \subseteq F' /\ C' \subseteq F'
  BY DEF Answers
<1>5. call[c].rows = <<row>>
  BY <1>2, Ranges
<1>6. new = [i \in DOMAIN shown |-> IF shown[i].id = m THEN row ELSE shown[i]]
  BY <1>5 DEF Applied, Shown
<1>7. row.id = m /\ row.done = call[c].done
  OBVIOUS
<1> HIDE DEF m, u, shown, new, C, U, D, F, row
<1>8. /\ DOMAIN new = DOMAIN shown /\ \A i \in DOMAIN shown : new[i].id = shown[i].id
      /\ \A i \in DOMAIN shown : shown[i].id = m => new[i].done = call[c].done
      /\ \A i \in DOMAIN shown : shown[i].id # m => new[i] = shown[i]
  BY <1>6, <1>7
<1>9. Ids(new) = Ids(shown)
  BY <1>8 DEF Ids
<1>10. Created(tab)' = Created(tab) /\ Deleted(tab)' = Deleted(tab)
  <2>1. Created(tab)' = {New(d)' : d \in C'} /\ Created(tab) = {New(d) : d \in C}
    BY DEF Created, C
  <2>2. Deleted(tab)' = {call'[d].id : d \in D'} /\ Deleted(tab) = {call[d].id : d \in D}
    BY DEF Deleted, D
  <2>3. \A d \in C' : New(d)' = New(d)
    BY <1>2, <1>4
  <2>4. \A d \in D' : call'[d].id = call[d].id
    BY <1>2, <1>4
  <2> QED BY <1>3, <2>1, <2>2, <2>3, <2>4
<1>11. Apart(tab)'
  <2>1. OneEach(new)
    BY <1>1, <1>8 DEF Apart, OneEach, shown
  <2>2. \A d, e \in C' : New(d)' = New(e)' => d = e
    BY <1>1, <1>2, <1>3, <1>4 DEF Apart, C
  <2>3. \A id \in Created(tab)' : id \notin Ids(new)
    BY <1>1, <1>9, <1>10 DEF Apart, shown
  <2>4. \A d \in F' : call[d].kind \in {"update", "delete"} => call[d].id \notin Created(tab)'
    BY <1>1, <1>2, <1>10 DEF Apart, F
  <2>5. \A d, e \in F' : call[d].kind = "update" /\ call[e].kind = "update" /\ call[d].id = call[e].id => d = e
    BY <1>1, <1>2 DEF Apart, F
  <2>6. page'[tab].shown = new /\ InFlight(tab)' = F' /\ Answers(tab, "create")' = C'
    BY DEF new, F, C
  <2> QED BY <1>2, <2>1, <2>2, <2>3, <2>4, <2>5, <2>6 DEF Apart
<1>12. IdsAgree(tab)'
  <2>1. \A id \in TaskIds :
          (tasks[id] # NoTask /\ tasks[id].user = u) <=>
            (id \in Ids(new) \/ id \in Created(tab)') /\ id \notin Deleted(tab)'
    BY <1>1, <1>9, <1>10 DEF IdsAgree, Own, u, shown
  <2> QED BY <1>2, <2>1 DEF IdsAgree, Own, Applied, new
<1>13. \A d \in U : Own(u, call[d].id) => tasks[call[d].id].done = call[d].done
  BY <1>1 DEF DoneAgree, u, U
<1>14. DoneAgree(tab)'
  <2>1. ASSUME NEW i \in DOMAIN new, tasks[new[i].id] # NoTask, tasks[new[i].id].user = u
        PROVE  \/ tasks[new[i].id].done = new[i].done
               \/ \E d \in U' : call'[d].id = new[i].id
    <3>1. CASE shown[i].id = m
      BY <1>2, <1>8, <1>13, <2>1, <3>1 DEF Own, m
    <3>2. CASE shown[i].id # m
      <4>1. Own(u, shown[i].id) => \/ tasks[shown[i].id].done = shown[i].done
                                   \/ \E d \in U : call[d].id = shown[i].id
        BY <1>1, <1>8, <2>1 DEF DoneAgree, u, U, shown
      <4>2. \A d \in U : call[d].id = shown[i].id => d \in U' /\ call'[d].id = shown[i].id
        BY <1>2, <1>4, <3>2 DEF m
      <4> QED BY <1>8, <2>1, <3>2, <4>1, <4>2 DEF Own
    <3> QED BY <3>1, <3>2
  <2>2. \A d \in U' : tasks[call'[d].id] # NoTask /\ tasks[call'[d].id].user = u =>
          tasks[call'[d].id].done = call'[d].done
    BY <1>2, <1>4, <1>13 DEF Own
  <2>3. \A d \in C' : tasks[New(d)'] # NoTask /\ tasks[New(d)'].user = u =>
          tasks[New(d)'].done = FALSE
    <3>1. \A d \in C : Own(u, New(d)) => tasks[New(d)].done = FALSE
      BY <1>1 DEF DoneAgree, u, C
    <3> QED BY <1>2, <1>3, <1>4, <3>1 DEF Own
  <2>4. Holder(tab)' = u /\ page'[tab].shown = new /\ tasks' = tasks
        /\ Answers(tab, "create")' = C' /\ Answers(tab, "update")' = U'
    BY <1>2 DEF new, C, U, Applied
  <2> QED BY <2>1, <2>2, <2>3, <2>4 DEF DoneAgree, Own
<1>15. \A d \in InFlight(tab)' : call'[d].kind \in Writes
  BY <1>1, <1>2 DEF F
<1> QED BY <1>11, <1>12, <1>14, <1>15 DEF Working

\* A row deleted is shown no longer.
LEMMA DeleteApplied ==
  ASSUME IInv, Typed, NEW tab \in Tabs, Working(tab), NEW c, Applied(tab, c), call[c].kind = "delete"
  PROVE  Working(tab)'
PROOF
<1> DEFINE m == call[c].id  u == Holder(tab)  shown == page[tab].shown  new == page'[tab].shown
           C == Answers(tab, "create")  U == Answers(tab, "update")  D == Answers(tab, "delete")
           F == InFlight(tab)  S == Seen(drawnTask)
           places == {i \in DOMAIN shown : shown[i].id # m}
<1>1. Apart(tab) /\ IdsAgree(tab) /\ DoneAgree(tab) /\ \A d \in F : call[d].kind \in Writes
  BY DEF Working
<1>2. /\ F' = F \ {c} /\ \A d \in F' : call'[d] = call[d] /\ New(d)' = New(d)
      /\ D' = D \ {c} /\ c \in D /\ c \in F /\ Holder(tab)' = u
  BY AppliedHere DEF Applied
<1>3. C' = C /\ U' = U
  <2>1. c \notin C /\ c \notin U
    BY DEF Answers
  <2>2. C' = C \ {c} /\ U' = U \ {c}
    BY AppliedHere
  <2> QED BY <2>1, <2>2
<1>4. U \subseteq F /\ U' \subseteq F' /\ D' \subseteq F' /\ C' \subseteq F'
  BY DEF Answers
<1>5. shown \in Seq(S)
  BY DEF Typed, PageTyped
<1>6. new = Kept(shown, places)
  BY DEF Applied, Shown
<1>7. m \in Deleted(tab) /\ m \notin Created(tab)
  BY <1>1, <1>2 DEF Deleted, Apart
<1> HIDE DEF m, u, shown, new, C, U, D, F, S
<1>8. PICK f \in [DOMAIN new -> places] :
        /\ \A j \in DOMAIN new : new[j] = shown[f[j]]
        /\ \A j, k \in DOMAIN new : f[j] = f[k] => j = k
        /\ \A i \in places : \E j \in DOMAIN new : f[j] = i
  <2>1. places \in SUBSET (1..Len(shown))
    BY <1>5, LenProperties
  <2> HIDE DEF places
  <2> QED BY <1>5, <1>6, <2>1, KeptItems
<1>9. \A j \in DOMAIN new : f[j] \in DOMAIN shown /\ shown[f[j]].id # m
  BY <1>8
<1>10. Ids(new) = Ids(shown) \ {m}
  <2>1. \A i \in DOMAIN shown : shown[i].id # m => \E j \in DOMAIN new : new[j] = shown[i]
    BY <1>8
  <2> QED BY <1>8, <1>9, <2>1 DEF Ids
<1>11. /\ Created(tab)' = Created(tab) /\ Deleted(tab)' \subseteq Deleted(tab)
       /\ Deleted(tab) \subseteq Deleted(tab)' \cup {m}
  <2>1. Created(tab)' = {New(d)' : d \in C'} /\ Created(tab) = {New(d) : d \in C}
    BY DEF Created, C
  <2>2. Deleted(tab)' = {call'[d].id : d \in D'} /\ Deleted(tab) = {call[d].id : d \in D}
    BY DEF Deleted, D
  <2>3. \A d \in C' : New(d)' = New(d)
    BY <1>2, <1>4
  <2>4. \A d \in D' : call'[d].id = call[d].id
    BY <1>2, <1>4
  <2> QED BY <1>2, <1>3, <2>1, <2>2, <2>3, <2>4 DEF m
<1>12. Apart(tab)'
  <2>1. OneEach(new)
    BY <1>1, <1>8, <1>9 DEF Apart, OneEach, shown
  <2>2. \A d, e \in C' : New(d)' = New(e)' => d = e
    BY <1>1, <1>2, <1>3, <1>4 DEF Apart, C
  <2>3. \A id \in Created(tab)' : id \notin Ids(new)
    BY <1>1, <1>10, <1>11 DEF Apart, shown
  <2>4. \A d \in F' : call[d].kind \in {"update", "delete"} => call[d].id \notin Created(tab)'
    BY <1>1, <1>2, <1>11 DEF Apart, F
  <2>5. \A d, e \in F' : call[d].kind = "update" /\ call[e].kind = "update" /\ call[d].id = call[e].id => d = e
    BY <1>1, <1>2 DEF Apart, F
  <2>6. page'[tab].shown = new /\ InFlight(tab)' = F' /\ Answers(tab, "create")' = C'
    BY DEF new, F, C
  <2> QED BY <1>2, <2>1, <2>2, <2>3, <2>4, <2>5, <2>6 DEF Apart
<1>13. IdsAgree(tab)'
  <2>1. \A id \in TaskIds :
          (tasks[id] # NoTask /\ tasks[id].user = u) <=>
            (id \in Ids(new) \/ id \in Created(tab)') /\ id \notin Deleted(tab)'
    <3>1. \A id \in TaskIds :
            Own(u, id) <=> (id \in Ids(shown) \/ id \in Created(tab)) /\ id \notin Deleted(tab)
      BY <1>1 DEF IdsAgree, u, shown
    <3> QED BY <1>7, <1>10, <1>11, <3>1 DEF Own
  <2> QED BY <1>2, <2>1 DEF IdsAgree, Own, Applied, new
<1>14. DoneAgree(tab)'
  <2>1. ASSUME NEW j \in DOMAIN new, tasks[new[j].id] # NoTask, tasks[new[j].id].user = u
        PROVE  \/ tasks[new[j].id].done = new[j].done
               \/ \E d \in U' : call'[d].id = new[j].id
    <3>1. f[j] \in DOMAIN shown /\ new[j] = shown[f[j]]
      BY <1>8, <1>9
    <3>2. Own(u, new[j].id) => \/ tasks[new[j].id].done = new[j].done
                               \/ \E d \in U : call[d].id = new[j].id
      BY <1>1, <3>1 DEF DoneAgree, u, U, shown
    <3> QED BY <1>2, <1>3, <1>4, <2>1, <3>2 DEF Own
  <2>2. \A d \in U' : tasks[call'[d].id] # NoTask /\ tasks[call'[d].id].user = u =>
          tasks[call'[d].id].done = call'[d].done
    <3>1. \A d \in U : Own(u, call[d].id) => tasks[call[d].id].done = call[d].done
      BY <1>1 DEF DoneAgree, u, U
    <3> QED BY <1>2, <1>3, <1>4, <3>1 DEF Own
  <2>3. \A d \in C' : tasks[New(d)'] # NoTask /\ tasks[New(d)'].user = u =>
          tasks[New(d)'].done = FALSE
    <3>1. \A d \in C : Own(u, New(d)) => tasks[New(d)].done = FALSE
      BY <1>1 DEF DoneAgree, u, C
    <3> QED BY <1>2, <1>3, <1>4, <3>1 DEF Own
  <2>4. Holder(tab)' = u /\ page'[tab].shown = new /\ tasks' = tasks
        /\ Answers(tab, "create")' = C' /\ Answers(tab, "update")' = U'
    BY <1>2 DEF new, C, U, Applied
  <2> QED BY <2>1, <2>2, <2>3, <2>4 DEF DoneAgree, Own
<1>15. \A d \in InFlight(tab)' : call'[d].kind \in Writes
  BY <1>1, <1>2 DEF F
<1> QED BY <1>12, <1>13, <1>14, <1>15 DEF Working

\* The list comes.
LEMMA ListApplied ==
  ASSUME Typed, NEW tab \in Tabs, NEW c \in Calls, InFlight(tab) = {c}, call[c].kind = "list",
         Lists(call[c].rows, Holder(tab), tasks), Becomes(c, Free),
         page'[tab].session = page[tab].session, page'[tab].shown = call[c].rows,
         tasks' = tasks, tokens' = tokens
  PROVE  InFlight(tab)' = {} /\ Working(tab)'
PROOF
<1>1. \A d \in Calls : call'[d] = IF d = c THEN Free ELSE call[d]
  BY DEF Typed, Becomes
<1>2. Free.at = "free"
  BY DEF Free
<1>3. InFlight(tab)' = {}
  BY <1>1, <1>2 DEF InFlight
<1>4. \A kind : Answers(tab, kind)' = {}
  BY <1>3 DEF Answers
<1>5. Created(tab)' = {} /\ Deleted(tab)' = {}
  BY <1>4 DEF Created, Deleted
<1> DEFINE rows == call[c].rows
<1>6. Holder(tab)' = Holder(tab) /\ page'[tab].shown = rows
  BY DEF Holder, Token, Subject
<1>7. OneEach(rows)
  BY DEF Lists
<1>8. \A id \in TaskIds : Own(Holder(tab), id) <=> id \in Ids(rows)
  BY DEF Lists, Own
<1>9. \A i \in DOMAIN rows : rows[i].done = tasks[rows[i].id].done
  BY DEF Lists
<1> HIDE DEF rows
<1>10. Apart(tab)'
  BY <1>3, <1>4, <1>5, <1>6, <1>7 DEF Apart
<1>11. IdsAgree(tab)'
  BY <1>5, <1>6, <1>8 DEF IdsAgree, Own
<1>12. DoneAgree(tab)'
  BY <1>4, <1>6, <1>9 DEF DoneAgree
<1> QED BY <1>3, <1>10, <1>11, <1>12 DEF Working

\* A sign-in is answered: the page asks for the list.
LEMMA SignInCalm ==
  ASSUME IInv, Typed, CalmInv, NEW c \in Calls, call[c].at = "answered", call[c].ok,
         call[c].kind \in SignIns, SignIn(c), UNCHANGED <<authVars, tableVars>>,
         NEW tab \in Tabs, call[c].tab = tab
  PROVE  CalmInv'
PROOF
<1> DEFINE session == [token |-> call[c].token, email |-> call[c].email]
           list == Request(tab, session, "list")
           now == InFlight(tab) = {c}
           p == [page[tab] EXCEPT !.session = session]
<1>1. /\ page' = [page EXCEPT ![tab] = p]
      /\ Becomes(c, list) /\ calm' = [calm EXCEPT ![tab] = now]
      /\ tasks' = tasks /\ users' = users /\ tokens' = tokens
  BY DEF SignIn, Becomes, authVars, accountVars, tableVars
<1>2. session.token # NoToken
  BY DEF Typed, RequestTyped
<1>3. list.at = "sent" /\ list.tab = tab /\ list.token = session.token /\ list.kind = "list"
  BY DEF Request, Free
<1>4. p.session = session
  BY <1>1 DEF Typed, PageTyped
<1> HIDE DEF session, list, p
<1>5. page' = [t \in Tabs |-> page'[t]] /\ page'[tab] = p /\ \A t \in Tabs : t # tab => page'[t] = page[t]
  BY <1>1 DEF Typed
<1>6. \A d \in Calls : call'[d] = IF d = c THEN list ELSE call[d]
  BY <1>1 DEF Typed, Becomes
<1> SUFFICES ASSUME NEW t \in Tabs, calm'[t] PROVE Calm(t)'
  BY DEF CalmInv
<1>7. CASE t = tab
  <2>1. InFlight(tab) = {c}
    BY <1>1, <1>7 DEF Typed
  <2>2. InFlight(tab)' = {c}
    BY <1>3, <1>6, <2>1 DEF InFlight
  <2>3. Token(tab)' = session.token
    BY <1>4, <1>5 DEF Token
  <2>4. call'[c] = list
    BY <1>6
  <2>5. Loading(tab)'
    BY <1>3, <2>2, <2>4 DEF Loading
  <2> QED BY <1>2, <1>3, <1>7, <2>2, <2>3, <2>4, <2>5 DEF Calm
<1>8. CASE t # tab
  <2>1. calm[t] /\ page'[t] = page[t]
    BY <1>1, <1>5, <1>8 DEF Typed
  <2>2. Calm(t)
    BY <2>1 DEF CalmInv
  <2>3. c \notin InFlight(t)
    BY <1>8 DEF InFlight
  <2>4. SameInFlight(t)
    BY <1>1, <1>3, <1>8, <2>3, OtherRequest
  <2>5. Grows
    BY <1>1, NoIssue DEF IInv
  <2> QED BY <1>1, <2>1, <2>2, <2>4, <2>5, NoWrite, Elsewhere
<1> QED BY <1>7, <1>8

LEMMA CallbackCalm ==
  ASSUME IInv, Typed, CalmInv, NEW c \in Calls, Callback(c)
  PROVE  CalmInv'
PROOF
<1> DEFINE q == call[c]
<1>1. q.at = "answered" /\ UNCHANGED <<authVars, tableVars>>
  BY DEF Callback
<1>4. PICK tab \in Tabs : q.tab = tab
  BY <1>1 DEF IInv, RequestsTrue, RequestTrue
<1> DEFINE rows == Shown(q, page[tab].shown)  p == [page[tab] EXCEPT !.shown = rows]
<1>2. CASE q.ok /\ q.kind \in SignIns
  BY <1>1, <1>2, <1>4, SignInCalm DEF Callback, SignIns
<1>3. CASE ~(q.ok /\ q.kind \in SignIns)
  <2>1. page' = [page EXCEPT ![tab] = p] /\ Becomes(c, Free) /\ calm' = calm
    BY <1>3, <1>4 DEF Callback, SignIns, Becomes
  <2>2. tasks' = tasks /\ users' = users /\ tokens' = tokens
    BY <1>1 DEF authVars, accountVars, tableVars
  <2>3. page[tab] = [session |-> page[tab].session, shown |-> page[tab].shown]
    BY <1>1 DEF Typed, PageTyped
  <2>4. p = [session |-> page[tab].session, shown |-> rows]
    BY <2>3
  <2> HIDE DEF p
  <2>5. page'[tab] = p /\ \A t \in Tabs : t # tab => page'[t] = page[t]
    BY <1>1, <2>1 DEF Typed
  <2> SUFFICES ASSUME NEW t \in Tabs, calm'[t] PROVE Calm(t)'
    BY DEF CalmInv
  <2>6. Calm(t)
    BY <2>1 DEF CalmInv
  <2>7. CASE t # tab
    <3>1. page'[t] = page[t]
      BY <2>5, <2>7
    <3>2. c \notin InFlight(t)
      BY <1>4, <2>7 DEF InFlight
    <3>3. Free.at = "free"
      BY DEF Free
    <3>4. SameInFlight(t)
      BY <2>1, <3>2, <3>3, OtherRequest
    <3>5. Grows
      BY <2>2, NoIssue DEF IInv
    <3> QED BY <2>2, <2>6, <3>1, <3>4, <3>5, NoWrite, Elsewhere
  <2>8. CASE t = tab
    <3>1. c \in InFlight(tab)
      BY <1>1, <1>4 DEF InFlight
    <3>2. page'[tab].session = page[tab].session /\ page'[tab].shown = rows
      BY <2>4, <2>5
    <3>3. Token(tab)' = Token(tab) /\ Token(tab) # NoToken
      BY <2>6, <2>8, <3>2 DEF Token, Calm
    <3>4. CASE Loading(tab)
      <4>1. /\ InFlight(tab) = {c} /\ q.kind = "list"
            /\ Lists(q.rows, Holder(tab), tasks)
        BY <1>1, <3>1, <3>4 DEF Loading
      <4>2. rows = q.rows
        BY <4>1 DEF Shown
      <4>3. InFlight(tab)' = {} /\ Working(tab)'
        BY <1>1, <2>1, <2>2, <3>2, <4>1, <4>2, ListApplied
      <4> QED BY <2>8, <3>3, <4>3 DEF Calm
    <3>5. CASE Working(tab) /\ q.ok
      <4>1. q.kind \in Writes
        BY <3>1, <3>5 DEF Working
      <4>2. Applied(tab, c)
        BY <1>1, <2>1, <2>2, <3>1, <3>2, <3>5, <4>1 DEF Applied
      <4>3. Working(tab)'
        BY <1>1, <3>5, <4>1, <4>2, CreateApplied, UpdateApplied, DeleteApplied DEF Writes
      <4>4. \A d \in InFlight(tab)' : d \in InFlight(tab) /\ call'[d] = call[d]
        BY <1>1, <4>2, AppliedHere
      <4> QED BY <2>6, <2>8, <3>3, <4>3, <4>4 DEF Calm
    <3>6. CASE Working(tab) /\ ~q.ok
      <4>1. q.kind \in Writes
        BY <3>1, <3>6 DEF Working
      <4>2. rows = page[tab].shown
        BY <3>6, <4>1 DEF Shown, Writes
      <4>3. page'[tab] = page[tab]
        BY <2>3, <2>4, <2>5, <4>2
      <4>4. \A d \in Calls : call'[d] = IF d = c THEN Free ELSE call[d]
        BY <2>1 DEF Typed, Becomes
      <4>5. Free.at = "free"
        BY DEF Free
      <4>6. InFlight(tab)' \subseteq InFlight(tab) /\ \A d \in InFlight(tab)' : call'[d] = call[d]
        BY <4>4, <4>5 DEF InFlight
      <4>7. \A kind : \A d \in Answers(tab, kind) : d # c /\ d \in InFlight(tab)' /\ call'[d] = call[d]
        BY <3>6, <4>4 DEF Answers, InFlight
      <4>8. \A kind : Answers(tab, kind)' = Answers(tab, kind)
        BY <4>6, <4>7 DEF Answers
      <4> QED BY <1>1, <2>2, <2>6, <2>8, <3>6, <4>3, <4>6, <4>7, <4>8, EndedCalm
    <3> QED BY <2>6, <2>8, <3>4, <3>5, <3>6 DEF Calm
  <2> QED BY <2>7, <2>8
<1> QED BY <1>2, <1>3

\* A step that is not about the pages.
LEMMA QuietCalm ==
  ASSUME IInv, Typed, CalmInv, Grows, UNCHANGED <<page, call, calm, tasks>>
  PROVE  CalmInv'
PROOF
<1> SUFFICES ASSUME NEW tab \in Tabs, calm'[tab] PROVE Calm(tab)'
  BY DEF CalmInv
<1>1. Calm(tab)
  BY DEF CalmInv
<1>2. SameInFlight(tab)
  BY DEF SameInFlight, InFlight
<1> QED BY <1>1, <1>2, NoWrite, Elsewhere

LEMMA StepCalm == IInv /\ Typed /\ CalmInv /\ [Next]_vars => CalmInv'
PROOF
<1> SUFFICES ASSUME IInv, Typed, CalmInv, [Next]_vars PROVE CalmInv'
  OBVIOUS
<1>1. ASSUME NEW c \in Calls,
             ServeAuth(c) \/ ServeList(c) \/ ServeWrite(c) \/ Reject(c) \/ Callback(c)
      PROVE  CalmInv'
  BY <1>1, ServeAuthCalm, ServeListCalm, ServeWriteCalm, RejectCalm, CallbackCalm
<1>2. ASSUME NEW tab \in Tabs, Login(tab) \/ signOut(tab) \/ addTask(tab) \/ Load(tab)
      PROVE  CalmInv'
  BY <1>2, CommandCalm, SignOutCalm, LoadCalm
<1>3. ASSUME NEW tab \in Tabs, NEW i \in DOMAIN page[tab].shown, toggle(tab, i) \/ remove(tab, i)
      PROVE  CalmInv'
  BY <1>3, CommandCalm
<1>4. ASSUME NEW x \in DOMAIN tokens, ExpireToken(x) PROVE CalmInv'
  BY <1>4, ExpireKeeps, QuietCalm DEF ExpireToken, IInv, tableVars
<1>5. CASE UNCHANGED vars
  BY <1>5, NoIssue, QuietCalm DEF vars, authVars, accountVars, tableVars, IInv
<1> QED BY <1>1, <1>2, <1>3, <1>4, <1>5 DEF Next

LEMMA CalmInit == Init => CalmInv
BY DEF Init, CalmInv

\* Items that all occur in another list are no more than those.
LEMMA NoMore ==
  ASSUME NEW S, NEW s \in Seq(S), NEW t \in Seq(S), OneEach(s),
         \A i \in DOMAIN s : \E j \in DOMAIN t : t[j] = s[i]
  PROVE  Len(s) <= Len(t)
PROOF
<1>1. /\ Len(s) \in Nat /\ DOMAIN s = 1..Len(s)
      /\ Len(t) \in Nat /\ DOMAIN t = 1..Len(t)
  BY LenProperties
<1> DEFINE m == Len(s)  n == Len(t)  f == [i \in 1..m |-> CHOOSE j \in 1..n : t[j] = s[i]]
<1>2. \A i \in 1..m : f[i] \in 1..n /\ t[f[i]] = s[i]
  BY <1>1
<1>3. f \in [1..m -> 1..n]
  BY <1>2
<1> HIDE DEF f
<1>4. \A i, j \in 1..m : f[i] = f[j] => i = j
  <2> SUFFICES ASSUME NEW i \in 1..m, NEW j \in 1..m, f[i] = f[j] PROVE i = j
    OBVIOUS
  <2>1. s[i] = s[j]
    BY <1>2
  <2> QED BY <1>1, <2>1 DEF OneEach
<1> HIDE DEF m, n
<1>5. m \in Nat /\ n \in Nat
  BY <1>1 DEF m, n
<1>6. /\ IsFiniteSet(1..m) /\ Cardinality(1..m) = m
      /\ IsFiniteSet(1..n) /\ Cardinality(1..n) = n
  BY <1>5, FS_Interval
<1>7. ~(n < m)
  <2> DEFINE M == 1..m  N == 1..n
  <2>1. /\ IsFiniteSet(M) /\ Cardinality(M) = m /\ IsFiniteSet(N) /\ Cardinality(N) = n
        /\ f \in [M -> N] /\ \A i, j \in M : f[i] = f[j] => i = j
    BY <1>3, <1>4, <1>6
  <2> HIDE DEF M, N
  <2>2. ASSUME Cardinality(N) < Cardinality(M) PROVE FALSE
    <3>1. \E i, j \in M : i # j /\ f[i] = f[j]
      BY <2>1, <2>2, FS_PigeonHole
    <3> QED BY <2>1, <3>1
  <2> QED BY <2>1, <2>2
<1>8. m <= n
  BY <1>5, <1>7
<1> QED BY <1>8 DEF m, n

LEMMA CalmShows ==
  ASSUME IInv, Typed, CalmInv
  PROVE  CalmPageIsCurrent
PROOF
<1> SUFFICES ASSUME NEW tab \in Tabs, calm[tab], InFlight(tab) = {}
             PROVE  LET shown == page[tab].shown
                        own   == ownTasks(Holder(tab))
                    IN  /\ {shown[i] : i \in DOMAIN shown} = {own[i] : i \in DOMAIN own}
                        /\ Len(shown) = Len(own)
  BY DEF CalmPageIsCurrent, Holder
<1> DEFINE u == Holder(tab)  shown == page[tab].shown  own == ownTasks(u)  S == Seen(drawnTask)
<1>1. Working(tab)
  BY DEF CalmInv, Calm, Loading
<1>2. Apart(tab) /\ IdsAgree(tab) /\ DoneAgree(tab)
  BY <1>1 DEF Working
<1>3. \A kind : Answers(tab, kind) = {}
  BY DEF Answers
<1>4. Created(tab) = {} /\ Deleted(tab) = {}
  BY <1>3 DEF Created, Deleted
<1>5. shown \in Seq(S) /\ own \in Seq(S) /\ Lists(own, u, tasks)
  BY ListIs DEF Typed, PageTyped
<1>6. OneEach(shown) /\ OneEach(own)
  BY <1>2, <1>5 DEF Apart, Lists
<1>7. \A id \in TaskIds : /\ Own(u, id) <=> id \in Ids(shown)
                          /\ Own(u, id) <=> id \in Ids(own)
  BY <1>2, <1>4, <1>5 DEF IdsAgree, Lists, Own
<1>8. \A i \in DOMAIN shown : Own(u, shown[i].id) => tasks[shown[i].id].done = shown[i].done
  BY <1>2, <1>3 DEF DoneAgree
<1>9. \A i \in DOMAIN own : own[i].done = tasks[own[i].id].done
  BY <1>5 DEF Lists
<1>10. /\ Ids(shown) \subseteq TaskIds /\ Ids(own) \subseteq TaskIds
       /\ \A i \in DOMAIN shown : shown[i] = [id |-> shown[i].id, done |-> shown[i].done]
       /\ \A i \in DOMAIN own : own[i] = [id |-> own[i].id, done |-> own[i].done]
  <2>1. \A seq \in Seq(S) : \A i \in DOMAIN seq : seq[i] \in S
    BY LenProperties, ElementOfSeq
  <2>2. 1..drawnTask \subseteq TaskIds
    BY Ranges
  <2>3. \A r \in S : r.id \in TaskIds /\ r = [id |-> r.id, done |-> r.done]
    BY <2>2 DEF Seen
  <2> QED BY <1>5, <2>1, <2>3 DEF Ids
<1> HIDE DEF u, shown, own, S
<1>11. \A i \in DOMAIN shown : \E j \in DOMAIN own : own[j] = shown[i]
  <2> SUFFICES ASSUME NEW i \in DOMAIN shown PROVE \E j \in DOMAIN own : own[j] = shown[i]
    OBVIOUS
  <2>1. shown[i].id \in Ids(shown) /\ shown[i].id \in TaskIds /\ Own(u, shown[i].id)
    BY <1>7, <1>10 DEF Ids
  <2>2. PICK j \in DOMAIN own : own[j].id = shown[i].id
    BY <1>7, <2>1 DEF Ids
  <2>3. own[j].done = shown[i].done
    BY <1>8, <1>9, <2>1, <2>2
  <2> QED BY <1>10, <2>2, <2>3
<1>12. \A j \in DOMAIN own : \E i \in DOMAIN shown : shown[i] = own[j]
  <2> SUFFICES ASSUME NEW j \in DOMAIN own PROVE \E i \in DOMAIN shown : shown[i] = own[j]
    OBVIOUS
  <2>1. own[j].id \in Ids(own) /\ own[j].id \in TaskIds /\ Own(u, own[j].id)
    BY <1>7, <1>10 DEF Ids
  <2>2. PICK i \in DOMAIN shown : shown[i].id = own[j].id
    BY <1>7, <2>1 DEF Ids
  <2>3. own[j].done = shown[i].done
    BY <1>8, <1>9, <2>1, <2>2
  <2> QED BY <1>10, <2>2, <2>3
<1>13. {shown[i] : i \in DOMAIN shown} = {own[i] : i \in DOMAIN own}
  BY <1>11, <1>12
<1>14. Len(shown) = Len(own)
  <2>1. Len(shown) <= Len(own) /\ Len(own) <= Len(shown)
    BY <1>5, <1>6, <1>11, <1>12, NoMore
  <2>2. Len(shown) \in Nat /\ Len(own) \in Nat
    BY <1>5, LenProperties
  <2> QED BY <2>1, <2>2
<1> QED BY <1>13, <1>14 DEF shown, own, u

LEMMA Calms == Spec => []CalmInv
BY CalmInit, StepCalm, Invariance, Types, PTL DEF Spec
-----------------------------------------------------------------------------
\* A page that is left alone shows all rows of its account when it awaits
\* nothing, if the account had no more rows than listTasks serves at once: the
\* callbacks of page.tsx apply the answers to the list and to the commands, in
\* whatever order they come, so that nothing is missing, double or out of date.
THEOREM CalmIsCurrent == Spec => []CalmPageIsCurrent
BY CalmShows, Calms, Types, Invariance, PTL
===============================================================================
