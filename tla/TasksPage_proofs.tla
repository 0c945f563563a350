--------------------------- MODULE TasksPage_proofs ---------------------------
(***************************************************************************)
(* Proofs about TasksPage, for any number of tabs, requests in flight,     *)
(* accounts, tokens, tasks and failures.                                   *)
(*                                                                         *)
(* The inductive invariant follows a token from the account it was issued  *)
(* for to the pages: wherever a token is held (in the storage, by a page,  *)
(* by a request in flight), the address held with it is that account's.    *)
(* What the pages list does not matter.                                    *)
(***************************************************************************)
EXTENDS TasksPage, SequenceTheorems, TLAPS

SignIns == {"signup", "login"}

\* Address e is that of the account token t was issued for.
Goes(t, e, ts, us) == t \in 0..Len(ts) /\ (t # NoToken => us[ts[t].user].email = e)

\* The accounts are those with a drawn id, no two have one address, and every
\* token has its account.
AccountsOnce ==
  /\ AuthTypeOK
  /\ \A u \in Accounts : u <= drawn
  /\ \A u, v \in Accounts : users[u].email = users[v].email => u = v
  /\ \A t \in 1..Len(tokens) : tokens[t].user \in Accounts

\* The rows have drawn ids, too.
RowsDrawn ==
  /\ drawnTask \in 0..MaxTasks
  /\ tasks = [id \in TaskIds |-> tasks[id]]
  /\ \A id \in TaskIds : id > drawnTask => tasks[id] = NoTask

SessionTrue(session, ts, us) == Goes(session.token, session.email, ts, us)

PageTrue(p, ts, us) ==
  /\ p = [f \in {"session", "shown"} |-> p[f]]
  /\ SessionTrue(p.session, ts, us)

PagesTrue ==
  /\ page = [tab \in Tabs |-> page[tab]]
  /\ \A tab \in Tabs : PageTrue(page[tab], tokens, users)

\* A request has its fields.
Fields == {"at", "kind", "tab", "token", "email", "cred", "id", "done", "ok", "rows"}

Shape(q) == q = [f \in Fields |-> q[f]]

\* A request in flight carries a session, or the credentials of an address.
RequestTrue(q, ts, us) ==
  /\ Shape(q)
  /\ q.tab \in Tabs \/ (q.tab = NoTab /\ q.at # "answered")
  /\ q.at # "free" => Goes(q.token, q.email, ts, us)
  /\ q.at = "sent" /\ q.kind \in SignIns => q.cred \in Credentials /\ q.email = q.cred.email

RequestsTrue ==
  /\ call = [c \in Calls |-> call[c]]
  /\ \A c \in Calls : RequestTrue(call[c], tokens, users)

IInv ==
  /\ AccountsOnce /\ RowsDrawn
  /\ SessionTrue(store, tokens, users) /\ PagesTrue /\ RequestsTrue
-----------------------------------------------------------------------------
(***************************************************************************)
(* Accounts and tokens.                                                    *)
(***************************************************************************)
\* Accounts and tokens stay what they are.
Grows ==
  /\ \A u \in Accounts : users'[u] = users[u]
  /\ Len(tokens) <= Len(tokens') /\ \A t \in 1..Len(tokens) : tokens'[t].user = tokens[t].user

LEMMA GoesOn ==
  ASSUME AccountsOnce, Grows, Len(tokens') \in Nat, NEW t, NEW e, Goes(t, e, tokens, users)
  PROVE  Goes(t, e, tokens', users')
PROOF
<1>1. Len(tokens) \in Nat
  BY LenProperties DEF AccountsOnce, AuthTypeOK
<1>2. CASE t = NoToken
  BY <1>1, <1>2 DEF Goes, NoToken
<1>3. CASE t # NoToken
  <2>1. t \in 1..Len(tokens) /\ t \in 0..Len(tokens')
    BY <1>1, <1>3 DEF Goes, NoToken, Grows
  <2>2. tokens'[t].user = tokens[t].user /\ users'[tokens[t].user] = users[tokens[t].user]
    BY <2>1 DEF Grows, AccountsOnce
  <2> QED BY <1>3, <2>1, <2>2 DEF Goes
<1> QED BY <1>2, <1>3

\* The INSERT adds one account at most, with an address nobody has.
LEMMA CreateKeeps ==
  ASSUME AccountsOnce, NEW cred \in Credentials, CreateUser(cred)
  PROVE  /\ users' \in [UserIds -> Credentials \cup {NoUser}] /\ drawn' \in 0..MaxUsers
         /\ \A u \in Accounts : users'[u] = users[u] /\ u \in Accounts'
         /\ \A u \in Accounts' : u <= drawn'
         /\ \A u, v \in Accounts' : users'[u].email = users'[v].email => u = v
         /\ users' # users => drawn' \in Accounts' /\ users'[drawn'] = cred
PROOF
<1>1. /\ drawn \in Nat /\ drawn + 1 \in UserIds /\ drawn' = drawn + 1 /\ drawn' \in 0..MaxUsers
      /\ users \in [UserIds -> Credentials \cup {NoUser}] /\ cred # NoUser
  BY AuthAssumption DEF AccountsOnce, AuthTypeOK, CreateUser, UserIds
<1>2. CASE users' = users
  BY <1>1, <1>2 DEF AccountsOnce, Accounts, UserIds
<1>3. CASE FindByEmail(cred.email) = {} /\ users' = [users EXCEPT ![drawn + 1] = cred]
  <2>1. drawn + 1 \notin Accounts
    BY <1>1 DEF AccountsOnce
  <2>2. Accounts' = Accounts \cup {drawn + 1}
    BY <1>1, <1>3 DEF Accounts
  <2>3. \A u \in Accounts : users'[u] = users[u] /\ users[u].email # cred.email
    BY <1>1, <1>3, <2>1 DEF FindByEmail, Accounts
  <2>4. users'[drawn + 1] = cred
    BY <1>1, <1>3
  <2>5. \A u \in Accounts' : u <= drawn'
    BY <1>1, <2>2 DEF AccountsOnce, Accounts, UserIds
  <2>6. \A u, v \in Accounts' : users'[u].email = users'[v].email => u = v
    BY <2>2, <2>3, <2>4 DEF AccountsOnce
  <2> QED BY <1>1, <1>3, <2>2, <2>3, <2>4, <2>5, <2>6
<1> QED BY <1>2, <1>3 DEF CreateUser

LEMMA IssueKeeps ==
  ASSUME AccountsOnce, NEW u \in UserIds, NEW token, issueAndRespond(u, token)
  PROVE  /\ tokens' \in Seq([user : UserIds, live : BOOLEAN]) /\ Len(tokens') \in Nat
         /\ Len(tokens') <= MaxTokens
         /\ Len(tokens') = Len(tokens) + 1 /\ \A t \in 1..Len(tokens) : tokens'[t] = tokens[t]
         /\ token = Len(tokens') /\ tokens'[token].user = u /\ token # NoToken
PROOF
<1> DEFINE T == [user : UserIds, live : BOOLEAN]  e == [user |-> u, live |-> TRUE]
<1>1. tokens \in Seq(T) /\ e \in T /\ Len(tokens) \in Nat /\ Len(tokens) < MaxTokens
      /\ e.user = u /\ MaxTokens \in Nat
  BY LenProperties, AuthAssumption DEF AccountsOnce, AuthTypeOK, issueAndRespond
<1>2. tokens' = Append(tokens, e) /\ token = Len(tokens) + 1
  BY DEF issueAndRespond
<1> HIDE DEF T, e
<1>3. /\ tokens' \in Seq(T) /\ Len(tokens') = Len(tokens) + 1
      /\ tokens'[Len(tokens) + 1] = e /\ \A t \in 1..Len(tokens) : tokens'[t] = tokens[t]
  BY <1>1, <1>2, AppendProperties
<1> QED BY <1>1, <1>2, <1>3 DEF T, NoToken

LEMMA SignupKeeps ==
  ASSUME AccountsOnce, NEW cred \in Credentials, NEW token, signup(cred, token)
  PROVE  AccountsOnce' /\ Grows /\ Len(tokens') \in Nat /\ Goes(token, cred.email, tokens', users')
PROOF
<1>0. budget' \in 0..MaxFaults
  BY AuthAssumption DEF AccountsOnce, AuthTypeOK, signup, Fault, NoFault
<1>1. Len(tokens) \in Nat
  BY LenProperties DEF AccountsOnce, AuthTypeOK
<1>2. CASE UNCHANGED accountVars /\ Refuse(token)
  BY <1>0, <1>1, <1>2
     DEF AccountsOnce, AuthTypeOK, accountVars, Refuse, Grows, Goes, Accounts, NoToken
<1>3. CASE CreateUser(cred) /\ Refuse(token)
  <2>1. tokens' = tokens /\ token = NoToken
    BY <1>3 DEF Refuse
  <2>2. AccountsOnce'
    BY <1>0, <1>3, <2>1, CreateKeeps DEF AccountsOnce, AuthTypeOK
  <2> QED BY <1>1, <1>3, <2>1, <2>2, CreateKeeps DEF Grows, Goes, NoToken
<1>4. CASE CreateUser(cred) /\ users' # users /\ issueAndRespond(drawn', token)
  <2>1. drawn' \in UserIds /\ drawn' \in Accounts' /\ users'[drawn'] = cred
    BY <1>4, CreateKeeps DEF Accounts
  <2>2. /\ tokens' \in Seq([user : UserIds, live : BOOLEAN]) /\ Len(tokens') \in Nat
        /\ Len(tokens') <= MaxTokens
        /\ Len(tokens') = Len(tokens) + 1 /\ \A t \in 1..Len(tokens) : tokens'[t] = tokens[t]
        /\ token = Len(tokens') /\ tokens'[token].user = drawn' /\ token # NoToken
    BY <1>4, <2>1, IssueKeeps
  <2>3. \A t \in 1..Len(tokens') : tokens'[t].user \in Accounts'
    <3> SUFFICES ASSUME NEW t \in 1..Len(tokens') PROVE tokens'[t].user \in Accounts'
      OBVIOUS
    <3>1. CASE t = Len(tokens')
      BY <2>1, <2>2, <3>1
    <3>2. CASE t # Len(tokens')
      <4>1. t \in 1..Len(tokens)
        BY <1>1, <2>2, <3>2
      <4>2. tokens'[t].user \in Accounts
        BY <2>2, <4>1 DEF AccountsOnce
      <4> QED BY <1>4, <4>2, CreateKeeps
    <3> QED BY <3>1, <3>2
  <2>4. AccountsOnce'
    BY <1>0, <1>4, <2>2, <2>3, CreateKeeps DEF AccountsOnce, AuthTypeOK
  <2>5. Grows
    BY <1>1, <1>4, <2>2, CreateKeeps DEF Grows
  <2>6. Goes(token, cred.email, tokens', users')
    BY <2>1, <2>2 DEF Goes
  <2> QED BY <2>2, <2>4, <2>5, <2>6
<1> QED BY <1>2, <1>3, <1>4 DEF signup

LEMMA LoginKeeps ==
  ASSUME AccountsOnce, NEW cred \in Credentials, NEW token, login(cred, token)
  PROVE  AccountsOnce' /\ Grows /\ Len(tokens') \in Nat /\ Goes(token, cred.email, tokens', users')
PROOF
<1>0. budget' \in 0..MaxFaults
  BY AuthAssumption DEF AccountsOnce, AuthTypeOK, login, Fault, NoFault
<1>1. Len(tokens) \in Nat
  BY LenProperties DEF AccountsOnce, AuthTypeOK
<1>2. users' = users /\ drawn' = drawn
  BY DEF login, accountVars
<1>3. CASE Refuse(token)
  BY <1>0, <1>1, <1>2, <1>3
     DEF AccountsOnce, AuthTypeOK, Refuse, Grows, Goes, Accounts, NoToken
<1>4. ASSUME NEW u \in FindByEmail(cred.email), issueAndRespond(u, token)
      PROVE  AccountsOnce' /\ Grows /\ Len(tokens') \in Nat /\ Goes(token, cred.email, tokens', users')
  <2>1. u \in UserIds /\ u \in Accounts /\ users[u].email = cred.email
    BY DEF FindByEmail, Accounts
  <2>2. /\ tokens' \in Seq([user : UserIds, live : BOOLEAN]) /\ Len(tokens') \in Nat
        /\ Len(tokens') <= MaxTokens
        /\ Len(tokens') = Len(tokens) + 1 /\ \A t \in 1..Len(tokens) : tokens'[t] = tokens[t]
        /\ token = Len(tokens') /\ tokens'[token].user = u /\ token # NoToken
    BY <1>4, <2>1, IssueKeeps
  <2>3. \A t \in 1..Len(tokens') : tokens'[t].user \in Accounts
    <3> SUFFICES ASSUME NEW t \in 1..Len(tokens') PROVE tokens'[t].user \in Accounts
      OBVIOUS
    <3>1. CASE t = Len(tokens')
      BY <2>1, <2>2, <3>1
    <3>2. CASE t # Len(tokens')
      <4>1. t \in 1..Len(tokens)
        BY <1>1, <2>2, <3>2
      <4> QED BY <2>2, <4>1 DEF AccountsOnce
    <3> QED BY <3>1, <3>2
  <2>4. AccountsOnce'
    BY <1>0, <1>2, <2>2, <2>3 DEF AccountsOnce, AuthTypeOK, Accounts
  <2>5. Grows
    BY <1>1, <1>2, <2>2 DEF Grows
  <2>6. Goes(token, cred.email, tokens', users')
    BY <1>2, <2>1, <2>2 DEF Goes
  <2> QED BY <2>2, <2>4, <2>5, <2>6
<1> QED BY <1>3, <1>4 DEF login

LEMMA ExpireKeeps ==
  ASSUME AccountsOnce, NEW x \in DOMAIN tokens, Expire(x)
  PROVE  AccountsOnce' /\ Grows /\ Len(tokens') \in Nat
PROOF
<1> DEFINE T == [user : UserIds, live : BOOLEAN]  e == [tokens[x] EXCEPT !.live = FALSE]
<1>0. budget' \in 0..MaxFaults /\ users' = users /\ drawn' = drawn
  BY AuthAssumption DEF AccountsOnce, AuthTypeOK, Expire, Fault, accountVars
<1>1. tokens \in Seq(T) /\ Len(tokens) \in Nat /\ x \in 1..Len(tokens)
  BY LenProperties DEF AccountsOnce, AuthTypeOK
<1>2. tokens[x] \in T
  BY <1>1, ElementOfSeq
<1>3. e \in T /\ e.user = tokens[x].user
  BY <1>2
<1>4. tokens' = [tokens EXCEPT ![x] = e]
  BY DEF Expire
<1> HIDE DEF T, e
<1>5. /\ tokens' \in Seq(T) /\ Len(tokens') = Len(tokens) /\ tokens'[x] = e
      /\ \A t \in 1..Len(tokens) : t # x => tokens'[t] = tokens[t]
  BY <1>1, <1>3, <1>4, ExceptSeq
<1>6. \A t \in 1..Len(tokens) : tokens'[t].user = tokens[t].user
  BY <1>3, <1>5
<1>7. AccountsOnce'
  BY <1>0, <1>1, <1>5, <1>6 DEF AccountsOnce, AuthTypeOK, Accounts, T
<1> QED BY <1>0, <1>1, <1>5, <1>6, <1>7 DEF Grows
-----------------------------------------------------------------------------
(***************************************************************************)
(* Sessions and requests.                                                  *)
(***************************************************************************)
\* Accounts and tokens after a step.
Onward == AccountsOnce' /\ Grows /\ Len(tokens') \in Nat

LEMMA SessionOn ==
  ASSUME AccountsOnce, Onward, NEW session, SessionTrue(session, tokens, users)
  PROVE  SessionTrue(session, tokens', users')
BY GoesOn DEF SessionTrue, Onward

LEMMA RequestOn ==
  ASSUME AccountsOnce, Onward, NEW q, RequestTrue(q, tokens, users)
  PROVE  RequestTrue(q, tokens', users')
BY GoesOn DEF RequestTrue, Onward

LEMMA FreeTrue == ASSUME NEW ts, NEW us PROVE RequestTrue(Free, ts, us)
BY PageAssumption DEF RequestTrue, Free, Shape, Fields

\* What a page sends with its session.
LEMMA RequestMade ==
  ASSUME NEW tab \in Tabs, NEW session, NEW kind, NEW id, NEW done, NEW ts, NEW us,
         SessionTrue(session, ts, us), kind \notin SignIns
  PROVE  /\ RequestTrue(Request(tab, session, kind), ts, us)
         /\ RequestTrue([Request(tab, session, kind) EXCEPT !.id = id], ts, us)
         /\ RequestTrue([Request(tab, session, kind) EXCEPT !.id = id, !.done = done], ts, us)
PROOF
<1> DEFINE q == Request(tab, session, kind)
<1>1. /\ Shape(q) /\ q.at = "sent" /\ q.kind = kind /\ q.tab = tab
      /\ q.token = session.token /\ q.email = session.email
  BY DEF Request, Free, Shape, Fields
<1> HIDE DEF q
<1>2. RequestTrue(q, ts, us)
  BY <1>1 DEF RequestTrue, SessionTrue
<1>3. RequestTrue([q EXCEPT !.id = id], ts, us)
  BY <1>1 DEF RequestTrue, SessionTrue, Shape, Fields
<1>4. RequestTrue([q EXCEPT !.id = id, !.done = done], ts, us)
  BY <1>1 DEF RequestTrue, SessionTrue, Shape, Fields
<1> QED BY <1>2, <1>3, <1>4 DEF q

LEMMA OneRequest ==
  ASSUME IInv, Onward, NEW c \in Calls, NEW q, call' = [call EXCEPT ![c] = q],
         RequestTrue(q, tokens', users')
  PROVE  RequestsTrue'
PROOF
<1>1. \A d \in Calls : RequestTrue(call[d], tokens', users')
  BY RequestOn DEF IInv, RequestsTrue
<1>2. \A d \in Calls : call'[d] = IF d = c THEN q ELSE call[d]
  BY DEF IInv, RequestsTrue
<1>3. call' = [d \in Calls |-> call'[d]]
  BY DEF IInv, RequestsTrue
<1> QED BY <1>1, <1>2, <1>3 DEF RequestsTrue

LEMMA SameRequests ==
  ASSUME IInv, Onward, call' = call
  PROVE  RequestsTrue'
BY RequestOn DEF IInv, RequestsTrue

LEMMA SamePages ==
  ASSUME IInv, Onward, page' = page
  PROVE  PagesTrue'
BY SessionOn DEF IInv, PagesTrue, PageTrue

LEMMA OnePage ==
  ASSUME IInv, Onward, NEW tab \in Tabs, NEW p, page' = [page EXCEPT ![tab] = p],
         PageTrue(p, tokens', users')
  PROVE  PagesTrue'
PROOF
<1>1. \A t \in Tabs : PageTrue(page[t], tokens', users')
  BY SessionOn DEF IInv, PagesTrue, PageTrue
<1>2. \A t \in Tabs : page'[t] = IF t = tab THEN p ELSE page[t]
  BY DEF IInv, PagesTrue
<1>3. page' = [t \in Tabs |-> page'[t]]
  BY DEF IInv, PagesTrue
<1> QED BY <1>1, <1>2, <1>3 DEF PagesTrue

\* No page and no storage: nobody is signed in.
LEMMA SignedOutTrue ==
  ASSUME Onward PROVE SessionTrue(SignedOut, tokens', users')
BY DEF SessionTrue, SignedOut, Goes, Onward, NoToken

LEMMA Quiet ==
  ASSUME IInv, UNCHANGED <<users, drawn, tokens>>, budget' \in 0..MaxFaults
  PROVE  Onward
BY LenProperties DEF IInv, Onward, Grows, AccountsOnce, AuthTypeOK, Accounts

LEMMA SameStore ==
  ASSUME IInv, Onward, store' = store
  PROVE  SessionTrue(store, tokens, users)'
BY SessionOn DEF IInv

\* An answer is as true as its token.
LEMMA AnswerKeeps ==
  ASSUME IInv, Onward, NEW c \in Calls, NEW ok, NEW token, NEW rows,
         call[c].at = "sent", Goes(token, call[c].email, tokens', users'),
         Answered(c, ok, token, rows)
  PROVE  RequestsTrue' /\ call'[c] # call[c]
PROOF
<1> DEFINE q == call[c]
           answered == [q EXCEPT !.at = "answered", !.ok = ok, !.token = token, !.rows = rows]
           after == IF q.tab = NoTab \/ (~ok /\ q.cred # NoUser) THEN Free ELSE answered
<1>1. RequestTrue(q, tokens, users) /\ q.at = "sent"
  BY DEF IInv, RequestsTrue
<1>2. call' = [call EXCEPT ![c] = after] /\ call'[c] = after
  BY DEF IInv, RequestsTrue, Answered
<1>3. Goes(token, q.email, tokens', users')
  OBVIOUS
<1> HIDE DEF q
<1>4. CASE after = Free
  <2>1. after # q
    BY <1>1, <1>4 DEF Free
  <2> QED BY <1>2, <1>4, <2>1, FreeTrue, OneRequest DEF q
<1>5. CASE after = answered /\ q.tab # NoTab
  <2>1. RequestTrue(answered, tokens', users') /\ answered.at = "answered"
    BY <1>1, <1>3, <1>5 DEF RequestTrue, Shape, Fields
  <2>2. after # q
    BY <1>1, <1>5, <2>1
  <2> HIDE DEF after, answered
  <2> QED BY <1>2, <1>5, <2>1, <2>2, OneRequest DEF q
<1> QED BY <1>4, <1>5
-----------------------------------------------------------------------------
(***************************************************************************)
(* The services.                                                           *)
(***************************************************************************)
LEMMA ServeAuthKeeps ==
  ASSUME IInv, NEW c \in Calls, ServeAuth(c)
  PROVE  IInv'
PROOF
<1> DEFINE q == call[c]
<1>1. PICK token \in 0..MaxTokens :
        /\ \/ q.kind = "signup" /\ signup(q.cred, token)
           \/ q.kind = "login" /\ login(q.cred, token)
        /\ Answered(c, token # NoToken, token, <<>>)
  BY DEF ServeAuth
<1>2. q.at = "sent" /\ UNCHANGED <<tableVars, store, page>>
  BY DEF ServeAuth
<1>3. q.cred \in Credentials /\ q.email = q.cred.email
  BY <1>1, <1>2 DEF IInv, RequestsTrue, RequestTrue, SignIns
<1>4. Onward /\ Goes(token, q.email, tokens', users')
  <2>1. AccountsOnce
    BY DEF IInv
  <2>2. CASE signup(q.cred, token)
    BY <1>3, <2>1, <2>2, SignupKeeps DEF Onward
  <2>3. CASE login(q.cred, token)
    BY <1>3, <2>1, <2>3, LoginKeeps DEF Onward
  <2> QED BY <1>1, <2>2, <2>3
<1>5. RequestsTrue'
  <2> DEFINE ok == token # NoToken
  <2> HIDE DEF ok
  <2>1. Answered(c, ok, token, <<>>)
    BY <1>1 DEF ok
  <2> QED BY <1>2, <1>4, <2>1, AnswerKeeps
<1>6. RowsDrawn'
  BY <1>2 DEF IInv, RowsDrawn, tableVars
<1> QED BY <1>2, <1>4, <1>5, <1>6, SameStore, SamePages DEF IInv, Onward

LEMMA ServeListKeeps ==
  ASSUME IInv, NEW c \in Calls, ServeList(c)
  PROVE  IInv'
PROOF
<1> DEFINE q == call[c]
<1>1. PICK ok \in BOOLEAN, rows \in {<<>>, listTasks(Subject(q.token))} :
        Answered(c, ok, q.token, rows)
  BY DEF ServeList
<1>2. q.at = "sent" /\ UNCHANGED <<users, drawn, tokens, drawnTask, tasks, store, page>>
  BY DEF ServeList, accountVars, tableVars
<1>3. Onward
  <2>1. budget' \in 0..MaxFaults
    <3>1. NoFault \/ Fault
      BY DEF ServeList
    <3> QED BY <3>1, AuthAssumption DEF NoFault, Fault, IInv, AccountsOnce, AuthTypeOK
  <2> QED BY <1>2, <2>1, Quiet
<1>4. Goes(q.token, q.email, tokens', users')
  BY <1>2 DEF IInv, RequestsTrue, RequestTrue
<1>5. RequestsTrue'
  BY <1>1, <1>2, <1>3, <1>4, AnswerKeeps
<1>6. RowsDrawn'
  BY <1>2 DEF IInv, RowsDrawn
<1> QED BY <1>2, <1>3, <1>5, <1>6, SameStore, SamePages DEF IInv, Onward

\* A write changes rows of the token's account only.
LEMMA ExecuteKeeps ==
  ASSUME IInv, NEW q, Execute(q)
  PROVE  /\ RowsDrawn'
         /\ q.token # NoToken
         /\ \A id \in TaskIds : tasks'[id] # tasks[id] =>
              Subject(q.token) = IF tasks[id] = NoTask THEN tasks'[id].user ELSE tasks[id].user
PROOF
<1> DEFINE u == Subject(q.token)
<1>1. /\ drawnTask \in 0..MaxTasks /\ MaxTasks \in Nat
      /\ tasks = [id \in TaskIds |-> tasks[id]]
      /\ \A id \in TaskIds : id > drawnTask => tasks[id] = NoTask
  BY PageAssumption DEF IInv, RowsDrawn
<1>2. q.token # NoToken
  BY DEF Execute, Valid
<1>3. CASE createTask(u)
  <2>1. drawnTask + 1 \in TaskIds /\ tasks[drawnTask + 1] = NoTask /\ drawnTask' = drawnTask + 1
        /\ drawnTask' \in 0..MaxTasks
    BY <1>1, <1>3 DEF createTask, TaskIds
  <2>2. tasks' = [tasks EXCEPT ![drawnTask + 1] = [user |-> u, done |-> FALSE]]
    BY <1>3 DEF createTask
  <2>4. RowsDrawn'
    <3> DEFINE row == [user |-> u, done |-> FALSE]
    <3>1. tasks' = [tasks EXCEPT ![drawnTask + 1] = row]
      BY <2>2
    <3> HIDE DEF row
    <3>2. tasks' = [id \in TaskIds |-> tasks'[id]]
      BY <1>1, <3>1
    <3>3. ASSUME NEW id \in TaskIds, id > drawnTask' PROVE tasks'[id] = NoTask
      <4>1. id # drawnTask + 1 /\ id > drawnTask
        BY <1>1, <2>1, <3>3 DEF TaskIds
      <4> QED BY <1>1, <3>1, <4>1
    <3> QED BY <2>1, <3>2, <3>3 DEF RowsDrawn
  <2> QED BY <1>1, <1>2, <2>1, <2>2, <2>4
<1>4. CASE updateTask(u, q.id, q.done)
  <2>1. tasks[q.id] # NoTask /\ tasks[q.id].user = u /\ drawnTask' = drawnTask
        /\ tasks' = [tasks EXCEPT ![q.id].done = q.done]
    BY <1>4 DEF updateTask, Own
  <2> QED BY <1>1, <1>2, <2>1 DEF RowsDrawn
<1>5. CASE deleteTask(u, q.id)
  <2>1. tasks[q.id] # NoTask /\ tasks[q.id].user = u /\ drawnTask' = drawnTask
        /\ tasks' = [tasks EXCEPT ![q.id] = NoTask]
    BY <1>5 DEF deleteTask, Own
  <2> QED BY <1>1, <1>2, <2>1 DEF RowsDrawn
<1> QED BY <1>3, <1>4, <1>5 DEF Execute

LEMMA ServeWriteKeeps ==
  ASSUME IInv, NEW c \in Calls, ServeWrite(c)
  PROVE  IInv' /\ call'[c] # call[c]
PROOF
<1> DEFINE q == call[c]
<1>1. PICK ok \in BOOLEAN : \E rows : Answered(c, ok, q.token, rows)
  BY DEF ServeWrite
<1>2. PICK rows : Answered(c, ok, q.token, rows)
  BY <1>1
<1>3. q.at = "sent" /\ UNCHANGED <<users, drawn, tokens, store, page>>
  BY DEF ServeWrite, accountVars
<1>4. Onward
  <2>1. budget' \in 0..MaxFaults
    <3>1. NoFault \/ Fault
      BY DEF ServeWrite
    <3> QED BY <3>1, AuthAssumption DEF NoFault, Fault, IInv, AccountsOnce, AuthTypeOK
  <2> QED BY <1>3, <2>1, Quiet
<1>5. Goes(q.token, q.email, tokens', users')
  BY <1>3 DEF IInv, RequestsTrue, RequestTrue
<1>6. RequestsTrue' /\ call'[c] # call[c]
  BY <1>2, <1>3, <1>4, <1>5, AnswerKeeps
<1>7. RowsDrawn'
  <2>1. Execute(q) \/ UNCHANGED tableVars
    BY DEF ServeWrite
  <2> QED BY <2>1, ExecuteKeeps DEF IInv, RowsDrawn, tableVars
<1> QED BY <1>3, <1>4, <1>6, <1>7, SameStore, SamePages DEF IInv, Onward

LEMMA RejectKeeps ==
  ASSUME IInv, NEW c \in Calls, Reject(c)
  PROVE  IInv'
PROOF
<1> DEFINE q == call[c]  late == [q EXCEPT !.tab = NoTab]
<1>1. UNCHANGED <<users, drawn, tokens, drawnTask, tasks, store, page>>
  BY DEF Reject, accountVars, tableVars
<1>2. Onward
  <2>1. budget' \in 0..MaxFaults
    BY AuthAssumption DEF Reject, Fault, IInv, AccountsOnce, AuthTypeOK
  <2> QED BY <1>1, <2>1, Quiet
<1>3. RequestTrue(q, tokens', users')
  BY <1>2, RequestOn DEF IInv, RequestsTrue
<1>4. ASSUME call' = [call EXCEPT ![c] = Free] PROVE RequestsTrue'
  BY <1>2, <1>4, FreeTrue, OneRequest
<1>5. ASSUME q.at = "sent", call' = [call EXCEPT ![c].tab = NoTab] PROVE RequestsTrue'
  <2>1. call' = [call EXCEPT ![c] = late]
    BY <1>5
  <2>2. RequestTrue(late, tokens', users')
    BY <1>3, <1>5 DEF RequestTrue, Shape, Fields
  <2> HIDE DEF late
  <2> QED BY <1>2, <2>1, <2>2, OneRequest
<1>6. RequestsTrue'
  BY <1>4, <1>5 DEF Reject
<1>7. RowsDrawn'
  BY <1>1 DEF IInv, RowsDrawn
<1> QED BY <1>1, <1>2, <1>6, <1>7, SameStore, SamePages DEF IInv, Onward
-----------------------------------------------------------------------------
(***************************************************************************)
(* The user.                                                               *)
(***************************************************************************)
\* What the user does changes neither accounts nor tokens nor rows.
LEMMA UserOnward ==
  ASSUME IInv, UNCHANGED <<authVars, tableVars>>
  PROVE  Onward /\ RowsDrawn'
BY Quiet DEF authVars, accountVars, tableVars, IInv, AccountsOnce, AuthTypeOK, RowsDrawn

LEMMA LoginPageKeeps ==
  ASSUME IInv, NEW tab \in Tabs, Login(tab)
  PROVE  IInv'
PROOF
<1>1. PICK kind \in SignIns, cred \in Credentials, c \in Calls :
        call' = [call EXCEPT ![c] =
                   [Request(tab, SignedOut, kind) EXCEPT !.email = cred.email, !.cred = cred]]
  BY DEF Login, Send, SignIns
<1> DEFINE r == Request(tab, SignedOut, kind)
           q == [r EXCEPT !.email = cred.email, !.cred = cred]
<1>2. Shape(r) /\ r.at = "sent" /\ r.kind = kind /\ r.tab = tab /\ r.token = NoToken
  BY DEF Request, Free, SignedOut, Shape, Fields
<1>3. Onward /\ RowsDrawn' /\ UNCHANGED <<store, page>>
  BY UserOnward DEF Login
<1>4. call' = [call EXCEPT ![c] = q]
  BY <1>1
<1> HIDE DEF r
<1>5. Shape(q) /\ q.at = "sent" /\ q.tab = tab /\ q.token = NoToken /\ q.email = cred.email /\ q.cred = cred
  BY <1>2 DEF Shape, Fields
<1> HIDE DEF q
<1>6. RequestTrue(q, tokens', users')
  BY <1>3, <1>5 DEF RequestTrue, Goes, NoToken, Onward
<1>7. RequestsTrue'
  BY <1>3, <1>4, <1>6, OneRequest
<1> QED BY <1>3, <1>7, SameStore, SamePages DEF IInv, Onward

LEMMA SignOutKeeps ==
  ASSUME IInv, NEW tab \in Tabs, signOut(tab)
  PROVE  IInv'
PROOF
<1> DEFINE p == [session |-> SignedOut, shown |-> <<>>]
<1>1. Onward /\ RowsDrawn' /\ call' = call
  BY UserOnward DEF signOut
<1>2. SessionTrue(SignedOut, tokens', users')
  BY <1>1, SignedOutTrue
<1>3. PageTrue(p, tokens', users')
  BY <1>2 DEF PageTrue
<1>4. store' = SignedOut /\ page' = [page EXCEPT ![tab] = p]
  BY DEF signOut
<1> HIDE DEF p
<1>5. PagesTrue'
  BY <1>1, <1>3, <1>4, OnePage
<1>6. SessionTrue(store, tokens, users)'
  BY <1>2, <1>4
<1> QED BY <1>1, <1>5, <1>6, SameRequests DEF IInv, Onward

LEMMA CommandKeeps ==
  ASSUME IInv, NEW tab \in Tabs,
         \/ addTask(tab) \/ \E i \in DOMAIN page[tab].shown : toggle(tab, i) \/ remove(tab, i)
  PROVE  IInv'
PROOF
<1> DEFINE session == page[tab].session
<1>1. Onward /\ RowsDrawn' /\ UNCHANGED <<store, page>>
  BY UserOnward DEF addTask, toggle, remove, Command
<1>2. SessionTrue(session, tokens', users')
  BY <1>1, SessionOn DEF IInv, PagesTrue, PageTrue
<1>3. ASSUME addTask(tab) PROVE RequestsTrue'
  <2> DEFINE q == Request(tab, session, "create")
  <2>1. PICK c \in Calls : call' = [call EXCEPT ![c] = q]
    BY <1>3 DEF addTask, Command, Send
  <2>2. RequestTrue(q, tokens', users')
    BY <1>2, RequestMade DEF SignIns
  <2> HIDE DEF q
  <2> QED BY <1>1, <2>1, <2>2, OneRequest
<1>4. ASSUME NEW i \in DOMAIN page[tab].shown, toggle(tab, i) PROVE RequestsTrue'
  <2> DEFINE t == page[tab].shown[i]
             q == [Request(tab, session, "update") EXCEPT !.id = t.id, !.done = ~t.done]
  <2>1. PICK c \in Calls : call' = [call EXCEPT ![c] = q]
    BY <1>4 DEF toggle, Command, Send
  <2>2. RequestTrue(q, tokens', users')
    BY <1>2, RequestMade DEF SignIns
  <2> HIDE DEF q
  <2> QED BY <1>1, <2>1, <2>2, OneRequest
<1>6. ASSUME NEW i \in DOMAIN page[tab].shown, remove(tab, i) PROVE RequestsTrue'
  <2> DEFINE t == page[tab].shown[i]
             q == [Request(tab, session, "delete") EXCEPT !.id = t.id]
  <2>1. PICK c \in Calls : call' = [call EXCEPT ![c] = q]
    BY <1>6 DEF remove, Command, Send
  <2>2. RequestTrue(q, tokens', users')
    BY <1>2, RequestMade DEF SignIns
  <2> HIDE DEF q
  <2> QED BY <1>1, <2>1, <2>2, OneRequest
<1>5. RequestsTrue'
  BY <1>3, <1>4, <1>6
<1> QED BY <1>1, <1>5, SameStore, SamePages DEF IInv, Onward

LEMMA LoadKeeps ==
  ASSUME IInv, NEW tab \in Tabs, Load(tab)
  PROVE  IInv'
PROOF
<1> DEFINE left == [c \in Calls |->
                      IF c \notin InFlight(tab) THEN call[c]
                      ELSE IF call[c].at = "sent" /\ call[c].kind # "list"
                        THEN [call[c] EXCEPT !.tab = NoTab]
                        ELSE Free]
           p == [session |-> store, shown |-> <<>>]
<1>1. Onward /\ RowsDrawn' /\ store' = store /\ page' = [page EXCEPT ![tab] = p]
  BY UserOnward DEF Load
<1>2. SessionTrue(store, tokens', users')
  BY <1>1, SessionOn DEF IInv
<1>3. PageTrue(p, tokens', users')
  BY <1>2 DEF PageTrue
<1>4. ASSUME NEW c \in Calls PROVE RequestTrue(left[c], tokens', users')
  <2>1. RequestTrue(call[c], tokens', users')
    BY <1>1, RequestOn DEF IInv, RequestsTrue
  <2>2. CASE c \in InFlight(tab) /\ call[c].at = "sent" /\ call[c].kind # "list"
    <3> DEFINE q == call[c]  late == [q EXCEPT !.tab = NoTab]
    <3>1. left[c] = late
      BY <2>2
    <3>2. RequestTrue(q, tokens', users') /\ q.at = "sent"
      BY <2>1, <2>2
    <3> HIDE DEF q
    <3>3. RequestTrue(late, tokens', users')
      BY <3>2 DEF RequestTrue, Shape, Fields
    <3> QED BY <3>1, <3>3
  <2>3. CASE c \notin InFlight(tab)
    BY <2>1, <2>3
  <2>4. CASE c \in InFlight(tab) /\ ~(call[c].at = "sent" /\ call[c].kind # "list")
    BY <2>4, FreeTrue
  <2> QED BY <2>2, <2>3, <2>4
<1>5. \/ call' = left
      \/ \E c \in Calls : call' = [left EXCEPT ![c] = Request(tab, store, "list")]
  BY DEF Load
<1>6. left = [c \in Calls |-> left[c]]
  OBVIOUS
<1> HIDE DEF left, p
<1>7. ASSUME call' = left PROVE RequestsTrue'
  BY <1>4, <1>6, <1>7 DEF RequestsTrue
<1>8. ASSUME NEW c \in Calls, call' = [left EXCEPT ![c] = Request(tab, store, "list")]
      PROVE  RequestsTrue'
  <2> DEFINE q == Request(tab, store, "list")
  <2>1. RequestTrue(q, tokens', users')
    BY <1>2, RequestMade DEF SignIns
  <2> HIDE DEF q
  <2>2. \A d \in Calls : call'[d] = IF d = c THEN q ELSE left[d]
    BY <1>6, <1>8 DEF q
  <2>3. call' = [d \in Calls |-> call'[d]]
    BY <1>6, <1>8
  <2> QED BY <1>4, <2>1, <2>2, <2>3 DEF RequestsTrue
<1>9. RequestsTrue'
  BY <1>5, <1>7, <1>8
<1>10. PagesTrue'
  BY <1>1, <1>3, OnePage
<1> QED BY <1>1, <1>9, <1>10, SameStore DEF IInv, Onward

\* Whenever its answer comes: a sign-in stores the token with the address it was
\* asked for with, and any other answer leaves the sessions alone.
LEMMA CallbackKeeps ==
  ASSUME IInv, NEW c \in Calls, Callback(c)
  PROVE  IInv'
PROOF
<1> DEFINE q == call[c]  old == page[q.tab]
<1>1. Onward /\ RowsDrawn'
  BY UserOnward DEF Callback
<1>2. RequestTrue(q, tokens', users') /\ q.at = "answered"
  BY <1>1, RequestOn DEF IInv, RequestsTrue, Callback
<1>3. q.tab \in Tabs /\ Goes(q.token, q.email, tokens', users')
  BY <1>2, PageAssumption DEF RequestTrue
<1>4. PageTrue(old, tokens', users')
  BY <1>1, <1>3, SessionOn DEF IInv, PagesTrue, PageTrue
<1>5. ASSUME SignIn(c) PROVE IInv'
  <2> DEFINE session == [token |-> q.token, email |-> q.email]
             p == [old EXCEPT !.session = session]
             list == Request(q.tab, session, "list")
  <2>1. /\ store' = session /\ page' = [page EXCEPT ![q.tab] = p]
        /\ call' = [call EXCEPT ![c] = list]
    BY <1>5 DEF SignIn
  <2>2. SessionTrue(session, tokens', users')
    BY <1>3 DEF SessionTrue
  <2> HIDE DEF session, q, old
  <2>3. PageTrue(p, tokens', users')
    BY <1>4, <2>2 DEF PageTrue
  <2>4. RequestTrue(list, tokens', users')
    BY <1>3, <2>2, RequestMade DEF SignIns
  <2> HIDE DEF p, list
  <2>5. PagesTrue'
    BY <1>1, <1>3, <2>1, <2>3, OnePage
  <2>6. RequestsTrue'
    BY <1>1, <2>1, <2>4, OneRequest
  <2>7. SessionTrue(store, tokens, users)'
    BY <2>1, <2>2
  <2> QED BY <1>1, <2>5, <2>6, <2>7 DEF IInv, Onward
<1>6. ASSUME page' = [page EXCEPT ![q.tab].shown = Shown(q, @)],
             call' = [call EXCEPT ![c] = Free], store' = store
      PROVE  IInv'
  <2> DEFINE rows == Shown(q, old.shown)  p == [old EXCEPT !.shown = rows]
  <2>1. page' = [page EXCEPT ![q.tab] = p]
    BY <1>6
  <2> HIDE DEF q, old, rows
  <2>2. PageTrue(p, tokens', users')
    BY <1>4 DEF PageTrue
  <2> HIDE DEF p
  <2>3. PagesTrue'
    BY <1>1, <1>3, <2>1, <2>2, OnePage
  <2>4. RequestsTrue'
    BY <1>1, <1>6, FreeTrue, OneRequest
  <2> QED BY <1>1, <1>6, <2>3, <2>4, SameStore DEF IInv, Onward
<1> QED BY <1>5, <1>6 DEF Callback

LEMMA ExpireTokenKeeps ==
  ASSUME IInv, NEW t \in DOMAIN tokens, ExpireToken(t)
  PROVE  IInv'
PROOF
<1>1. Onward
  BY ExpireKeeps DEF ExpireToken, IInv, Onward
<1>2. RowsDrawn' /\ UNCHANGED <<store, page, call>>
  BY DEF ExpireToken, IInv, RowsDrawn, tableVars
<1> QED BY <1>1, <1>2, SameStore, SamePages, SameRequests DEF IInv, Onward
-----------------------------------------------------------------------------
(***************************************************************************)
(* The invariant.                                                          *)
(***************************************************************************)
LEMMA InitTrue == Init => IInv
PROOF
<1> SUFFICES ASSUME Init PROVE IInv
  OBVIOUS
<1>1. Len(tokens) = 0 /\ tokens \in Seq([user : UserIds, live : BOOLEAN])
  BY EmptySeq DEF Init, AuthInit
<1>2. AccountsOnce
  BY <1>1, AuthAssumption DEF Init, AuthInit, AccountsOnce, AuthTypeOK, Accounts, UserIds
<1>3. RowsDrawn
  BY PageAssumption DEF Init, RowsDrawn
<1>4. SessionTrue(SignedOut, tokens, users)
  BY <1>1 DEF SessionTrue, SignedOut, Goes, NoToken
<1>5. PagesTrue
  BY <1>4 DEF Init, PagesTrue, PageTrue
<1>6. RequestsTrue
  BY FreeTrue DEF Init, RequestsTrue
<1> QED BY <1>2, <1>3, <1>4, <1>5, <1>6 DEF Init, IInv

LEMMA StepTrue == IInv /\ [Next]_vars => IInv'
PROOF
<1> SUFFICES ASSUME IInv, [Next]_vars PROVE IInv'
  OBVIOUS
<1>1. ASSUME NEW c \in Calls,
             ServeAuth(c) \/ ServeList(c) \/ ServeWrite(c) \/ Reject(c) \/ Callback(c)
      PROVE  IInv'
  BY <1>1, ServeAuthKeeps, ServeListKeeps, ServeWriteKeeps, RejectKeeps, CallbackKeeps
<1>2. ASSUME NEW tab \in Tabs,
             \/ Login(tab) \/ signOut(tab) \/ addTask(tab) \/ Load(tab)
             \/ \E i \in DOMAIN page[tab].shown : toggle(tab, i) \/ remove(tab, i)
      PROVE  IInv'
  BY <1>2, LoginPageKeeps, SignOutKeeps, CommandKeeps, LoadKeeps
<1>3. ASSUME NEW t \in DOMAIN tokens, ExpireToken(t) PROVE IInv'
  BY <1>3, ExpireTokenKeeps
<1>4. CASE UNCHANGED vars
  <2>1. Onward /\ RowsDrawn' /\ UNCHANGED <<store, page, call>>
    BY <1>4, UserOnward DEF vars
  <2> QED BY <2>1, SameStore, SamePages, SameRequests DEF IInv, Onward
<1> QED BY <1>1, <1>2, <1>3, <1>4 DEF Next

LEMMA Invariance == Spec => []IInv
BY InitTrue, StepTrue, PTL DEF Spec
-----------------------------------------------------------------------------
(***************************************************************************)
(* Theorems.                                                               *)
(***************************************************************************)
\* The UNIQUE column email gives each address one account, however many signups
\* race, fail or are repeated.
THEOREM OneAccountEach == Spec => []OneAccount
PROOF
<1>1. IInv => OneAccount
  <2> SUFFICES ASSUME IInv, NEW t1 \in DOMAIN tokens, NEW t2 \in DOMAIN tokens,
                      users[Subject(t1)].email = users[Subject(t2)].email
               PROVE  Subject(t1) = Subject(t2)
    BY DEF OneAccount
  <2>1. DOMAIN tokens = 1..Len(tokens)
    BY LenProperties DEF IInv, AccountsOnce, AuthTypeOK
  <2> QED BY <2>1 DEF IInv, AccountsOnce, Subject
<1> QED BY <1>1, Invariance, PTL

\* page.tsx and the storage never pair an address with the token of another
\* account, in whatever order answers, sign-outs and reloads come.
THEOREM Identity == Spec => []IdentityShown
PROOF
<1>1. IInv => IdentityShown
  BY DEF IInv, PagesTrue, PageTrue, SessionTrue, Goes, IdentityShown, Subject
<1> QED BY <1>1, Invariance, PTL

\* A row of tasks-svc changes only by a command given on a page that shows its
\* owner's address.
THEOREM OwnersOnly == Spec => ChangedByItsOwner
PROOF
<1> DEFINE Owned ==
      \A id \in TaskIds : tasks'[id] # tasks[id] =>
        LET u == IF tasks[id] = NoTask THEN tasks'[id].user ELSE tasks[id].user
        IN  \E c \in Calls : /\ call[c].at = "sent" /\ call'[c] # call[c]
                             /\ call[c].kind \in Writes
                             /\ call[c].email = users[u].email
<1>1. ASSUME IInv, NEW c \in Calls, ServeWrite(c) PROVE Owned
  <2> SUFFICES ASSUME NEW id \in TaskIds, tasks'[id] # tasks[id]
               PROVE  LET u == IF tasks[id] = NoTask THEN tasks'[id].user ELSE tasks[id].user
                      IN  call[c].email = users[u].email
    BY <1>1, ServeWriteKeeps DEF ServeWrite
  <2>1. Execute(call[c])
    BY <1>1 DEF ServeWrite, tableVars
  <2>2. Goes(call[c].token, call[c].email, tokens, users)
    BY <1>1 DEF ServeWrite, IInv, RequestsTrue, RequestTrue
  <2>3. call[c].token # NoToken
        /\ Subject(call[c].token) = IF tasks[id] = NoTask THEN tasks'[id].user ELSE tasks[id].user
    BY <1>1, <2>1, ExecuteKeeps
  <2> QED BY <2>2, <2>3 DEF Goes, Subject
<1>2. ASSUME Next, \A c \in Calls : ~ServeWrite(c) PROVE tasks' = tasks
  BY <1>2 DEF Next, ServeAuth, ServeList, Reject, Callback, Login, signOut, addTask, Load, toggle,
              remove, Command, ExpireToken, tableVars
<1>3. IInv /\ [Next]_vars => [Owned]_vars
  BY <1>1, <1>2
<1> QED BY <1>3, Invariance, PTL DEF Spec, ChangedByItsOwner
===============================================================================
