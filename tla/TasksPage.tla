------------------------------ MODULE TasksPage ------------------------------
(***************************************************************************)
(* The page of the frontend in the tabs of one browser, with the services  *)
(* it calls: auth-svc, and the table tasks of tasks-svc.                   *)
(*                                                                         *)
(* A click sends a request and returns; the answer is a callback of its    *)
(* own, which may come after a sign-out, a new sign-in or other answers,   *)
(* and which the page applies whatever has happened since.  call holds the *)
(* requests in flight, each with what its callback has captured.  Tabs     *)
(* share the local storage and nothing else.  Toasts, the filter, error    *)
(* texts and the names of tasks are left out.                              *)
(***************************************************************************)
EXTENDS AuthService, FiniteSets

CONSTANTS
  Tabs,
  Calls,     \* bound: the requests that can be in flight at once
  MaxTasks,  \* bound: how many values of the BIGSERIAL tasks.id are drawn
  ListLimit, \* the LIMIT of listTasks, 200 in the code
  NoTab,     \* the page that sent the request is gone
  NoTask,    \* no row
  NoEmail

TaskIds == 1..MaxTasks

ASSUME PageAssumption ==
  /\ MaxTasks \in Nat /\ ListLimit \in Nat \ {0}
  /\ NoTab \notin Tabs
  /\ NoEmail \notin Emails
  /\ NoTask \notin [user : UserIds, done : BOOLEAN]

VARIABLES
  tasks,      \* table tasks
  drawnTask,  \* the last value drawn from its serial
  store,      \* the local storage
  page,       \* the state of the component Home in each tab
  call,       \* the requests in flight
  calm        \* history: since signing in, nothing that CalmPageIsCurrent excepts

tableVars == <<tasks, drawnTask>>
vars      == <<authVars, tableVars, store, page, call, calm>>

Items    == [id : TaskIds, done : BOOLEAN]
Session  == [token : 0..MaxTokens, email : Emails \cup {NoEmail}]
Writes   == {"create", "update", "delete"}

Free == [at |-> "free", kind |-> "list", tab |-> NoTab, token |-> NoToken,
         email |-> NoEmail, cred |-> NoUser, id |-> 0, done |-> FALSE,
         ok |-> FALSE, rows |-> <<>>]

SignedOut == [token |-> NoToken, email |-> NoEmail]

\* The state has the right shape, and a token is stored with its address.
TypeOK ==
  /\ AuthTypeOK
  /\ tasks \in [TaskIds -> [user : UserIds, done : BOOLEAN] \cup {NoTask}]
  /\ drawnTask \in 0..MaxTasks
  /\ store \in Session
  /\ store.token = NoToken <=> store.email = NoEmail
  /\ page \in [Tabs -> [session : Session, shown : Seq(Items)]]
  /\ call \in [Calls -> [at : {"free", "sent", "answered"},
                         kind : Writes \cup {"signup", "login", "list"},
                         tab : Tabs \cup {NoTab}, token : 0..MaxTokens,
                         email : Emails \cup {NoEmail},
                         cred : Credentials \cup {NoUser}, id : 0..MaxTasks,
                         done : BOOLEAN, ok : BOOLEAN, rows : Seq(Items)]]
  /\ calm \in [Tabs -> BOOLEAN]

Init ==
  /\ AuthInit
  /\ tasks = [t \in TaskIds |-> NoTask]
  /\ drawnTask = 0
  /\ store = SignedOut
  /\ page = [tab \in Tabs |-> [session |-> SignedOut, shown |-> <<>>]]
  /\ call = [c \in Calls |-> Free]
  /\ calm = [tab \in Tabs |-> FALSE]

Token(tab)     == page[tab].session.token
InFlight(tab)  == {c \in Calls : call[c].at # "free" /\ call[c].tab = tab}
Disturb(tabs)  == calm' = [t \in Tabs |-> calm[t] /\ t \notin tabs]

\* A request of a page with this session.
Request(tab, session, kind) ==
  [Free EXCEPT !.at = "sent", !.kind = kind, !.tab = tab,
               !.token = session.token, !.email = session.email]

Send(request) ==
  \E c \in Calls : call[c].at = "free" /\ call' = [call EXCEPT ![c] = request]

-----------------------------------------------------------------------------
(***************************************************************************)
(* The services.                                                           *)
(***************************************************************************)
Own(u, id) == tasks[id] # NoTask /\ tasks[id].user = u

\* The items of s at these places, in their order.
Kept(s, places) ==
  [n \in 1..Cardinality(places) |->
     s[CHOOSE i \in places : Cardinality({j \in places : j <= i}) = n]]

\* The rows of an account: WHERE user_id=$1 ORDER BY id DESC.
ownTasks(u) ==
  LET byId == [i \in TaskIds |-> MaxTasks + 1 - i]
      ids  == Kept(byId, {i \in TaskIds : Own(u, byId[i])})
  IN  [i \in DOMAIN ids |-> [id |-> ids[i], done |-> tasks[ids[i]].done]]

\* The account has more rows than the LIMIT lets through.
Cut(u) == Len(ownTasks(u)) > ListLimit

listTasks(u) == IF Cut(u) THEN SubSeq(ownTasks(u), 1, ListLimit) ELSE ownTasks(u)

createTask(u) ==
  /\ drawnTask < MaxTasks
  /\ drawnTask' = drawnTask + 1
  /\ tasks' = [tasks EXCEPT ![drawnTask + 1] = [user |-> u, done |-> FALSE]]

\* Mutant of updateTask: WHERE id=$1.
updateTask_any(u, id, done) ==
  /\ tasks[id] # NoTask
  /\ tasks' = [tasks EXCEPT ![id].done = done]
  /\ UNCHANGED drawnTask

\* WHERE id=$1 AND user_id=$2
updateTask(u, id, done) ==
  /\ Own(u, id)
  /\ tasks' = [tasks EXCEPT ![id].done = done]
  /\ UNCHANGED drawnTask

deleteTask(u, id) ==
  /\ Own(u, id)
  /\ tasks' = [tasks EXCEPT ![id] = NoTask]
  /\ UNCHANGED drawnTask

\* The statement of a write, for the subject of its token.
Execute(q) ==
  LET u == Subject(q.token)
  IN  /\ Valid(q.token)
      /\ \/ q.kind = "create" /\ createTask(u)
         \/ q.kind = "update" /\ updateTask(u, q.id, q.done)
         \/ q.kind = "delete" /\ deleteTask(u, q.id)

\* RETURNING, after Execute(q).
Returning(q) ==
  CASE q.kind = "create" -> <<[id |-> drawnTask', done |-> FALSE]>>
    [] q.kind = "update" -> <<[id |-> q.id, done |-> q.done]>>
    [] q.kind = "delete" -> <<>>

\* The answer to request c reaches its page, if there still is one.  That of a
\* refused sign-in ends there: its callback shows a text.
Answered(c, ok, token, rows) ==
  call' = [call EXCEPT ![c] =
             IF @.tab = NoTab \/ (~ok /\ @.cred # NoUser) THEN Free
             ELSE [@ EXCEPT !.at = "answered", !.ok = ok, !.token = token, !.rows = rows]]

ServeAuth(c) ==
  LET q == call[c]
  IN /\ q.at = "sent"
     /\ \E token \in 0..MaxTokens :
          /\ \/ q.kind = "signup" /\ signup(q.cred, token)
             \/ q.kind = "login" /\ login(q.cred, token)
          /\ Answered(c, token # NoToken, token, <<>>)
     /\ UNCHANGED <<tableVars, store, page, calm>>

ServeList(c) ==
  LET q == call[c]
  IN /\ q.at = "sent"
     /\ q.kind = "list"
     /\ \/ /\ Valid(q.token)
           /\ Answered(c, TRUE, q.token, listTasks(Subject(q.token)))
           /\ NoFault
           /\ IF Cut(Subject(q.token)) THEN Disturb({q.tab}) ELSE UNCHANGED calm
        \/ /\ \/ ~Valid(q.token) /\ NoFault
              \/ Fault
           /\ Answered(c, FALSE, q.token, <<>>)
           /\ Disturb({q.tab})
     /\ UNCHANGED <<accountVars, tokens, tableVars, store, page>>

\* The other tabs that a write of user u, sent from tab, leaves out of date.
Others(tab, u) ==
  {t \in Tabs \ {tab} : Token(t) # NoToken /\ Subject(Token(t)) = u}

\* A write succeeds, is refused (401, 404), or fails before or after its commit.
ServeWrite(c) ==
  LET q == call[c]
  IN /\ q.at = "sent"
     /\ q.kind \in Writes
     /\ \/ /\ Execute(q)
           /\ Answered(c, TRUE, q.token, Returning(q))
           /\ Disturb(Others(q.tab, Subject(q.token)))
           /\ NoFault
        \/ /\ ~Valid(q.token) \/ (q.kind # "create" /\ ~Own(Subject(q.token), q.id))
           /\ Answered(c, FALSE, q.token, <<>>)
           /\ UNCHANGED <<tableVars, calm>>
           /\ NoFault
        \/ /\ Fault
           /\ \/ Execute(q) /\ Disturb({q.tab} \cup Others(q.tab, Subject(q.token)))
              \/ UNCHANGED tableVars /\ Disturb({q.tab})
           /\ Answered(c, FALSE, q.token, <<>>)
     /\ UNCHANGED <<accountVars, tokens, store, page>>

\* The network fails and fetch rejects: no callback changes the page, and a
\* request that was sent may still be served (which matters unless it only reads).
Reject(c) ==
  LET q == call[c]
  IN /\ q.tab # NoTab
     /\ \/ call' = [call EXCEPT ![c] = Free]
        \/ q.at = "sent" /\ q.kind # "list" /\ call' = [call EXCEPT ![c].tab = NoTab]
     /\ Fault
     /\ Disturb({q.tab})
     /\ UNCHANGED <<accountVars, tokens, tableVars, store, page>>

-----------------------------------------------------------------------------
(***************************************************************************)
(* The user's actions.                                                     *)
(***************************************************************************)
\* The bounds again: nothing is sent that could not be served within them.
WithinBounds ==
  LET Sent(kinds) == Cardinality({c \in Calls : call'[c].at = "sent" /\ call'[c].kind \in kinds})
  IN  /\ drawn + Sent({"signup"}) <= MaxUsers
      /\ Len(tokens) + Sent({"signup", "login"}) <= MaxTokens
      /\ drawnTask + Sent({"create"}) <= MaxTasks

\* The form of signing in and up is shown while there is no token.
Login(tab) ==
  /\ Token(tab) = NoToken
  /\ \E kind \in {"signup", "login"}, cred \in Credentials :
       Send([Request(tab, SignedOut, kind) EXCEPT !.email = cred.email, !.cred = cred])
  /\ WithinBounds
  /\ UNCHANGED <<authVars, tableVars, store, page, calm>>

\* Mutant of signOut: removes the token only.
signOut_partial(tab) ==
  /\ Token(tab) # NoToken
  /\ store' = [store EXCEPT !.token = NoToken]
  /\ page' = [page EXCEPT ![tab] = [session |-> SignedOut, shown |-> <<>>]]
  /\ Disturb({tab})
  /\ UNCHANGED <<authVars, tableVars, call>>

signOut(tab) ==
  /\ Token(tab) # NoToken
  /\ store' = SignedOut
  /\ page' = [page EXCEPT ![tab] = [session |-> SignedOut, shown |-> <<>>]]
  /\ Disturb({tab})
  /\ UNCHANGED <<authVars, tableVars, call>>

Listing(tab) == \E c \in InFlight(tab) : call[c].kind = "list"

\* A click on one of the three commands, before or after the list has come.
Command(tab, request) ==
  /\ Token(tab) # NoToken
  /\ Send(request)
  /\ WithinBounds
  /\ UNCHANGED <<authVars, tableVars, store, page>>

addTask(tab) ==
  /\ Command(tab, Request(tab, page[tab].session, "create"))
  /\ IF Listing(tab) THEN Disturb({tab}) ELSE UNCHANGED calm

toggle(tab, i) ==
  LET t == page[tab].shown[i]
  IN /\ Command(tab, [Request(tab, page[tab].session, "update")
                        EXCEPT !.id = t.id, !.done = ~t.done])
     /\ IF Listing(tab) \/ \E c \in InFlight(tab) : call[c].kind = "update" /\ call[c].id = t.id
          THEN Disturb({tab}) ELSE UNCHANGED calm

remove(tab, i) ==
  /\ Command(tab, [Request(tab, page[tab].session, "delete")
                     EXCEPT !.id = page[tab].shown[i].id])
  /\ IF Listing(tab) THEN Disturb({tab}) ELSE UNCHANGED calm

\* The page is loaded again, or opened in another tab: requests that are sent go
\* on without it, and the effects of the first rendering run.
Load(tab) ==
  LET left == [c \in Calls |->
                 IF c \notin InFlight(tab) THEN call[c]
                 ELSE IF call[c].at = "sent" /\ call[c].kind # "list"
                   THEN [call[c] EXCEPT !.tab = NoTab]
                   ELSE Free]
  IN /\ page' = [page EXCEPT ![tab] = [session |-> store, shown |-> <<>>]]
     /\ IF store.token = NoToken
          THEN call' = left
          ELSE \E c \in Calls : /\ left[c].at = "free"
                                /\ call' = [left EXCEPT ![c] = Request(tab, store, "list")]
     /\ calm' = [calm EXCEPT ![tab] = store.token # NoToken]
     /\ UNCHANGED <<authVars, tableVars, store>>

-----------------------------------------------------------------------------
(***************************************************************************)
(* The callbacks of the page.  The slot of a request is free afterwards.   *)
(***************************************************************************)
\* Mutant of SignIn: takes the address the form holds now.
SignIn_formValue(c) ==
  \E e \in Emails :
    LET tab     == call[c].tab
        session == [token |-> call[c].token, email |-> e]
    IN /\ store' = session
       /\ page' = [page EXCEPT ![tab].session = session]
       /\ call' = [call EXCEPT ![c] = Request(tab, session, "list")]
       /\ calm' = [calm EXCEPT ![tab] = InFlight(tab) = {c}]

\* The token and the address are stored; the effect of the token asks for the list.
SignIn(c) ==
  LET tab     == call[c].tab
      session == [token |-> call[c].token, email |-> call[c].email]
  IN /\ store' = session
     /\ page' = [page EXCEPT ![tab].session = session]
     /\ call' = [call EXCEPT ![c] = Request(tab, session, "list")]
     /\ calm' = [calm EXCEPT ![tab] = InFlight(tab) = {c}]

\* Mutant of Shown: remove does not look at the status of the answer.
Shown_unchecked(q, shown) ==
  CASE q.kind = "list"           -> q.rows
    [] q.kind = "create" /\ q.ok -> q.rows \o shown
    [] q.kind = "update" /\ q.ok ->
         [i \in DOMAIN shown |-> IF shown[i].id = q.id THEN q.rows[1] ELSE shown[i]]
    [] q.kind = "delete"         -> Kept(shown, {i \in DOMAIN shown : shown[i].id # q.id})
    [] OTHER                     -> shown

\* The rows shown after the answer to q.
Shown(q, shown) ==
  CASE q.kind = "list"           -> q.rows
    [] q.kind = "create" /\ q.ok -> q.rows \o shown
    [] q.kind = "update" /\ q.ok ->
         [i \in DOMAIN shown |-> IF shown[i].id = q.id THEN q.rows[1] ELSE shown[i]]
    [] q.kind = "delete" /\ q.ok -> Kept(shown, {i \in DOMAIN shown : shown[i].id # q.id})
    [] OTHER                     -> shown

Callback(c) ==
  LET q == call[c]
  IN /\ q.at = "answered"
     /\ IF q.ok /\ q.kind \in {"signup", "login"}
          THEN SignIn(c)
          ELSE /\ page' = [page EXCEPT ![q.tab].shown = Shown(q, @)]
               /\ call' = [call EXCEPT ![c] = Free]
               /\ UNCHANGED <<store, calm>>
     /\ UNCHANGED <<authVars, tableVars>>

ExpireToken(t) == Expire(t) /\ UNCHANGED <<tableVars, store, page, call, calm>>

Next ==
  \/ \E c \in Calls : ServeAuth(c) \/ ServeList(c) \/ ServeWrite(c) \/ Reject(c) \/ Callback(c)
  \/ \E tab \in Tabs : Login(tab) \/ signOut(tab) \/ addTask(tab) \/ Load(tab)
  \/ \E tab \in Tabs : \E i \in DOMAIN page[tab].shown : toggle(tab, i) \/ remove(tab, i)
  \/ \E t \in DOMAIN tokens : ExpireToken(t)

Spec == Init /\ [][Next]_vars

-----------------------------------------------------------------------------
(***************************************************************************)
(* Properties.                                                             *)
(***************************************************************************)
\* However signups race or fail, whoever signs in with one address gets the
\* tokens of one and the same account (signup, the UNIQUE column email).
OneAccount ==
  \A t1, t2 \in DOMAIN tokens :
    users[Subject(t1)].email = users[Subject(t2)].email => Subject(t1) = Subject(t2)

\* Whatever answers come late and in whatever order, a page that shows an
\* address holds a token of the account of that address, and so does the storage
\* from which the next page is loaded (login and the first effect of page.tsx).
IdentityShown ==
  \A session \in {store} \cup {page[tab].session : tab \in Tabs} :
    session.token # NoToken => users[Subject(session.token)].email = session.email

\* A row changes only on behalf of a command that was given on a page showing
\* the address of the row's owner, although the page may list the rows of
\* another account (a late answer) and the command be served when its page has
\* long changed hands (page.tsx 71-108, the WHERE clauses of tasks-svc).
ChangedByItsOwner ==
  [][\A id \in TaskIds : tasks'[id] # tasks[id] =>
       LET u == IF tasks[id] = NoTask THEN tasks'[id].user ELSE tasks[id].user
       IN  \E c \in Calls : /\ call[c].at = "sent" /\ call'[c] # call[c]
                            /\ call[c].kind \in Writes
                            /\ call[c].email = users[u].email]_vars

\* The page shows all rows of its account when it awaits nothing, if since
\* signing in or loading no request has failed, no list was cut by its LIMIT, no
\* other page has changed the account's tasks, no command was given before the
\* list was there and no row was toggled twice at once.  These are the cases the
\* callbacks of page.tsx do not provide for.
CalmPageIsCurrent ==
  \A tab \in Tabs :
    calm[tab] /\ Token(tab) # NoToken /\ InFlight(tab) = {} =>
      LET shown == page[tab].shown
          own   == ownTasks(Subject(Token(tab)))
      IN  /\ {shown[i] : i \in DOMAIN shown} = {own[i] : i \in DOMAIN own}
          /\ Len(shown) = Len(own)
==============================================================================
