----------------------------- MODULE AuthService -----------------------------
(***************************************************************************)
(* auth-svc: the table users and the tokens it issues.                     *)
(*                                                                         *)
(* A handler runs one SQL statement, and accounts are neither changed nor  *)
(* deleted, so a handler is one action.  A password stands for its hash.   *)
(* The module says what a handler does and which token it answers with     *)
(* (NoToken: an error); who calls it is said in TasksPage.  The route me   *)
(* changes nothing and nothing in the repository calls it.                 *)
(***************************************************************************)
EXTENDS Naturals, Sequences

CONSTANTS
  Emails,
  Passwords,
  MaxUsers,   \* bound: how many values of the BIGSERIAL users.id are drawn
  MaxTokens,  \* bound: how many tokens are issued
  MaxFaults,  \* bound: failures of statements and of the network, and expirations
  NoUser      \* no row

Credentials == [email : Emails, password : Passwords]
UserIds     == 1..MaxUsers
NoToken     == 0

ASSUME AuthAssumption ==
  /\ MaxUsers \in Nat
  /\ MaxTokens \in Nat
  /\ MaxFaults \in Nat
  /\ NoUser \notin Credentials

VARIABLES
  users,   \* table users: the address and password of each id
  drawn,   \* the last value drawn from the serial
  tokens,  \* the tokens issued: their subject, and whether they have not expired
  budget   \* failures still to come

accountVars == <<users, drawn>>
authVars    == <<accountVars, tokens, budget>>

AuthTypeOK ==
  /\ users \in [UserIds -> Credentials \cup {NoUser}]
  /\ drawn \in 0..MaxUsers
  /\ tokens \in Seq([user : UserIds, live : BOOLEAN])
  /\ Len(tokens) <= MaxTokens
  /\ budget \in 0..MaxFaults

AuthInit ==
  /\ users = [u \in UserIds |-> NoUser]
  /\ drawn = 0
  /\ tokens = <<>>
  /\ budget = MaxFaults

Fault   == budget > 0 /\ budget' = budget - 1
NoFault == UNCHANGED budget

Accounts == {u \in UserIds : users[u] # NoUser}

FindByEmail(email) == {u \in Accounts : users[u].email = email}

issueAndRespond(u, token) ==
  /\ Len(tokens) < MaxTokens
  /\ tokens' = Append(tokens, [user |-> u, live |-> TRUE])
  /\ token = Len(tokens) + 1

Refuse(token) == token = NoToken /\ UNCHANGED tokens

\* Mutant of CreateUser: the column email is not UNIQUE.
CreateUser_twice(cred) ==
  /\ drawn < MaxUsers
  /\ drawn' = drawn + 1
  /\ users' = [users EXCEPT ![drawn + 1] = cred]

\* The INSERT draws an id, also when the UNIQUE constraint then refuses it.
CreateUser(cred) ==
  /\ drawn < MaxUsers
  /\ drawn' = drawn + 1
  /\ users' = IF FindByEmail(cred.email) # {}
                THEN users
                ELSE [users EXCEPT ![drawn + 1] = cred]

\* An INSERT that fails may have created the account all the same.
signup(cred, token) ==
  \/ /\ CreateUser(cred)
     /\ IF users' # users THEN issueAndRespond(drawn', token) ELSE Refuse(token)
     /\ NoFault
  \/ /\ Fault
     /\ CreateUser(cred) \/ UNCHANGED accountVars
     /\ Refuse(token)

login(cred, token) ==
  /\ LET matching == {u \in FindByEmail(cred.email) : users[u].password = cred.password}
     IN  \/ \E u \in matching : issueAndRespond(u, token) /\ NoFault
         \/ matching = {} /\ Refuse(token) /\ NoFault
         \/ Fault /\ Refuse(token)
  /\ UNCHANGED accountVars

\* The lifetime of token t ends.
Expire(t) ==
  /\ tokens[t].live
  /\ Fault
  /\ tokens' = [tokens EXCEPT ![t].live = FALSE]
  /\ UNCHANGED accountVars

\* The check of a token, in auth-svc and in the authMW of tasks-svc.
Valid(t)   == t # NoToken /\ tokens[t].live
Subject(t) == tokens[t].user
==============================================================================
