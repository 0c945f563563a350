----------------------------- MODULE MCTasksPage -----------------------------
(***************************************************************************)
(* Small instances of TasksPage for TLC.                                   *)
(***************************************************************************)
EXTENDS TasksPage, TLC

PageSymmetry == Permutations(Tabs) \cup Permutations(Calls) \cup Permutations(Emails)

OneTabSignedIn ==
  Cardinality({tab \in Tabs : Token(tab) # NoToken}) <= 1

\* A second task, so that a list can be cut, is looked at with one account, one
\* token, one tab that uses it and no failure; everything else with one task.
SecondTask ==
  drawnTask + Cardinality({c \in Calls : call[c].at = "sent" /\ call[c].kind = "create"}) > 1

TwoTasksAlone ==
  SecondTask => drawn = 1 /\ Len(tokens) = 1 /\ budget = MaxFaults /\ OneTabSignedIn

\* After a failure, two tabs are signed in at once as long as there are not both
\* accounts and both tokens.
FailureApart ==
  budget < MaxFaults /\ drawn = MaxUsers /\ Len(tokens) = MaxTokens => OneTabSignedIn
==============================================================================
