----------------------------- MODULE QuestionDesk -----------------------------
(***************************************************************************)
(* What the Slack bot promises to the people who type /ai, with no pod,    *)
(* event loop or model in sight: a command is turned away at once or       *)
(* accepted; an accepted question gets one follow-up, an answer or an      *)
(* apology; a mishap abandons questions for good, but never one that has   *)
(* been settled, and a settled question is not settled again.              *)
(***************************************************************************)
CONSTANT Questions

VARIABLE desk  \* what has become of each question

deskVars == <<desk>>

Settled == {"answered", "apologised"}
DeskStates == Settled \cup {"new", "turned away", "open", "abandoned"}

DeskInit == desk = [q \in Questions |-> "new"]

Move(q, from, to) == desk[q] = from /\ desk' = [desk EXCEPT ![q] = to]

TurnAway(q) == Move(q, "new", "turned away")
Accept(q)   == Move(q, "new", "open")
Settle(q)   == \E how \in Settled : Move(q, "open", how)

\* One mishap can hit several open questions, and commands that nobody has read.
Abandon(some) ==
  /\ \A q \in some : desk[q] \in {"new", "open"}
  /\ desk' = [q \in Questions |-> IF q \in some THEN "abandoned" ELSE desk[q]]

DeskNext ==
  \/ \E q \in Questions : TurnAway(q) \/ Accept(q) \/ Settle(q)
  \/ \E some \in SUBSET Questions : Abandon(some)

DeskSafety == DeskInit /\ [][DeskNext]_deskVars

\* A question that is accepted does not stay open.
NothingStaysOpen ==
  \A q \in Questions : desk[q] = "open" ~> desk[q] \in Settled \cup {"abandoned"}

DeskSpec == DeskSafety /\ NothingStaysOpen
===============================================================================
