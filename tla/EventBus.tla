------------------------------- MODULE EventBus -------------------------------
(***************************************************************************)
(* What the task events promise to a reader of the comments in tasks-svc   *)
(* and notifier-svc, with no server, pod or acknowledgement in sight: an   *)
(* at-least-once bus.  An event is published once; it may be recorded as a *)
(* notification several times; and the bus forgets it ("settles" it) only  *)
(* after it has been recorded.                                             *)
(***************************************************************************)
EXTENDS Naturals

CONSTANTS Events, Places

VARIABLES
  published,  \* the events put on the bus
  recorded,   \* recorded[x][e]: how often event e was recorded at place x
  settled     \* the events the bus will not hand out again

busVars == <<published, recorded, settled>>

Recorded(e) == \E x \in Places : recorded[x][e] > 0

BusInit ==
  /\ published = {}
  /\ recorded = [x \in Places |-> [e \in Events |-> 0]]
  /\ settled = {}

Publish(e) ==
  /\ e \notin published
  /\ published' = published \cup {e}
  /\ UNCHANGED <<recorded, settled>>

Record(e, x) ==
  /\ e \in published
  /\ recorded' = [recorded EXCEPT ![x][e] = @ + 1]
  /\ UNCHANGED <<published, settled>>

Settle(e) ==
  /\ Recorded(e)
  /\ settled' = settled \cup {e}
  /\ UNCHANGED <<published, recorded>>

BusNext == \E e \in Events : Publish(e) \/ Settle(e) \/ \E x \in Places : Record(e, x)

BusSafety == BusInit /\ [][BusNext]_busVars

\* The "eventual consistency" of the comments.
AtLeastOnce == \A e \in Events : e \in published ~> Recorded(e)

BusSpec == BusSafety /\ AtLeastOnce
==============================================================================
