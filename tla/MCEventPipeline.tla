--------------------------- MODULE MCEventPipeline ---------------------------
(***************************************************************************)
(* Small instances of EventPipeline for TLC.                               *)
(***************************************************************************)
EXTENDS EventPipeline, TLC

CONSTANTS tp1, tp2, np1, np2, c1, dev, qa

\* One environment.
EnvOfOne == [p \in TasksPods \cup NotifierPods |-> dev]
ClientEnvOne == [c \in Clients |-> dev]

\* Two environments of the non-production cluster: tp1 and np1 run in dev.
EnvOfTwo == [p \in TasksPods \cup NotifierPods |-> IF p \in {tp1, np1} THEN dev ELSE qa]

Symmetric == Permutations(Requests) \cup Permutations(NotifierPods) \cup Permutations(TasksPods)
==============================================================================
