-------------------------- MODULE MCGitopsPipeline --------------------------
(***************************************************************************)
(* Small instances of GitopsPipeline for TLC.                              *)
(***************************************************************************)
EXTENDS GitopsPipeline

CONSTANTS s1, s2, nightly, rc, stable

\* Every commit touches every service.
TouchAll == [c \in Commits |-> Svcs]

TargetOf == [j \in Jobs |-> CASE j = nightly -> "qa"
                              [] j = rc      -> "uat"
                              [] j = stable  -> "prod"]
==============================================================================
