----------------------------- MODULE ReleaseFlow -----------------------------
(***************************************************************************)
(* What the workflows promise together, with no job, checkout or push in   *)
(* sight: every environment runs, per service, one trusted (signed) image; *)
(* images enter at dev one service at a time, and an environment is        *)
(* promoted as a whole, in one step, to what the environment before it     *)
(* runs at that moment.                                                    *)
(***************************************************************************)
CONSTANTS Svcs, Promotable, Images, NoImage

VARIABLES
  runs,    \* runs[e][s]: the image of service s that environment e declares
  trusted  \* trusted[s]: the images of s that are signed

flowVars == <<runs, trusted>>

Stages == {"dev", "qa", "uat", "prod"}

FlowInit ==
  /\ runs = [e \in Stages |-> [s \in Svcs |-> NoImage]]
  /\ trusted = [s \in Svcs |-> {}]

Trust(s, d) ==
  /\ trusted' = [trusted EXCEPT ![s] = @ \cup {d}]
  /\ UNCHANGED runs

Bump(s, d) ==
  /\ d \in trusted[s]
  /\ runs' = [runs EXCEPT !["dev"][s] = d]
  /\ UNCHANGED trusted

\* qa follows dev where dev runs anything.
Nightly ==
  /\ runs' = [runs EXCEPT !["qa"] = [s \in Svcs |->
                IF s \in Promotable /\ runs["dev"][s] # NoImage
                  THEN runs["dev"][s] ELSE @[s]]]
  /\ UNCHANGED trusted

Release(from, to) ==
  /\ \A s \in Promotable : runs[from][s] \in trusted[s]
  /\ runs' = [runs EXCEPT ![to] = [s \in Svcs |->
                IF s \in Promotable THEN runs[from][s] ELSE @[s]]]
  /\ UNCHANGED trusted

\* By hand, one service of one environment goes back to a trusted image.
Rollback(e, s, d) ==
  /\ d \in trusted[s]
  /\ runs' = [runs EXCEPT ![e][s] = d]
  /\ UNCHANGED trusted

FlowNext ==
  \/ \E s \in Svcs, d \in Images : Trust(s, d) \/ Bump(s, d)
  \/ Nightly
  \/ Release("qa", "uat")
  \/ Release("uat", "prod")
  \/ \E e \in Stages, s \in Svcs, d \in Images : Rollback(e, s, d)

FlowSpec == FlowInit /\ [][FlowNext]_flowVars
==============================================================================
