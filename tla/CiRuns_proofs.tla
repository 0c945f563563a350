------------------------------ MODULE CiRuns_proofs ------------------------------
(***************************************************************************)
(* Proofs about the CI runs of GitopsPipeline: when dev ends with the      *)
(* newest image, and when the attempts of the bump loop are enough.        *)
(* Neither holds always: two runs of one service may land in the wrong     *)
(* order, and enough writers of main exhaust the attempts.  The properties *)
(* say in which states they do.                                            *)
(***************************************************************************)
EXTENDS GitopsPipeline_proofs, FiniteSetTheorems

\* The CI runs a workflow's path filter lets start.
TouchedRuns == {r \in Svcs \X Commits : r[1] \in Touches[r[2]]}

-----------------------------------------------------------------------------
(***************************************************************************)
(* One run, one step.                                                      *)
(***************************************************************************)
\* What the assignments to ci make of the run they are about.
LEMMA RunGoto ==
  ASSUME TypeOK, NEW s \in Svcs, NEW c \in Commits, NEW state, CiGoto(s, c, state)
  PROVE  ci'[s][c].at = state /\ ci'[s][c].attempt = 1
BY DEF TypeOK, CiGoto

LEMMA RunAssigned ==
  ASSUME TypeOK, NEW s \in Svcs, NEW c \in Commits
  PROVE  /\ ci' = [ci EXCEPT ![s][c].at = "push", ![s][c].base = Len(log)] =>
              /\ ci'[s][c].at = "push"
              /\ ci'[s][c].attempt = ci[s][c].attempt
              /\ ci'[s][c].base = Len(log)
         /\ ci' = [ci EXCEPT ![s][c].at = "bump", ![s][c].attempt = @ + 1,
                             ![s][c].base = 0] =>
              /\ ci'[s][c].at = "bump"
              /\ ci'[s][c].attempt = ci[s][c].attempt + 1
<1>1. /\ ci \in [Svcs -> [Commits -> CiRun(Len(log))]]
      /\ ci[s][c] \in CiRun(Len(log))
  BY TypesUnfold DEF TypesAt, CiRuns
<1>2. ASSUME ci' = [ci EXCEPT ![s][c].at = "push", ![s][c].base = Len(log)]
      PROVE  ci'[s][c] = [ci[s][c] EXCEPT !.at = "push", !.base = Len(log)]
  BY <1>1, <1>2
<1>3. ASSUME ci' = [ci EXCEPT ![s][c].at = "bump", ![s][c].attempt = @ + 1,
                              ![s][c].base = 0]
      PROVE  ci'[s][c] = [ci[s][c] EXCEPT !.at = "bump", !.attempt = @ + 1, !.base = 0]
  BY <1>1, <1>3
<1> QED
  BY <1>1, <1>2, <1>3 DEF CiRun

\* Only its own steps, or the merge that starts it, change a run.
LEMMA OwnSteps ==
  ASSUME GitopsAssumption, TypeOK, [Next]_vars, NEW s \in Svcs, NEW c \in Commits
  PROVE  \/ ci'[s][c] = ci[s][c]
         \/ Merge /\ c = merged + 1 /\ s \in Touches[c] /\ ci'[s][c].at = "build"
         \/ CiStep(s, c)
         \/ Rerun(s, c)
<1>1. ci \in CiRuns(Len(log)) /\ merged \in Nat
  BY TypesUnfold DEF TypesAt
<1>2. CASE UNCHANGED ci
  BY <1>2
<1>3. CASE Merge
  BY <1>1, <1>3 DEF Merge, CiRuns, CiRun
<1>4. ASSUME NEW q \in Svcs, NEW d \in Commits, CiStep(q, d) \/ Rerun(q, d),
             ~(q = s /\ d = c)
      PROVE  ci'[s][c] = ci[s][c]
  <2>1. ASSUME NEW state, CiGoto(q, d, state)
        PROVE  ci'[s][c] = ci[s][c]
    BY <1>1, <1>4, <2>1 DEF CiGoto, CiRuns
  <2>2. ASSUME ci' = [ci EXCEPT ![q][d].at = "push", ![q][d].base = Len(log)]
        PROVE  ci'[s][c] = ci[s][c]
    BY <1>1, <1>4, <2>2 DEF CiRuns
  <2>3. ASSUME NextAttempt(q, d)
        PROVE  ci'[s][c] = ci[s][c]
    <3>1. ASSUME ci' = [ci EXCEPT ![q][d].at = "bump", ![q][d].attempt = @ + 1,
                                  ![q][d].base = 0]
          PROVE  ci'[s][c] = ci[s][c]
      BY <1>1, <1>4, <3>1 DEF CiRuns
    <3> QED
      BY <2>1, <2>3, <3>1 DEF NextAttempt
  <2>4. ASSUME Rerun(q, d)
        PROVE  ci'[s][c] = ci[s][c]
    BY <1>1, <1>4, <2>4 DEF Rerun, CiRuns
  <2> QED
    BY <1>4, <2>1, <2>2, <2>3, <2>4 DEF CiStep, BuildAndPush, SignAndAttest,
       BumpFetch, BumpPush
<1> QED
  BY <1>2, <1>3, <1>4 DEF Next, vars, Trigger, JobStep, Review, Checkout, Verify,
     PushPromotion, PinPrevious

\* Only a merge merges.
LEMMA MergeSteps ==
  ASSUME [Next]_vars
  PROVE  Merge \/ UNCHANGED merged
BY DEF Next, vars, CiStep, BuildAndPush, SignAndAttest, BumpFetch, BumpPush, Rerun,
   Trigger, JobStep, Review, Checkout, Verify, PushPromotion, PinPrevious

\* A run is started by the merge of its commit, for the services the commit
\* touches, and never forgotten.
Started ==
  \A s \in Svcs, c \in Commits :
    ci[s][c].at # "none" <=> c <= merged /\ s \in Touches[c]

LEMMA StartedStep ==
  ASSUME GitopsAssumption, TypeOK, Started, [Next]_vars
  PROVE  Started'
<1>1. ci \in CiRuns(Len(log)) /\ merged \in Nat
  BY TypesUnfold DEF TypesAt
<1>2. ASSUME NEW s \in Svcs, NEW c \in Commits
      PROVE  ci'[s][c].at # "none" <=> c <= merged' /\ s \in Touches[c]
  <2>0. /\ ci[s][c].at # "none" <=> c <= merged /\ s \in Touches[c]
        /\ c \in Nat
    BY DEF Started, Commits
  <2>1. CASE Merge
    <3>1. merged' = merged + 1
      BY <2>1 DEF Merge
    <3>2. CASE c = merged + 1 /\ s \in Touches[c]
      <4>1. ci'[s][c].at = "build"
        BY <1>1, <2>1, <3>2 DEF Merge, CiRuns, CiRun
      <4> QED
        BY <1>1, <3>1, <3>2, <4>1
    <3>3. CASE ~(c = merged + 1 /\ s \in Touches[c])
      <4>1. ci'[s][c] = ci[s][c]
        BY <1>1, <2>1, <3>3 DEF Merge, CiRuns, CiRun
      <4> QED
        BY <1>1, <2>0, <3>1, <3>3, <4>1
    <3> QED
      BY <3>2, <3>3
  <2>2. CASE UNCHANGED merged
    <3>1. CASE ci'[s][c] = ci[s][c]
      BY <2>0, <2>2, <3>1
    <3>2. CASE CiStep(s, c) \/ Rerun(s, c)
      <4>1. ci[s][c].at # "none"
        BY <3>2 DEF CiStep, BuildAndPush, SignAndAttest, BumpFetch, BumpPush, Rerun
      <4>2. ci'[s][c].at # "none"
        <5>1. CASE Rerun(s, c)
          BY <1>1, <5>1 DEF Rerun, CiRuns
        <5>2. CASE CiStep(s, c)
          <6>1. ASSUME NEW state, CiGoto(s, c, state)
                PROVE  ci'[s][c].at = state
            BY <6>1, RunGoto
          <6>2. NextAttempt(s, c) => ci'[s][c].at \in {"bump", "failed"}
            BY <6>1, RunAssigned DEF NextAttempt
          <6>3. ci' = [ci EXCEPT ![s][c].at = "push", ![s][c].base = Len(log)]
                  => ci'[s][c].at = "push"
            BY RunAssigned
          <6> QED
            BY <5>2, <6>1, <6>2, <6>3 DEF CiStep, BuildAndPush, SignAndAttest,
               BumpFetch, BumpPush
        <5> QED
          BY <3>2, <5>1, <5>2
      <4> QED
        BY <2>0, <2>2, <4>1, <4>2
    <3>3. CASE Merge
      BY <2>1, <3>3
    <3> QED
      BY <3>1, <3>2, <3>3, OwnSteps
  <2> QED
    BY <2>1, <2>2, MergeSteps
<1> QED
  BY <1>2 DEF Started

LEMMA StartedAlways == Safety => []Started
<1>1. Init => Started
  BY DEF Init, Started, Commits
<1>2. IInv /\ Started /\ [Next]_vars => Started'
  BY GitopsAssumption, StartedStep DEF IInv
<1> QED
  BY <1>1, <1>2, Invariant, PTL DEF Safety

-----------------------------------------------------------------------------
(***************************************************************************)
(* The newest image in dev.  Only a bump and a pin write a service in dev; *)
(* and while a service is not raced, no run of it is open but that of its  *)
(* newest merge.                                                           *)
(***************************************************************************)
NewestIsAlone ==
  \A s \in Svcs \ raced, c, d \in Commits : Newest(s, c) /\ Open(s, d) => c = d

LEMMA OneNewest ==
  ASSUME GitopsAssumption, TypeOK, NEW s \in Svcs, NEW c \in Commits, NEW d \in Commits,
         Newest(s, c), Newest(s, d)
  PROVE  c = d
<1>1. c \in Nat /\ d \in Nat
  BY DEF Commits
<1> QED
  BY <1>1 DEF Newest

\* What a step does to the newest merge of a service.
LEMMA NewestSteps ==
  ASSUME GitopsAssumption, TypeOK, [Next]_vars, NEW s \in Svcs, NEW c \in Commits,
         Newest(s, c)'
  PROVE  \/ Newest(s, c) /\ (Merge => s \notin Touches[merged + 1])
         \/ Merge /\ c = merged + 1 /\ s \in Touches[c]
<1>1. merged \in Nat /\ c \in Nat /\ merged <= MaxCommits /\ MaxCommits \in Nat
  BY DEF TypeOK, GitopsAssumption, Commits
<1>2. /\ c <= merged' /\ s \in Touches[c]
      /\ \A later \in Commits : later > c /\ later <= merged' => s \notin Touches[later]
  BY DEF Newest
<1>3. CASE Merge
  <2>1. merged' = merged + 1 /\ merged + 1 \in Commits
    BY <1>1, <1>3 DEF Merge, Commits
  <2>2. CASE c = merged + 1
    BY <1>2, <1>3, <2>2
  <2>3. CASE c <= merged
    <3>1. s \notin Touches[merged + 1]
      BY <1>1, <1>2, <2>1, <2>3
    <3>2. \A later \in Commits : later > c /\ later <= merged => s \notin Touches[later]
      <4>1. \A later \in Commits : later \in Nat
        BY DEF Commits
      <4> QED
        BY <1>1, <1>2, <2>1, <4>1
    <3> QED
      BY <1>2, <2>3, <3>1, <3>2 DEF Newest
  <2> QED
    BY <1>1, <1>2, <2>1, <2>2, <2>3
<1>4. CASE UNCHANGED merged
  <2>1. ~ Merge
    BY <1>1, <1>4 DEF Merge
  <2> QED
    BY <1>2, <1>4, <2>1 DEF Newest
<1> QED
  BY <1>3, <1>4, MergeSteps

\* A service in dev is written by a bump of its own, or by a pin.
LEMMA DevWrites ==
  ASSUME GitopsAssumption, TypeOK, [Next]_vars, NEW s \in Svcs
  PROVE  \/ Main'["dev"][s] = Main["dev"][s]
         \/ \E c \in Commits : BumpPush(s, c) /\ Main'["dev"][s] = OwnRef(s, c)
         \/ s \in raced'
<1>1. log \in Seq(Overlays) /\ log # <<>> /\ Main \in Overlays /\ "dev" \in Envs
  BY MainTyped DEF TypeOK, Envs
<1>2. CASE UNCHANGED log
  BY <1>2 DEF Main
<1>3. ASSUME NEW e \in Envs, NEW q \in Svcs, NEW ref \in Refs,
             log' = Append(log, [Main EXCEPT ![e][q] = ref])
      PROVE  Main'["dev"][s] = IF e = "dev" /\ q = s THEN ref ELSE Main["dev"][s]
  <2>1. Main' = [Main EXCEPT ![e][q] = ref]
    BY <1>1, <1>3, AppendFacts, OneRefTyped
  <2> QED
    BY <1>1, <2>1 DEF Overlays
<1>4. CASE Merge
  <2>1. Main' = Main
    BY <1>1, <1>4, AppendFacts DEF Merge
  <2> QED
    BY <2>1
<1>5. ASSUME NEW q \in Svcs, NEW c \in Commits, BumpPush(q, c), ~ UNCHANGED log
      PROVE  \/ Main'["dev"][s] = Main["dev"][s]
             \/ q = s /\ Main'["dev"][s] = OwnRef(s, c)
  <2>1. log' = Append(log, [Main EXCEPT !["dev"][q] = OwnRef(q, c)])
    BY <1>5 DEF BumpPush, Accepted
  <2>2. OwnRef(q, c) \in Refs
    BY OwnRefTyped DEF TypeOK
  <2> QED
    BY <1>1, <1>3, <2>1, <2>2
<1>6. ASSUME NEW j \in Jobs, PushPromotion(j), ~ UNCHANGED log
      PROVE  Main'["dev"][s] = Main["dev"][s]
  <2>1. Target[j] \in Downstream /\ Target[j] # "dev"
    BY DEF GitopsAssumption, Downstream
  <2>2. log' = Append(log, Promoted(Target[j], Main))
    BY <1>6 DEF PushPromotion, Accepted, Main
  <2>3. Main' = Promoted(Target[j], Main)
    BY <1>1, <2>1, <2>2, AppendFacts, PromotedTyped
  <2>4. Promoted(Target[j], Main)["dev"] = Main["dev"]
    BY <1>1, <2>1 DEF Promoted, Overlays
  <2> QED
    BY <2>3, <2>4
<1>7. ASSUME NEW e \in Envs, NEW q \in Svcs, PinPrevious(e, q)
      PROVE  Main'["dev"][s] = Main["dev"][s] \/ s \in raced'
  <2>0. PICK i \in 1..Len(log) : \E d \in {log[i][e][q].digest, Main[e][q].digest} :
          log' = Append(log, [Main EXCEPT ![e][q] = [tag |-> log[i][e][q].tag, digest |-> d]])
    BY <1>7 DEF PinPrevious
  <2>1. PICK d \in {log[i][e][q].digest, Main[e][q].digest} :
          log' = Append(log, [Main EXCEPT ![e][q] = [tag |-> log[i][e][q].tag, digest |-> d]])
    BY <2>0
  <2>2. [tag |-> log[i][e][q].tag, digest |-> d] \in Refs
    <3>1. log[i] \in Overlays
      BY <1>1
    <3> QED
      BY <1>1, <3>1, RefsTyped DEF Refs
  <2>3. e = "dev" /\ q = s => s \in raced'
    BY <1>7 DEF PinPrevious
  <2> QED
    BY <1>3, <2>1, <2>2, <2>3
<1> QED
  BY <1>2, <1>4, <1>5, <1>6, <1>7, Frames

LEMMA AloneStep ==
  ASSUME GitopsAssumption, TypeOK, Started, NewestIsAlone, [Next]_vars
  PROVE  NewestIsAlone'
<1> SUFFICES ASSUME NEW s \in Svcs, s \notin raced', NEW c \in Commits, NEW d \in Commits,
                    Newest(s, c)', Open(s, d)', c # d
             PROVE  FALSE
  BY DEF NewestIsAlone
<1>1. s \notin raced
  BY HistoryGrows
<1>2. CASE Merge /\ c = merged + 1 /\ s \in Touches[c]
  <2>1. ci'[s][d] = ci[s][d]
    BY <1>2 DEF Merge, TypeOK
  <2>2. Open(s, d)
    BY <2>1 DEF Open
  <2> QED
    BY <1>2, <2>2 DEF Merge
<1>3. CASE Newest(s, c) /\ (Merge => s \notin Touches[merged + 1])
  <2>1. ~ Open(s, d)
    BY <1>1, <1>3 DEF NewestIsAlone
  <2>2. ci'[s][d] # ci[s][d]
    BY <2>1 DEF Open
  <2>3. ~ CiStep(s, d)
    BY <2>1 DEF CiStep, BuildAndPush, SignAndAttest, BumpFetch, BumpPush, Open
  <2>4. Rerun(s, d)
    BY <1>3, <2>2, <2>3, OwnSteps
  <2>5. Newest(s, d)
    BY <2>4 DEF Rerun
  <2> QED
    BY <1>3, <2>5, OneNewest
<1> QED
  BY <1>2, <1>3, NewestSteps

LEMMA NewestStep ==
  ASSUME GitopsAssumption, IInv, Started, NewestIsAlone, NewestUnlessRaced, [Next]_vars
  PROVE  NewestUnlessRaced'
<1>0. TypeOK /\ Built /\ RegistryStep
  BY RegistryGrows DEF IInv
<1> SUFFICES ASSUME botToken, NEW s \in Svcs, s \notin raced', NEW c \in Commits,
                    Newest(s, c)', ci'[s][c].at = "ok"
             PROVE  Main'["dev"][s] = OwnRef(s, c)'
  BY <1>0, HistoryGrows DEF NewestUnlessRaced
<1>1. s \notin raced
  BY <1>0, HistoryGrows
<1>2. Newest(s, c)
  <2>1. ~(Merge /\ c = merged + 1 /\ s \in Touches[c])
    <3>1. ASSUME Merge, c = merged + 1, s \in Touches[c]
          PROVE  ci'[s][c].at = "build"
      BY <1>0, <3>1 DEF Merge, TypeOK
    <3> QED
      BY <3>1
  <2> QED
    BY <1>0, <2>1, NewestSteps
<1>3. ci[s][c].at \in {"bump", "push", "ok"}
  BY <1>0, CiMoves
<1>4. OwnRef(s, c)' = OwnRef(s, c)
  <2>1. image[s][c] # NoDigest
    BY <1>0, <1>3 DEF Built
  <2>2. image'[s][c] = image[s][c]
    BY <1>0, <2>1 DEF RegistryStep
  <2> QED
    BY <2>2 DEF OwnRef
<1>5. CASE ci[s][c].at = "ok"
  <2>1. Main["dev"][s] = OwnRef(s, c)
    BY <1>1, <1>2, <1>5 DEF NewestUnlessRaced
  <2>2. ASSUME NEW d \in Commits, BumpPush(s, d)
        PROVE  FALSE
    <3>1. Open(s, d) /\ d # c
      BY <1>5, <2>2 DEF BumpPush, Open
    <3> QED
      BY <1>1, <1>2, <3>1 DEF NewestIsAlone
  <2> QED
    BY <1>0, <1>4, <2>1, <2>2, DevWrites
<1>6. CASE BumpFetch(s, c) /\ ci[s][c].at = "bump"
  <2>1. Main["dev"][s] = OwnRef(s, c) /\ UNCHANGED log
    <3>1. /\ CiGoto(s, c, "failed") => ci'[s][c].at = "failed"
          /\ ci' = [ci EXCEPT ![s][c].at = "push", ![s][c].base = Len(log)]
               => ci'[s][c].at = "push"
      BY <1>0 DEF TypeOK, CiGoto
    <3> QED
      BY <1>6, <3>1 DEF BumpFetch
  <2> QED
    BY <1>4, <2>1 DEF Main
<1>7. CASE BumpPush(s, c)
  <2>1. log' = Append(log, [Main EXCEPT !["dev"][s] = OwnRef(s, c)])
    <3>1. /\ CiGoto(s, c, "failed") => ci'[s][c].at = "failed"
          /\ ci' = [ci EXCEPT ![s][c].at = "bump", ![s][c].attempt = @ + 1,
                              ![s][c].base = 0]
               => ci'[s][c].at = "bump"
      BY <1>0 DEF TypeOK, CiGoto
    <3> QED
      BY <1>7, <3>1 DEF BumpPush, NextAttempt, Accepted
  <2>2. Main \in Overlays /\ "dev" \in Envs
    BY <1>0, MainTyped DEF TypeOK, Envs
  <2>3. [Main EXCEPT !["dev"][s] = OwnRef(s, c)] \in Overlays
    BY <1>0, <2>2, OwnRefTyped, OneRefTyped DEF TypeOK
  <2>4. Main' = [Main EXCEPT !["dev"][s] = OwnRef(s, c)]
    BY <1>0, <2>1, <2>3, AppendFacts DEF TypeOK
  <2> QED
    BY <1>4, <2>2, <2>4 DEF Overlays
<1> QED
  BY <1>0, <1>3, <1>5, <1>6, <1>7, CiMoves

\* Once the run of a service's newest merge has succeeded, dev declares its
\* image, whatever fails, is promoted or is pinned elsewhere; unless two runs
\* of the service were open at a time, an older run of it was run again, or it
\* was pinned in dev.  (Then the older run may land last.)
THEOREM NewestUnlessRacing == Safety => []NewestUnlessRaced
<1>1. Init => NewestIsAlone /\ NewestUnlessRaced
  BY DEF Init, NewestIsAlone, NewestUnlessRaced, Open
<1>2. IInv /\ Started /\ NewestIsAlone /\ [Next]_vars => NewestIsAlone'
  BY GitopsAssumption, AloneStep DEF IInv
<1>3. IInv /\ Started /\ NewestIsAlone /\ NewestUnlessRaced /\ [Next]_vars
        => NewestUnlessRaced'
  BY GitopsAssumption, NewestStep
<1> QED
  BY <1>1, <1>2, <1>3, Invariant, StartedAlways, PTL DEF Safety

-----------------------------------------------------------------------------
(***************************************************************************)
(* The attempts are enough.  A run is rejected only if main has moved      *)
(* since it checked it out, so that it has seen one more commit for every  *)
(* attempt it made.                                                        *)
(***************************************************************************)
\* A run's image is not there before its build, and each attempt it made has
\* seen a commit of its own, after that of its merge.
AttemptsSeen ==
  \A s \in Svcs, c \in Commits :
    /\ ci[s][c].at \in {"none", "build"} => image[s][c] = NoDigest
    /\ ci[s][c].at = "bump" => ci[s][c].attempt + 1 <= Len(log)
    /\ ci[s][c].at = "push" => /\ ci[s][c].attempt + 1 <= ci[s][c].base
                               /\ ci[s][c].base <= Len(log)

NoneFailed == \A s \in Svcs, c \in Commits : ci[s][c].at # "failed"

\* Nothing has failed, and main has not grown by more than the attempts.
Quiet == budget = MaxFaults /\ Len(log) <= MaxAttempts + 1

RunsInv ==
  /\ merged + 1 <= Len(log)
  /\ Quiet => AttemptsSeen /\ NoneFailed

\* A failure is not forgotten.
LEMMA BudgetShrinks ==
  ASSUME [Next]_vars
  PROVE  UNCHANGED budget \/ Fault
<1>1. ASSUME NEW s \in Svcs, NEW c \in Commits,
             \/ BuildAndPush(s, c) \/ SignAndAttest(s, c)
             \/ BumpFetch(s, c) \/ BumpPush(s, c) \/ Rerun(s, c)
      PROVE  UNCHANGED budget \/ Fault
  BY <1>1 DEF BuildAndPush, SignAndAttest, BumpFetch, BumpPush, Rerun, NoFault
<1>2. ASSUME NEW j \in Jobs,
             Trigger(j) \/ Review(j) \/ Checkout(j) \/ Verify(j) \/ PushPromotion(j)
      PROVE  UNCHANGED budget \/ Fault
  BY <1>2 DEF Trigger, Review, Checkout, Verify, PushPromotion, NoFault
<1>3. ASSUME NEW e \in Envs, NEW s \in Svcs, PinPrevious(e, s)
      PROVE  UNCHANGED budget
  BY <1>3 DEF PinPrevious
<1>4. CASE Merge \/ UNCHANGED vars
  BY <1>4 DEF Merge, vars
<1> QED
  BY <1>1, <1>2, <1>3, <1>4, NextCases

LEMMA MergesGrowMain ==
  ASSUME GitopsAssumption, TypeOK, LogStep, merged + 1 <= Len(log), [Next]_vars
  PROVE  merged' + 1 <= Len(log')
<1>1. /\ Len(log) \in Nat /\ Len(log') \in Nat /\ Len(log) <= Len(log') /\ merged \in Nat
  BY LogGrows DEF TypeOK
<1>2. CASE Merge
  <2>1. merged' = merged + 1 /\ Len(log') = Len(log) + 1
    BY <1>2, AppendFacts, MainTyped DEF Merge, TypeOK
  <2> QED
    BY <1>1, <2>1
<1> QED
  BY <1>1, <1>2, MergeSteps

\* Without failures a run only waits for its turn: each rejection has seen a
\* commit more.
LEMMA AttemptsSeenStep ==
  ASSUME GitopsAssumption, IInv, Started, RunsInv, [Next]_vars, Quiet'
  PROVE  AttemptsSeen' /\ NoneFailed'
<1>a. /\ TypeOK /\ Verified /\ Built
      /\ merged + 1 <= Len(log)
      /\ LogStep
      /\ Len(log) \in Nat /\ Len(log') \in Nat /\ Len(log) <= Len(log')
      /\ MaxAttempts \in Nat /\ MaxFaults \in Nat
      /\ budget \in 0..MaxFaults /\ budget' = MaxFaults /\ Len(log') <= MaxAttempts + 1
  BY LogSteps, LogGrows DEF IInv, RunsInv, TypeOK, Quiet, GitopsAssumption
<1>b. ~ Fault
  BY <1>a DEF Fault
<1>c. Quiet
  BY <1>a, <1>b, BudgetShrinks DEF Quiet
<1>0. /\ TypeOK /\ Verified /\ Built /\ NoneFailed /\ AttemptsSeen
      /\ merged + 1 <= Len(log) /\ Len(log) <= MaxAttempts + 1
      /\ ~ Fault
  BY <1>a, <1>b, <1>c DEF RunsInv, Quiet
<1>1. LogStep
  BY <1>a
<1>2. /\ Len(log) \in Nat /\ Len(log') \in Nat /\ Len(log) <= Len(log')
      /\ merged \in Nat /\ MaxAttempts \in Nat
  BY <1>0, <1>1, LogGrows DEF TypeOK, GitopsAssumption
<1>3. ASSUME NEW s \in Svcs, NEW c \in Commits
      PROVE  image'[s][c] = image[s][c] \/ BuildAndPush(s, c)
  <2>1. image \in [Svcs -> [Commits -> Digests \cup {NoDigest}]]
    BY <1>0 DEF TypeOK
  <2>2. ASSUME NEW q \in Svcs, NEW d \in Commits, BuildAndPush(q, d),
               ~(q = s /\ d = c)
        PROVE  image'[s][c] = image[s][c]
    BY <2>1, <2>2 DEF BuildAndPush
  <2>3. ASSUME NEW q \in Svcs, NEW d \in Commits, SignAndAttest(q, d)
        PROVE  image'[s][c] = image[s][c]
    BY <2>3 DEF SignAndAttest
  <2> QED
    BY <2>2, <2>3, Frames
<1>4. ASSUME NEW s \in Svcs, NEW c \in Commits
      PROVE  /\ ci'[s][c].at # "failed"
             /\ ci'[s][c].at \in {"none", "build"} => image'[s][c] = NoDigest
             /\ ci'[s][c].at = "bump" => ci'[s][c].attempt + 1 <= Len(log')
             /\ ci'[s][c].at = "push" => /\ ci'[s][c].attempt + 1 <= ci'[s][c].base
                                         /\ ci'[s][c].base <= Len(log')
  <2>0. /\ ci[s][c].at # "failed"
        /\ ci[s][c].at \in {"none", "build"} => image[s][c] = NoDigest
        /\ ci[s][c].at = "bump" => ci[s][c].attempt + 1 <= Len(log)
        /\ ci[s][c].at = "push" => /\ ci[s][c].attempt + 1 <= ci[s][c].base
                                   /\ ci[s][c].base <= Len(log)
        /\ ci[s][c].attempt \in Nat /\ ci[s][c].base \in Nat
    BY <1>0 DEF NoneFailed, AttemptsSeen, TypeOK
  <2>1. ASSUME NEW state, CiGoto(s, c, state)
        PROVE  ci'[s][c].at = state /\ ci'[s][c].attempt = 1
    BY <1>0, <2>1, RunGoto
  <2>2. CASE BuildAndPush(s, c)
    <3>1. CiGoto(s, c, "sign")
      BY <1>0, <2>0, <2>2 DEF BuildAndPush
    <3>2. ci'[s][c].at = "sign"
      BY <2>1, <3>1
    <3> QED
      BY <3>2
  <2>3. CASE SignAndAttest(s, c)
    <3>1. CiGoto(s, c, "bump")
      BY <1>0, <2>3 DEF SignAndAttest
    <3>2. ci'[s][c].at = "bump" /\ ci'[s][c].attempt = 1
      BY <2>1, <3>1
    <3>3. 2 <= Len(log)
      <4>1. ci[s][c].at = "sign"
        BY <2>3 DEF SignAndAttest
      <4>2. c <= merged /\ c \in 1..MaxCommits
        BY <4>1 DEF Started, Commits
      <4>3. merged + 1 <= Len(log)
        BY <1>0
      <4> QED
        BY <1>2, <4>2, <4>3
    <3> QED
      BY <1>2, <3>2, <3>3
  <2>4. CASE BumpFetch(s, c)
    <3>1. \/ CiGoto(s, c, "ok")
          \/ ci' = [ci EXCEPT ![s][c].at = "push", ![s][c].base = Len(log)]
      BY <1>0, <2>4 DEF BumpFetch
    <3>2. CASE CiGoto(s, c, "ok")
      <4>1. ci'[s][c].at = "ok"
        BY <2>1, <3>2
      <4> QED
        BY <4>1
    <3>3. CASE ci' = [ci EXCEPT ![s][c].at = "push", ![s][c].base = Len(log)]
      <4>1. /\ ci'[s][c].at = "push"
            /\ ci'[s][c].attempt = ci[s][c].attempt
            /\ ci'[s][c].base = Len(log)
        BY <1>0, <3>3, RunAssigned
      <4>2. ci[s][c].attempt + 1 <= Len(log)
        BY <2>0, <2>4 DEF BumpFetch
      <4> QED
        BY <1>2, <4>1, <4>2
    <3> QED
      BY <3>1, <3>2, <3>3
  <2>5. CASE BumpPush(s, c)
    <3>1. \/ CiGoto(s, c, "ok")
          \/ ci[s][c].base # Len(log) /\ NextAttempt(s, c)
      BY <1>0, <2>5 DEF BumpPush
    <3>2. CASE CiGoto(s, c, "ok")
      <4>1. ci'[s][c].at = "ok"
        BY <2>1, <3>2
      <4> QED
        BY <4>1
    <3>3. CASE ci[s][c].base # Len(log) /\ NextAttempt(s, c)
      <4>1. ci[s][c].at = "push"
        BY <2>5 DEF BumpPush
      <4>2. ci[s][c].attempt + 2 <= Len(log)
        BY <1>2, <2>0, <3>3, <4>1
      <4>3. Len(log) <= MaxAttempts + 1
        BY <1>0
      <4>4. ci[s][c].attempt < MaxAttempts
        BY <1>2, <2>0, <4>2, <4>3
      <4>5. ci' = [ci EXCEPT ![s][c].at = "bump", ![s][c].attempt = @ + 1,
                             ![s][c].base = 0]
        BY <3>3, <4>4 DEF NextAttempt
      <4>6. ci'[s][c].at = "bump" /\ ci'[s][c].attempt = ci[s][c].attempt + 1
        BY <1>0, <4>5, RunAssigned
      <4> QED
        BY <1>2, <2>0, <4>2, <4>6
    <3> QED
      BY <3>1, <3>2, <3>3
  <2>6. CASE Merge /\ c = merged + 1 /\ ci'[s][c].at = "build"
    <3>1. ci[s][c].at = "none"
      BY <1>2, <2>6 DEF Started
    <3>2. image'[s][c] = image[s][c]
      BY <2>6 DEF Merge
    <3> QED
      BY <2>0, <2>6, <3>1, <3>2
  <2>7. CASE ci'[s][c] = ci[s][c] /\ ~ BuildAndPush(s, c)
    <3>1. image'[s][c] = image[s][c]
      BY <1>3, <2>7
    <3> QED
      BY <1>2, <2>0, <2>7, <3>1
  <2>8. ~ Rerun(s, c)
    BY <2>0 DEF Rerun
  <2>9. \/ ci'[s][c] = ci[s][c]
        \/ Merge /\ c = merged + 1 /\ ci'[s][c].at = "build"
        \/ CiStep(s, c)
        \/ Rerun(s, c)
    BY <1>0, OwnSteps
  <2>10. \/ ci'[s][c] = ci[s][c] /\ ~ BuildAndPush(s, c)
         \/ Merge /\ c = merged + 1 /\ ci'[s][c].at = "build"
         \/ BuildAndPush(s, c) \/ SignAndAttest(s, c)
         \/ BumpFetch(s, c) \/ BumpPush(s, c)
    BY ONLY <2>8, <2>9 DEF CiStep
  <2> QED
    BY ONLY <2>2, <2>3, <2>4, <2>5, <2>6, <2>7, <2>10
<1>5. AttemptsSeen'
  BY <1>4 DEF AttemptsSeen
<1>6. NoneFailed'
  BY <1>4 DEF NoneFailed
<1> QED
  BY <1>5, <1>6

\* No CI run fails while nothing else fails and main has not grown by more
\* commits than the bump loop has attempts, whatever the interleaving.
THEOREM AttemptsAreEnough == Safety => []NoRunFails
<1>1. Init => RunsInv
  BY GitopsAssumption DEF Init, RunsInv, AttemptsSeen, NoneFailed, GitopsAssumption
<1>2. IInv /\ Started /\ RunsInv /\ [Next]_vars => RunsInv'
  <2> SUFFICES ASSUME IInv, Started, RunsInv, [Next]_vars
               PROVE  RunsInv'
    OBVIOUS
  <2>1. merged' + 1 <= Len(log')
    BY GitopsAssumption, LogSteps, MergesGrowMain DEF RunsInv, IInv
  <2> QED
    BY <2>1, GitopsAssumption, AttemptsSeenStep DEF RunsInv
<1>3. RunsInv => NoRunFails
  BY DEF RunsInv, Quiet, NoneFailed, NoRunFails
<1> QED
  BY <1>1, <1>2, <1>3, Invariant, StartedAlways, PTL DEF Safety

-----------------------------------------------------------------------------
(***************************************************************************)
(* How much main can grow while a run is under way: by the merges, by the  *)
(* runs that landed (not this one), by the promotions that ended and by    *)
(* the pins, and by nothing else.                                          *)
(***************************************************************************)
Landed == {r \in Svcs \X Commits : ci[r[1]][r[2]].at = "ok"}
Ended  == {j \in Jobs : job[j].at \in {"ok", "failed"}}

\* Nothing but rejections makes a run try again, and the attempts are enough
\* for all the commits that others can make.
EnoughAttempts ==
  /\ MaxFaults = 0
  /\ IsFiniteSet(Svcs)
  /\ IsFiniteSet(Jobs)
  /\ Cardinality(TouchedRuns) + MaxCommits + Cardinality(Jobs) + MaxRollbacks
       <= MaxAttempts + 1

MainIsShort ==
  Len(log) <= 1 + merged + Cardinality(Landed) + Cardinality(Ended)
                + (MaxRollbacks - rollbacks)

LEMMA SetsFinite ==
  ASSUME GitopsAssumption, EnoughAttempts,
         NEW L \in SUBSET TouchedRuns, NEW E \in SUBSET Jobs
  PROVE  /\ IsFiniteSet(L) /\ IsFiniteSet(E)
         /\ Cardinality(L) \in Nat /\ Cardinality(L) <= Cardinality(TouchedRuns)
         /\ Cardinality(E) \in Nat /\ Cardinality(E) <= Cardinality(Jobs)
         /\ Cardinality(TouchedRuns) \in Nat /\ Cardinality(Jobs) \in Nat
         /\ L # TouchedRuns => Cardinality(L) < Cardinality(TouchedRuns)
<1>1. IsFiniteSet(Svcs) /\ IsFiniteSet(Jobs)
  BY DEF EnoughAttempts
<1>2. IsFiniteSet(Commits)
  <2>1. MaxCommits \in Nat /\ 1 \in Int /\ MaxCommits \in Int
    BY DEF GitopsAssumption
  <2>2. IsFiniteSet(1..MaxCommits)
    BY <2>1, FS_Interval
  <2> QED
    BY <2>2 DEF Commits
<1>3. IsFiniteSet(Svcs \X Commits)
  BY <1>1, <1>2, FS_Product
<1>4. TouchedRuns \subseteq Svcs \X Commits
  BY DEF TouchedRuns
<1>5. IsFiniteSet(TouchedRuns)
  BY <1>3, <1>4, FS_Subset
<1> HIDE DEF TouchedRuns
<1>6. /\ IsFiniteSet(L) /\ Cardinality(L) <= Cardinality(TouchedRuns)
      /\ Cardinality(L) = Cardinality(TouchedRuns) => L = TouchedRuns
  BY <1>5, FS_Subset
<1>7. IsFiniteSet(E) /\ Cardinality(E) <= Cardinality(Jobs)
  BY <1>1, FS_Subset
<1>8. /\ Cardinality(L) \in Nat /\ Cardinality(TouchedRuns) \in Nat
      /\ Cardinality(E) \in Nat /\ Cardinality(Jobs) \in Nat
  BY <1>1, <1>5, <1>6, <1>7, FS_CardinalityType
<1> QED
  BY <1>6, <1>7, <1>8

\* How the sets of the runs that landed and of the jobs that ended grow.
LEMMA LandedGrows ==
  ASSUME GitopsAssumption, TypeOK, Started, [Next]_vars
  PROVE  Landed \subseteq Landed'
<1>1. ASSUME NEW s \in Svcs, NEW c \in Commits, ci[s][c].at = "ok"
      PROVE  ci'[s][c].at = "ok"
  <2>1. ~ CiStep(s, c) /\ ~ Rerun(s, c)
    BY <1>1 DEF CiStep, BuildAndPush, SignAndAttest, BumpFetch, BumpPush, Rerun
  <2>2. ~ (c = merged + 1)
    <3>1. c <= merged
      BY <1>1 DEF Started
    <3> QED
      BY <3>1 DEF TypeOK, Commits, GitopsAssumption
  <2> QED
    BY <1>1, <2>1, <2>2, OwnSteps
<1> QED
  BY <1>1 DEF Landed

LEMMA EndedGrows ==
  ASSUME TypeOK, [Next]_vars
  PROVE  Ended \subseteq Ended'
<1>1. job \in JobRuns(Len(log))
  BY TypesUnfold DEF TypesAt
<1>2. ASSUME NEW j \in Jobs, job[j].at \in {"ok", "failed"}
      PROVE  job'[j] = job[j]
  <2>1. ASSUME NEW k \in Jobs, Trigger(k) \/ JobStep(k)
        PROVE  k # j
    <3>1. job[k].at \notin {"ok", "failed"}
      BY <2>1 DEF Trigger, JobStep, Review, Checkout, Verify, PushPromotion
    <3> QED
      BY <1>2, <3>1
  <2>2. ASSUME NEW k \in Jobs, Trigger(k) \/ JobStep(k)
        PROVE  job'[j] = job[j]
    <3>1. k # j
      BY <2>1, <2>2
    <3>2. \A state : JobGoto(k, state) \/ JobEnds(k, state) => job'[j] = job[j]
      BY <1>1, <3>1 DEF JobRuns, JobGoto, JobEnds
    <3>3. Trigger(k) \/ Checkout(k) => job'[j] = job[j]
      BY <1>1, <3>1, <3>2 DEF JobRuns, Trigger, Checkout
    <3> QED
      BY <2>2, <3>2, <3>3 DEF JobStep, Review, Verify, PushPromotion
  <2> QED
    BY <2>2, Frames DEF JobStep
<1> QED
  BY <1>2 DEF Ended

\* A set of CI runs, or of jobs, that grows by at least one.
LEMMA OneMore ==
  ASSUME NEW S, NEW T, IsFiniteSet(T), S \subseteq T
  PROVE  /\ Cardinality(S) <= Cardinality(T)
         /\ \A x \in T \ S : Cardinality(S) + 1 <= Cardinality(T)
<1>1. IsFiniteSet(S) /\ Cardinality(S) <= Cardinality(T)
  BY FS_Subset
<1>2. Cardinality(S) \in Nat /\ Cardinality(T) \in Nat
  BY <1>1, FS_CardinalityType
<1>3. Cardinality(S) = Cardinality(T) => S = T
  BY FS_Subset
<1> QED
  BY <1>1, <1>2, <1>3

\* Without failures, main grows by the merges, the runs that land, the
\* promotions that end and the pins.
LEMMA MainIsShortStep ==
  ASSUME GitopsAssumption, EnoughAttempts, IInv, Started, Started', MainIsShort,
         [Next]_vars
  PROVE  MainIsShort'
<1>0. /\ TypeOK /\ Verified /\ MainIsShort
      /\ budget = 0
      /\ ~ Fault
  BY DEF IInv, TypeOK, EnoughAttempts, Fault
<1>1. Landed \subseteq TouchedRuns /\ Landed' \subseteq TouchedRuns
  BY DEF Landed, TouchedRuns, Started
<1>2. Ended \subseteq Jobs /\ Ended' \subseteq Jobs
  BY DEF Ended
<1>3. Landed \subseteq Landed' /\ Ended \subseteq Ended'
  BY <1>0, LandedGrows, EndedGrows
<1>4. IsFiniteSet(Landed') /\ IsFiniteSet(Ended')
  BY <1>1, <1>2, SetsFinite
<1>5. PICK a \in Nat, b \in Nat, m \in Nat, n \in Nat :
        /\ a = Cardinality(Landed) /\ b = Cardinality(Landed')
        /\ m = Cardinality(Ended) /\ n = Cardinality(Ended')
  BY <1>1, <1>2, SetsFinite
<1>6. a <= b /\ m <= n
  BY <1>3, <1>4, <1>5, OneMore
<1>7. /\ Len(log) \in Nat /\ merged \in Nat
      /\ rollbacks \in 0..MaxRollbacks /\ MaxRollbacks \in Nat
  BY <1>0 DEF TypeOK, GitopsAssumption
<1>8. Len(log) <= 1 + merged + a + m + (MaxRollbacks - rollbacks)
  BY <1>0, <1>5 DEF MainIsShort
<1>9. SUFFICES Len(log') <= 1 + merged' + b + n + (MaxRollbacks - rollbacks')
  BY <1>5 DEF MainIsShort
<1>10. LogStep
  BY <1>0, LogSteps
<1>11. UNCHANGED log \/ Len(log') = Len(log) + 1
  BY <1>0, <1>10, LogGrows
<1>12. CASE Merge
  <2>1. merged' = merged + 1 /\ rollbacks' = rollbacks /\ Len(log') = Len(log) + 1
    BY <1>0, <1>12, AppendFacts, MainTyped DEF Merge, TypeOK
  <2> QED
    BY <1>6, <1>7, <1>8, <2>1
<1>13. ASSUME NEW e \in Envs, NEW s \in Svcs, PinPrevious(e, s)
       PROVE  Len(log') <= 1 + merged' + b + n + (MaxRollbacks - rollbacks')
  <2>1. merged' = merged /\ rollbacks' = rollbacks - 1
    BY <1>13 DEF PinPrevious
  <2> QED
    BY <1>6, <1>7, <1>8, <1>11, <2>1
<1>14. CASE UNCHANGED <<merged, rollbacks>>
  <2>1. CASE UNCHANGED log
    BY <1>6, <1>7, <1>8, <1>14, <2>1
  <2>2. ASSUME NEW s \in Svcs, NEW c \in Commits, BumpPush(s, c), ~ UNCHANGED log
        PROVE  a + 1 <= b
    <3>1. CiGoto(s, c, "ok") /\ ci[s][c].at = "push"
      BY <1>0, <2>2 DEF BumpPush
    <3>2. ci'[s][c].at = "ok"
      BY <1>0, <3>1, RunGoto
    <3>3. <<s, c>> \in Landed' \ Landed
      BY <3>1, <3>2 DEF Landed
    <3> QED
      BY <1>3, <1>4, <1>5, <3>3, OneMore
  <2>3. ASSUME NEW j \in Jobs, PushPromotion(j), ~ UNCHANGED log
        PROVE  m + 1 <= n
    <3>1. JobEnds(j, "ok") /\ job[j].at = "push"
      BY <1>0, <2>3 DEF PushPromotion
    <3>2. job'[j].at = "ok"
      BY <1>0, <3>1 DEF JobEnds, TypeOK
    <3>3. j \in Ended' \ Ended
      BY <3>1, <3>2 DEF Ended
    <3> QED
      BY <1>3, <1>4, <1>5, <3>3, OneMore
  <2>4. CASE ~ UNCHANGED log
    <3>1. a + 1 <= b \/ m + 1 <= n
      <4>1. ~ Merge
        BY <1>7, <1>14 DEF Merge
      <4>2. ASSUME NEW e \in Envs, NEW s \in Svcs
            PROVE  ~ PinPrevious(e, s)
        BY <1>7, <1>14 DEF PinPrevious
      <4> QED
        BY <2>2, <2>3, <2>4, <4>1, <4>2, Frames
    <3> QED
      BY <1>6, <1>7, <1>8, <1>11, <1>14, <2>4, <3>1
  <2> QED
    BY <2>1, <2>4
<1>15. \/ Merge
       \/ \E e \in Envs, s \in Svcs : PinPrevious(e, s)
       \/ UNCHANGED <<merged, rollbacks>>
  <2>1. ASSUME NEW s \in Svcs, NEW c \in Commits, CiStep(s, c) \/ Rerun(s, c)
        PROVE  UNCHANGED <<merged, rollbacks>>
    BY <2>1 DEF CiStep, BuildAndPush, SignAndAttest, BumpFetch, BumpPush, Rerun
  <2>2. ASSUME NEW j \in Jobs, Trigger(j) \/ JobStep(j)
        PROVE  UNCHANGED <<merged, rollbacks>>
    BY <2>2 DEF Trigger, JobStep, Review, Checkout, Verify, PushPromotion
  <2> QED
    BY <2>1, <2>2 DEF Next, vars
<1> QED
  BY <1>12, <1>13, <1>14, <1>15

\* The arithmetic of it.
LEMMA Sums ==
  ASSUME NEW n \in Nat, NEW p \in Nat, NEW a \in Nat, NEW m \in Nat, NEW r \in Nat,
         NEW t \in Nat, NEW k \in Nat, NEW x \in Nat, NEW y \in Nat, NEW z \in Nat,
         n <= 1 + p + a + m + (y - r),
         a + 1 <= t, m <= k, p <= x,
         t + x + k + y <= z + 1
  PROVE  n <= z + 1
OBVIOUS

\* The attempts a run has left are enough for the commits it has not seen.
LEMMA AttemptsLeft ==
  ASSUME GitopsAssumption, EnoughAttempts, TypeOK, Started, MainIsShort,
         NEW s \in Svcs, NEW c \in Commits, ci[s][c].at \notin {"none", "ok"}
  PROVE  Len(log) <= MaxAttempts + 1
<1>1. Landed \subseteq TouchedRuns /\ Ended \subseteq Jobs
  BY DEF Landed, TouchedRuns, Started, Ended
<1>2. <<s, c>> \in TouchedRuns /\ <<s, c>> \notin Landed
  BY DEF TouchedRuns, Landed, Started
<1>3. PICK a \in Nat, t \in Nat, m \in Nat, k \in Nat :
        /\ a = Cardinality(Landed) /\ t = Cardinality(TouchedRuns)
        /\ m = Cardinality(Ended) /\ k = Cardinality(Jobs)
        /\ a < t /\ m <= k
  BY <1>1, <1>2, SetsFinite
<1>4. /\ Len(log) <= 1 + merged + a + m + (MaxRollbacks - rollbacks)
      /\ t + MaxCommits + k + MaxRollbacks <= MaxAttempts + 1
  BY <1>3 DEF MainIsShort, EnoughAttempts
<1>5. /\ Len(log) \in Nat /\ merged \in 0..MaxCommits /\ rollbacks \in 0..MaxRollbacks
      /\ MaxCommits \in Nat /\ MaxRollbacks \in Nat /\ MaxAttempts \in Nat
  BY DEF TypeOK, GitopsAssumption
<1>6. /\ merged \in Nat /\ merged <= MaxCommits /\ rollbacks \in Nat
      /\ a + 1 <= t
  BY <1>3, <1>5
<1> QED
  BY ONLY <1>3, <1>4, <1>5, <1>6, Sums
\* Where no step and no network fails, no CI run ever fails, as long as all
\* the merges, CI runs, promotions and pins together are at most one more than
\* the attempts of the bump loop (5): one merge that touches all five services
\* is, and nothing more.
THEOREM RacingRunsSucceed == EnoughAttempts => (Safety => []NoneFailed)
<1> SUFFICES ASSUME EnoughAttempts
             PROVE  Safety => []NoneFailed
  OBVIOUS
<1>1. Init => MainIsShort
  <2> SUFFICES ASSUME Init
               PROVE  MainIsShort
    OBVIOUS
  <2>2. Landed \subseteq TouchedRuns /\ Ended \subseteq Jobs
    BY DEF Init, Landed, Ended
  <2>3. Cardinality(Landed) \in Nat /\ Cardinality(Ended) \in Nat
    BY <2>2, GitopsAssumption, SetsFinite
  <2>4. Len(log) = 1 /\ merged = 0 /\ rollbacks = MaxRollbacks /\ MaxRollbacks \in Nat
    BY GitopsAssumption DEF Init, GitopsAssumption
  <2> DEFINE a == Cardinality(Landed)
             m == Cardinality(Ended)
  <2>5. a \in Nat /\ m \in Nat
    BY <2>3
  <2> HIDE DEF a, m
  <2>6. 1 <= 1 + 0 + a + m + (MaxRollbacks - MaxRollbacks)
    BY <2>4, <2>5
  <2> QED
    BY <2>4, <2>6 DEF MainIsShort, a, m
<1>2. IInv /\ Started /\ Started' /\ MainIsShort /\ [Next]_vars => MainIsShort'
  BY GitopsAssumption, MainIsShortStep
<1>3. IInv /\ Started /\ MainIsShort /\ NoRunFails => NoneFailed
  <2> SUFFICES ASSUME IInv, Started, MainIsShort, NoRunFails,
                      NEW s \in Svcs, NEW c \in Commits, ci[s][c].at = "failed"
               PROVE  FALSE
    BY DEF NoneFailed
  <2>1. Len(log) <= MaxAttempts + 1
    BY GitopsAssumption, AttemptsLeft DEF IInv
  <2>2. budget = MaxFaults
    BY DEF IInv, TypeOK, EnoughAttempts
  <2> QED
    BY <2>1, <2>2 DEF NoRunFails
<1> QED
  BY <1>1, <1>2, <1>3, Invariant, StartedAlways, AttemptsAreEnough, PTL DEF Safety
==================================================================================
