------------------------- MODULE GitopsPipeline_proofs -------------------------
(***************************************************************************)
(* Proofs about GitopsPipeline, for any services, commits, jobs, attempts  *)
(* and failures.                                                           *)
(*                                                                         *)
(* What one step can do is said twice, and every invariant but the types   *)
(* follows from the two statements: the registry only grows (RegistryStep) *)
(* and main grows by at most one entry, of one of four kinds (LogStep).    *)
(***************************************************************************)
EXTENDS GitopsPipeline, TLAPS

CiRun(n)   == [at : CiStates, try : 1..MaxTries, attempt : 1..MaxAttempts,
               base : 0..n]
CiRuns(n)  == [Svcs -> [Commits -> CiRun(n)]]
JobRuns(n) == [Jobs -> [at : JobStates, tagAt : 0..n, base : 0..n]]

Downstream == {"qa", "uat", "prod"}

-----------------------------------------------------------------------------
(***************************************************************************)
(* Types.                                                                  *)
(***************************************************************************)
LEMMA MainTyped ==
  ASSUME log \in Seq(Overlays), log # <<>>
  PROVE  Len(log) \in Nat \ {0} /\ Main \in Overlays
BY DEF Main

\* Appending to main keeps the entries there are and adds a last one.
LEMMA AppendFacts ==
  ASSUME log \in Seq(Overlays), NEW o \in Overlays, log' = Append(log, o)
  PROVE  /\ log' \in Seq(Overlays)
         /\ log' # <<>>
         /\ Len(log') = Len(log) + 1
         /\ \A i \in 1..Len(log) : log'[i] = log[i]
         /\ log'[Len(log) + 1] = o
         /\ Main' = o
BY DEF Main

LEMMA RefsTyped ==
  ASSUME NEW o \in Overlays, NEW e \in Envs, NEW s \in Svcs
  PROVE  /\ o[e] \in [Svcs -> Refs]
         /\ o[e][s] \in Refs
         /\ o[e][s].tag \in Commits \cup {Placeholder}
         /\ o[e][s].digest \in Digests \cup {NoDigest}
BY DEF Overlays, Refs

\* One reference of an overlay changes.
LEMMA OneRefTyped ==
  ASSUME NEW o \in Overlays, NEW e \in Envs, NEW s \in Svcs, NEW ref \in Refs
  PROVE  [o EXCEPT ![e][s] = ref] \in Overlays
BY DEF Overlays

LEMMA PromotedTyped ==
  ASSUME NEW o \in Overlays, NEW e \in Downstream
  PROVE  Promoted(e, o) \in Overlays
<1>1. Source(e) \in Envs /\ e \in Envs
  BY DEF Source, Downstream, Envs
<1>2. ASSUME NEW s \in Svcs
      PROVE  Copied(e, o[Source(e)][s], o[e][s]) \in Refs /\ o[e][s] \in Refs
  <2>1. o[Source(e)][s] \in Refs /\ o[e][s] \in Refs
    BY <1>1, RefsTyped
  <2> QED
    BY <2>1 DEF Copied, Refs
<1> DEFINE row == [s \in Svcs |->
                     IF s \in Promotable
                       THEN Copied(e, o[Source(e)][s], o[e][s]) ELSE o[e][s]]
<1>3. row \in [Svcs -> Refs]
  BY <1>2
<1>4. Promoted(e, o) = [o EXCEPT ![e] = row]
  BY DEF Promoted
<1> HIDE DEF row
<1> QED
  BY <1>1, <1>3, <1>4 DEF Overlays

LEMMA OwnRefTyped ==
  ASSUME image \in [Svcs -> [Commits -> Digests \cup {NoDigest}]],
         NEW s \in Svcs, NEW c \in Commits
  PROVE  OwnRef(s, c) \in Refs
BY DEF OwnRef, Refs

LEMMA RunsGrow ==
  ASSUME NEW n \in Nat, NEW m \in Nat, n <= m
  PROVE  CiRuns(n) \subseteq CiRuns(m) /\ JobRuns(n) \subseteq JobRuns(m)
BY DEF CiRuns, CiRun, JobRuns

\* The record of one CI run changes.
LEMMA CiChange ==
  ASSUME GitopsAssumption, NEW n \in Nat, ci \in CiRuns(n),
         NEW s \in Svcs, NEW c \in Commits
  PROVE  /\ \A state \in CiStates : CiGoto(s, c, state) => ci' \in CiRuns(n)
         /\ NextAttempt(s, c) => ci' \in CiRuns(n)
         /\ \A b \in 0..n : ci' = [ci EXCEPT ![s][c].at = "push", ![s][c].base = b]
              => ci' \in CiRuns(n)
         /\ ci[s][c].try < MaxTries
            /\ ci' = [ci EXCEPT ![s][c] = [at |-> "build", try |-> @.try + 1,
                                           attempt |-> 1, base |-> 0]]
              => ci' \in CiRuns(n)
<1>1. ASSUME NEW r \in CiRun(n), ci' = [ci EXCEPT ![s][c] = r]
      PROVE  ci' \in CiRuns(n)
  BY <1>1 DEF CiRuns
<1>2. /\ ci[s][c] \in CiRun(n)
      /\ ci[s][c].try \in 1..MaxTries
      /\ ci[s][c].attempt \in 1..MaxAttempts
  BY DEF CiRuns, CiRun
<1>3. MaxTries \in Nat \ {0} /\ MaxAttempts \in Nat \ {0}
  BY DEF GitopsAssumption
<1>4. ASSUME NEW state \in CiStates, CiGoto(s, c, state)
      PROVE  ci' \in CiRuns(n)
  <2> DEFINE r == [at |-> state, try |-> ci[s][c].try, attempt |-> 1, base |-> 0]
  <2>1. r \in CiRun(n)
    <3>1. state \in CiStates
      BY <1>4
    <3> QED
      BY <1>2, <1>3, <3>1 DEF CiRun
  <2>2. ci' = [ci EXCEPT ![s][c] = r]
    BY <1>4 DEF CiGoto
  <2> QED
    BY ONLY <1>1, <2>1, <2>2
<1>5. ASSUME NextAttempt(s, c), ci[s][c].attempt < MaxAttempts
      PROVE  ci' \in CiRuns(n)
  <2> DEFINE r == [ci[s][c] EXCEPT !.at = "bump", !.attempt = @ + 1, !.base = 0]
  <2>1. r \in CiRun(n)
    <3>1. ci[s][c].attempt + 1 \in 1..MaxAttempts
      BY <1>2, <1>3, <1>5
    <3>2. [ci[s][c] EXCEPT !.at = "bump"] \in CiRun(n)
      BY <1>2 DEF CiRun, CiStates
    <3>3. \A q \in CiRun(n) : \A k \in 1..MaxAttempts :
            [q EXCEPT !.attempt = k] \in CiRun(n)
      BY <1>3 DEF CiRun
    <3>4. \A q \in CiRun(n) : \A b \in 0..n : [q EXCEPT !.base = b] \in CiRun(n)
      BY DEF CiRun
    <3> DEFINE q == [[ci[s][c] EXCEPT !.at = "bump"]
                       EXCEPT !.attempt = ci[s][c].attempt + 1]
    <3>5. q \in CiRun(n)
      BY <3>1, <3>2, <3>3
    <3>6. r = [q EXCEPT !.base = 0]
      OBVIOUS
    <3>7. 0 \in 0..n
      OBVIOUS
    <3> HIDE DEF q, r
    <3> QED
      BY <3>4, <3>5, <3>6, <3>7
  <2>2. ci' = [ci EXCEPT ![s][c] = r]
    BY <1>2, <1>5 DEF NextAttempt, CiRuns, CiRun
  <2> QED
    BY ONLY <1>1, <2>1, <2>2
<1>6. ASSUME NEW b \in 0..n,
             ci' = [ci EXCEPT ![s][c].at = "push", ![s][c].base = b]
      PROVE  ci' \in CiRuns(n)
  <2> DEFINE r == [ci[s][c] EXCEPT !.at = "push", !.base = b]
  <2>1. r \in CiRun(n)
    BY <1>2 DEF CiRun, CiStates
  <2>2. ci' = [ci EXCEPT ![s][c] = r]
    BY <1>2, <1>6 DEF CiRuns, CiRun
  <2> QED
    BY ONLY <1>1, <2>1, <2>2
<1>7. ASSUME ci[s][c].try < MaxTries,
             ci' = [ci EXCEPT ![s][c] = [at |-> "build", try |-> @.try + 1,
                                         attempt |-> 1, base |-> 0]]
      PROVE  ci' \in CiRuns(n)
  <2> DEFINE r == [at |-> "build", try |-> ci[s][c].try + 1, attempt |-> 1, base |-> 0]
  <2>1. r \in CiRun(n)
    BY <1>2, <1>3, <1>7 DEF CiRun, CiStates
  <2>2. ci' = [ci EXCEPT ![s][c] = r]
    BY <1>7
  <2> QED
    BY ONLY <1>1, <2>1, <2>2
<1>8. NextAttempt(s, c) => ci' \in CiRuns(n)
  BY <1>4, <1>5 DEF NextAttempt, CiStates
<1> QED
  BY <1>4, <1>6, <1>7, <1>8

\* The record of one promotion changes.
LEMMA JobChange ==
  ASSUME NEW n \in Nat, job \in JobRuns(n), NEW j \in Jobs
  PROVE  /\ \A state \in JobStates :
              JobGoto(j, state) \/ JobEnds(j, state) => job' \in JobRuns(n)
         /\ \A t \in 0..n : job' = [job EXCEPT ![j].at = "queued", ![j].tagAt = t]
              => job' \in JobRuns(n)
         /\ \A b \in 0..n, state \in JobStates :
              job' = [job EXCEPT ![j].base = b, ![j].at = state]
              => job' \in JobRuns(n)
BY DEF JobRuns, JobGoto, JobEnds, JobStates

\* TypeOK in terms of the sets above.
TypesAt(n) ==
  /\ image \in [Svcs -> [Commits -> Digests \cup {NoDigest}]]
  /\ signed \in [Svcs -> SUBSET Digests]
  /\ ci \in CiRuns(n)
  /\ job \in JobRuns(n)
  /\ merged \in 0..MaxCommits
  /\ budget \in 0..MaxFaults
  /\ rollbacks \in 0..MaxRollbacks

LEMMA TypesUnfold ==
  TypeOK <=> /\ log \in Seq(Overlays) /\ log # <<>> /\ TypesAt(Len(log))
             /\ botToken \in BOOLEAN /\ raced \subseteq Svcs
BY DEF TypeOK, TypesAt, CiRuns, CiRun, JobRuns

\* A step that appends to main or leaves it alone, and changes nothing else
\* out of its type, keeps the types.
LEMMA TypesKept ==
  ASSUME TypeOK,
         \/ UNCHANGED log
         \/ \E o \in Overlays : log' = Append(log, o),
         NEW n \in Nat, n = Len(log), TypesAt(n)',
         botToken' \in BOOLEAN, raced' \subseteq Svcs
  PROVE  TypeOK'
<1>1. log \in Seq(Overlays) /\ log # <<>>
  BY DEF TypeOK
<1>2. log' \in Seq(Overlays) /\ log' # <<>> /\ Len(log') \in Nat /\ n <= Len(log')
  BY <1>1, AppendFacts
<1>3. CiRuns(n) \subseteq CiRuns(Len(log')) /\ JobRuns(n) \subseteq JobRuns(Len(log'))
  BY <1>2, RunsGrow
<1> QED
  BY <1>2, <1>3 DEF TypeOK, TypesAt, CiRuns, CiRun, JobRuns

\* The token is set or not, once for all; and services only become raced.
LEMMA HistoryGrows ==
  ASSUME GitopsAssumption, TypeOK, [Next]_vars
  PROVE  /\ botToken' = botToken /\ botToken' \in BOOLEAN
         /\ raced \subseteq raced' /\ raced' \subseteq Svcs
<1>1. botToken \in BOOLEAN /\ raced \subseteq Svcs
  BY DEF TypeOK
<1>2. CASE Merge
  <2>1. Touches[merged + 1] \subseteq Svcs
    BY <1>2 DEF Merge, TypeOK, GitopsAssumption, Commits
  <2> QED
    BY <1>1, <1>2, <2>1 DEF Merge
<1>3. ASSUME NEW s \in Svcs, NEW c \in Commits, Rerun(s, c)
      PROVE  botToken' = botToken /\ raced' \in {raced, raced \cup {s}}
  BY <1>3 DEF Rerun
<1>4. ASSUME NEW e \in Envs, NEW s \in Svcs, PinPrevious(e, s)
      PROVE  botToken' = botToken /\ raced' \in {raced, raced \cup {s}}
  BY <1>4 DEF PinPrevious
<1>5. \/ Merge
      \/ \E s \in Svcs, c \in Commits : Rerun(s, c)
      \/ \E e \in Envs, s \in Svcs : PinPrevious(e, s)
      \/ UNCHANGED aside
  BY DEF Next, vars, CiStep, BuildAndPush, SignAndAttest, BumpFetch, BumpPush,
         Trigger, JobStep, Review, Checkout, Verify, PushPromotion
<1> QED
  BY <1>1, <1>2, <1>3, <1>4, <1>5 DEF aside

\* A CI run that is past its build has an image.
Built ==
  \A s \in Svcs, c \in Commits :
    ci[s][c].at \in {"sign", "bump", "push", "ok"} => image[s][c] # NoDigest

LEMMA TypeStep ==
  ASSUME GitopsAssumption, TypeOK, Built, [Next]_vars
  PROVE  TypeOK'
<1>a. /\ log \in Seq(Overlays) /\ log # <<>>
      /\ Len(log) \in Nat \ {0}
      /\ Main \in Overlays
      /\ TypesAt(Len(log))
  BY MainTyped, TypesUnfold DEF TypeOK
<1>b. PICK n \in Nat \ {0} : n = Len(log)
  BY <1>a
<1>0. /\ log \in Seq(Overlays) /\ log # <<>>
      /\ Main \in Overlays
      /\ TypesAt(n)
  BY <1>a, <1>b
<1>1. /\ ci \in CiRuns(n) /\ job \in JobRuns(n)
      /\ image \in [Svcs -> [Commits -> Digests \cup {NoDigest}]]
      /\ signed \in [Svcs -> SUBSET Digests]
      /\ MaxCommits \in Nat /\ MaxFaults \in Nat /\ MaxRollbacks \in Nat
      /\ merged \in 0..MaxCommits /\ budget \in 0..MaxFaults /\ rollbacks \in 0..MaxRollbacks
      /\ 0 \in 0..n /\ n \in 0..n
  BY <1>0 DEF TypesAt, GitopsAssumption
<1>2. Fault \/ NoFault => budget' \in 0..MaxFaults
  BY <1>1 DEF Fault, NoFault
<1>3. SUFFICES /\ UNCHANGED log \/ \E o \in Overlays : log' = Append(log, o)
               /\ TypesAt(n)'
  BY <1>b, <1>3, TypesKept, HistoryGrows
<1>4. CASE UNCHANGED vars
  BY <1>0, <1>4 DEF vars, TypesAt
<1>5. CASE Merge
  <2>1. merged + 1 \in Commits
    BY <1>1, <1>5 DEF Merge, Commits
  <2>2. ASSUME NEW s \in Svcs
        PROVE  [ci[s] EXCEPT ![merged + 1].at = "build"] \in [Commits -> CiRun(n)]
    <3>1. ci[s] \in [Commits -> CiRun(n)] /\ ci[s][merged + 1] \in CiRun(n)
      BY <1>1, <2>1 DEF CiRuns
    <3>2. [ci[s][merged + 1] EXCEPT !.at = "build"] \in CiRun(n)
      BY <3>1 DEF CiRun, CiStates
    <3> QED
      BY <2>1, <3>1, <3>2
  <2>3. ci' \in CiRuns(n)
    BY <1>1, <1>5, <2>2 DEF Merge, CiRuns
  <2> QED
    BY <1>0, <1>1, <1>5, <2>1, <2>3 DEF Merge, TypesAt, Commits
<1>6. ASSUME NEW s \in Svcs, NEW c \in Commits, CiStep(s, c) \/ Rerun(s, c)
      PROVE  /\ UNCHANGED log \/ \E o \in Overlays : log' = Append(log, o)
             /\ TypesAt(n)'
  <2>0. /\ \A state \in CiStates : CiGoto(s, c, state) => ci' \in CiRuns(n)
        /\ NextAttempt(s, c) => ci' \in CiRuns(n)
        /\ \A b \in 0..n : ci' = [ci EXCEPT ![s][c].at = "push", ![s][c].base = b]
             => ci' \in CiRuns(n)
    BY <1>0, <1>1, CiChange
  <2>1. CASE BuildAndPush(s, c)
    <3>1. <<c, ci[s][c].try>> \in Digests
      BY <1>1 DEF CiRuns, CiRun, Digests
    <3>2. image' \in [Svcs -> [Commits -> Digests \cup {NoDigest}]]
      <4>1. \A d \in Digests :
              [image EXCEPT ![s][c] = d] \in [Svcs -> [Commits -> Digests \cup {NoDigest}]]
        BY <1>1
      <4>2. UNCHANGED image \/ image' = [image EXCEPT ![s][c] = <<c, ci[s][c].try>>]
        BY <2>1 DEF BuildAndPush
      <4> QED
        BY <1>1, <3>1, <4>1, <4>2
    <3>3. ci' \in CiRuns(n)
      BY <2>0, <2>1 DEF BuildAndPush, CiStates
    <3>4. budget' \in 0..MaxFaults
      BY <1>2, <2>1 DEF BuildAndPush
    <3> QED
      BY <1>1, <2>1, <3>2, <3>3, <3>4 DEF BuildAndPush, TypesAt
  <2>2. CASE SignAndAttest(s, c)
    <3>1. image[s][c] \in Digests
      BY <1>1, <2>2 DEF SignAndAttest, Built
    <3>2. signed' \in [Svcs -> SUBSET Digests]
      BY <1>1, <2>2, <3>1 DEF SignAndAttest
    <3>3. ci' \in CiRuns(n)
      BY <2>0, <2>2 DEF SignAndAttest, CiStates
    <3>4. budget' \in 0..MaxFaults
      BY <1>2, <2>2 DEF SignAndAttest
    <3> QED
      BY <1>1, <2>2, <3>2, <3>3, <3>4 DEF SignAndAttest, TypesAt
  <2>3. CASE BumpFetch(s, c)
    <3>1. ci' \in CiRuns(n)
      BY <1>b, <1>1, <2>0, <2>3 DEF BumpFetch, CiStates
    <3>2. budget' \in 0..MaxFaults
      BY <1>2, <2>3 DEF BumpFetch
    <3> QED
      BY <1>1, <2>3, <3>1, <3>2 DEF BumpFetch, TypesAt
  <2>4. CASE BumpPush(s, c)
    <3>1. [Main EXCEPT !["dev"][s] = OwnRef(s, c)] \in Overlays
      BY <1>0, <1>1, OwnRefTyped, OneRefTyped DEF Envs
    <3>2. ci' \in CiRuns(n)
      BY <2>0, <2>4 DEF BumpPush, CiStates
    <3>3. budget' \in 0..MaxFaults
      BY <1>1, <1>2, <2>4 DEF BumpPush, NoFault
    <3>4. UNCHANGED log \/ \E o \in Overlays : log' = Append(log, o)
      BY <2>4, <3>1 DEF BumpPush, Accepted
    <3> QED
      BY <1>1, <2>4, <3>2, <3>3, <3>4 DEF BumpPush, TypesAt
  <2>5. CASE Rerun(s, c)
    <3>1. ci' \in CiRuns(n)
      BY <1>0, <1>1, <2>5, CiChange DEF Rerun
    <3> QED
      BY <1>1, <2>5, <3>1 DEF Rerun, TypesAt
  <2> QED
    BY <1>6, <2>1, <2>2, <2>3, <2>4, <2>5 DEF CiStep
<1>7. ASSUME NEW j \in Jobs, Trigger(j) \/ JobStep(j)
      PROVE  /\ UNCHANGED log \/ \E o \in Overlays : log' = Append(log, o)
             /\ TypesAt(n)'
  <2>0. /\ \A state \in JobStates :
             JobGoto(j, state) \/ JobEnds(j, state) => job' \in JobRuns(n)
        /\ \A t \in 0..n : job' = [job EXCEPT ![j].at = "queued", ![j].tagAt = t]
             => job' \in JobRuns(n)
        /\ \A b \in 0..n, state \in JobStates :
             job' = [job EXCEPT ![j].base = b, ![j].at = state]
             => job' \in JobRuns(n)
    BY <1>0, <1>1, JobChange
  <2>1. CASE Trigger(j)
    BY <1>b, <1>1, <2>0, <2>1 DEF Trigger, TypesAt
  <2>2. CASE Review(j)
    BY <1>1, <2>0, <2>2 DEF Review, TypesAt, JobStates
  <2>3. CASE Checkout(j)
    BY <1>b, <1>1, <2>0, <2>3 DEF Checkout, TypesAt, JobStates
  <2>4. CASE Verify(j)
    BY <1>1, <2>0, <2>4 DEF Verify, TypesAt, JobStates
  <2>5. CASE PushPromotion(j)
    <3>1. Accepted(job[j].base, Promoted(Target[j], log[job[j].base]))
            => \E o \in Overlays : log' = Append(log, o)
      <4>1. Promoted(Target[j], Main) \in Overlays
        BY <1>0, PromotedTyped DEF GitopsAssumption, Downstream
      <4> QED
        BY <4>1 DEF Accepted, Main
    <3>2. job' \in JobRuns(n)
      BY <2>0, <2>5 DEF PushPromotion, JobStates
    <3>3. budget' \in 0..MaxFaults
      BY <1>1, <1>2, <2>5 DEF PushPromotion, NoFault
    <3>4. UNCHANGED log \/ \E o \in Overlays : log' = Append(log, o)
      BY <2>5, <3>1 DEF PushPromotion
    <3> QED
      BY <1>1, <2>5, <3>2, <3>3, <3>4 DEF PushPromotion, TypesAt
  <2> QED
    BY <1>7, <2>1, <2>2, <2>3, <2>4, <2>5 DEF JobStep
<1>8. ASSUME NEW e \in Envs, NEW s \in Svcs, PinPrevious(e, s)
      PROVE  /\ UNCHANGED log \/ \E o \in Overlays : log' = Append(log, o)
             /\ TypesAt(n)'
  <2>1. PICK i \in 1..Len(log) : \E d \in {log[i][e][s].digest, Main[e][s].digest} :
          log' = Append(log, [Main EXCEPT ![e][s] = [tag |-> log[i][e][s].tag, digest |-> d]])
    BY <1>8 DEF PinPrevious
  <2>2. log[i] \in Overlays
    BY <1>0
  <2>3. \A d \in {log[i][e][s].digest, Main[e][s].digest} :
          [tag |-> log[i][e][s].tag, digest |-> d] \in Refs
    BY <1>0, <2>2, RefsTyped DEF Refs
  <2>4. \E o \in Overlays : log' = Append(log, o)
    BY <1>0, <2>1, <2>3, OneRefTyped
  <2> QED
    <3>1. UNCHANGED <<merged, image, signed, ci, job, budget>>
      BY <1>8 DEF PinPrevious
    <3>2. rollbacks' \in 0..MaxRollbacks
      BY <1>1, <1>8 DEF PinPrevious
    <3> QED
      BY <1>1, <2>4, <3>1, <3>2 DEF TypesAt
<1> QED
  BY <1>4, <1>5, <1>6, <1>7, <1>8 DEF Next

-----------------------------------------------------------------------------
(***************************************************************************)
(* Which actions change what.                                              *)
(***************************************************************************)
LEMMA NextCases ==
  ASSUME [Next]_vars
  PROVE  \/ UNCHANGED vars
         \/ Merge
         \/ \E s \in Svcs, c \in Commits :
              \/ BuildAndPush(s, c) \/ SignAndAttest(s, c)
              \/ BumpFetch(s, c) \/ BumpPush(s, c) \/ Rerun(s, c)
         \/ \E j \in Jobs :
              Trigger(j) \/ Review(j) \/ Checkout(j) \/ Verify(j) \/ PushPromotion(j)
         \/ \E e \in Envs, s \in Svcs : PinPrevious(e, s)
BY DEF Next, CiStep, JobStep

LEMMA Frames ==
  ASSUME [Next]_vars
  PROVE  /\ \/ UNCHANGED <<image, signed>>
            \/ \E s \in Svcs, c \in Commits : BuildAndPush(s, c) \/ SignAndAttest(s, c)
         /\ \/ UNCHANGED log
            \/ Merge
            \/ \E s \in Svcs, c \in Commits : BumpPush(s, c)
            \/ \E j \in Jobs : PushPromotion(j)
            \/ \E e \in Envs, s \in Svcs : PinPrevious(e, s)
         /\ \/ UNCHANGED job
            \/ \E j \in Jobs :
                 Trigger(j) \/ Review(j) \/ Checkout(j) \/ Verify(j) \/ PushPromotion(j)
<1>1. CASE UNCHANGED vars
  BY <1>1 DEF vars
<1>2. CASE Merge
  BY <1>2 DEF Merge
<1>3. ASSUME NEW s \in Svcs, NEW c \in Commits, BuildAndPush(s, c)
      PROVE  UNCHANGED log /\ UNCHANGED job
  BY <1>3 DEF BuildAndPush
<1>4. ASSUME NEW s \in Svcs, NEW c \in Commits, SignAndAttest(s, c)
      PROVE  UNCHANGED log /\ UNCHANGED job
  BY <1>4 DEF SignAndAttest
<1>5. ASSUME NEW s \in Svcs, NEW c \in Commits, BumpFetch(s, c) \/ Rerun(s, c)
      PROVE  UNCHANGED log /\ UNCHANGED job /\ UNCHANGED <<image, signed>>
  BY <1>5 DEF BumpFetch, Rerun
<1>6. ASSUME NEW s \in Svcs, NEW c \in Commits, BumpPush(s, c)
      PROVE  UNCHANGED job /\ UNCHANGED <<image, signed>>
  BY <1>6 DEF BumpPush
<1>7. ASSUME NEW j \in Jobs, Trigger(j) \/ Review(j) \/ Checkout(j) \/ Verify(j)
      PROVE  UNCHANGED log /\ UNCHANGED <<image, signed>>
  BY <1>7 DEF Trigger, Review, Checkout, Verify
<1>8. ASSUME NEW j \in Jobs, PushPromotion(j)
      PROVE  UNCHANGED <<image, signed>>
  BY <1>8 DEF PushPromotion
<1>9. ASSUME NEW e \in Envs, NEW s \in Svcs, PinPrevious(e, s)
      PROVE  UNCHANGED job /\ UNCHANGED <<image, signed>>
  BY <1>9 DEF PinPrevious
<1>10. CASE \E s \in Svcs, c \in Commits :
              \/ BuildAndPush(s, c) \/ SignAndAttest(s, c)
              \/ BumpFetch(s, c) \/ BumpPush(s, c) \/ Rerun(s, c)
  <2>1. PICK s \in Svcs, c \in Commits :
              \/ BuildAndPush(s, c) \/ SignAndAttest(s, c)
              \/ BumpFetch(s, c) \/ BumpPush(s, c) \/ Rerun(s, c)
    BY <1>10
  <2>2. CASE BuildAndPush(s, c) \/ SignAndAttest(s, c)
    BY <1>3, <1>4, <2>2
  <2>3. CASE BumpFetch(s, c) \/ Rerun(s, c)
    BY <1>5, <2>3
  <2>4. CASE BumpPush(s, c)
    BY <1>6, <2>4
  <2> QED
    BY <2>1, <2>2, <2>3, <2>4
<1>11. CASE \E j \in Jobs :
              Trigger(j) \/ Review(j) \/ Checkout(j) \/ Verify(j) \/ PushPromotion(j)
  BY <1>7, <1>8, <1>11
<1>12. CASE \E e \in Envs, s \in Svcs : PinPrevious(e, s)
  BY <1>9, <1>12
<1> QED
  BY <1>1, <1>2, <1>10, <1>11, <1>12, NextCases

-----------------------------------------------------------------------------
(***************************************************************************)
(* The registry and the CI runs.                                           *)
(***************************************************************************)
\* The image of a run that bumps, or has bumped, is signed.
Signed ==
  \A s \in Svcs, c \in Commits :
    ci[s][c].at \in {"bump", "push", "ok"} => image[s][c] \in signed[s]

\* Tags are immutable and signatures stay.
RegistryStep ==
  /\ \A s \in Svcs, c \in Commits :
       image[s][c] # NoDigest => image'[s][c] = image[s][c]
  /\ \A s \in Svcs : signed[s] \subseteq signed'[s]

LEMMA RegistryGrows ==
  ASSUME TypeOK, [Next]_vars
  PROVE  RegistryStep
<1>1. /\ image \in [Svcs -> [Commits -> Digests \cup {NoDigest}]]
      /\ signed \in [Svcs -> SUBSET Digests]
  BY DEF TypeOK
<1>2. CASE UNCHANGED <<image, signed>>
  BY <1>2 DEF RegistryStep
<1>3. ASSUME NEW s \in Svcs, NEW c \in Commits, BuildAndPush(s, c)
      PROVE  RegistryStep
  BY <1>1, <1>3 DEF BuildAndPush, RegistryStep
<1>4. ASSUME NEW s \in Svcs, NEW c \in Commits, SignAndAttest(s, c)
      PROVE  RegistryStep
  BY <1>1, <1>4 DEF SignAndAttest, RegistryStep
<1> QED
  BY <1>2, <1>3, <1>4, Frames

\* How the state of a CI run changes: only its own steps move it forward.
LEMMA CiMoves ==
  ASSUME GitopsAssumption, TypeOK, [Next]_vars, NEW s \in Svcs, NEW c \in Commits
  PROVE  \/ ci'[s][c].at = ci[s][c].at
         \/ ci'[s][c].at \in {"build", "failed"}
         \/ BuildAndPush(s, c) /\ ci'[s][c].at = "sign"
         \/ SignAndAttest(s, c) /\ ci'[s][c].at = "bump"
         \/ BumpFetch(s, c) /\ ci[s][c].at = "bump" /\ ci'[s][c].at \in {"push", "ok"}
         \/ BumpPush(s, c) /\ ci[s][c].at = "push" /\ ci'[s][c].at \in {"bump", "ok"}
<1>1. ci \in CiRuns(Len(log)) /\ merged \in Nat
  BY TypesUnfold DEF TypesAt
<1>2. CASE UNCHANGED ci
  BY <1>2
<1>3. CASE Merge
  BY <1>1, <1>3 DEF Merge, CiRuns, CiRun
<1>4. ASSUME NEW q \in Svcs, NEW d \in Commits, CiStep(q, d) \/ Rerun(q, d),
             ~(q = s /\ d = c)
      PROVE  ci'[s][c].at = ci[s][c].at
  <2>1. ASSUME NEW state, CiGoto(q, d, state)
        PROVE  ci'[s][c] = ci[s][c]
    BY <1>1, <1>4, <2>1 DEF CiGoto, CiRuns
  <2>2. ASSUME ci' = [ci EXCEPT ![q][d].at = "push", ![q][d].base = Len(log)]
        PROVE  ci'[s][c] = ci[s][c]
    BY <1>1, <1>4, <2>2 DEF CiRuns
  <2>3. ASSUME NextAttempt(q, d)
        PROVE  ci'[s][c] = ci[s][c]
    <3>1. ASSUME ci' = [ci EXCEPT ![q][d].at = "bump", ![q][d].attempt = @ + 1,
                                  ![q][d].base = 0]
          PROVE  ci'[s][c] = ci[s][c]
      BY <1>1, <1>4, <3>1 DEF CiRuns
    <3> QED
      BY <2>1, <2>3, <3>1 DEF NextAttempt
  <2>4. ASSUME Rerun(q, d)
        PROVE  ci'[s][c] = ci[s][c]
    BY <1>1, <1>4, <2>4 DEF Rerun, CiRuns
  <2> QED
    BY <1>4, <2>1, <2>2, <2>3, <2>4 DEF CiStep, BuildAndPush, SignAndAttest,
       BumpFetch, BumpPush
<1>5. ASSUME NEW state, CiGoto(s, c, state)
      PROVE  ci'[s][c].at = state
  BY <1>1, <1>5 DEF CiGoto, CiRuns
<1>6. CASE BuildAndPush(s, c)
  BY <1>5, <1>6 DEF BuildAndPush
<1>7. CASE SignAndAttest(s, c)
  BY <1>5, <1>7 DEF SignAndAttest
<1>8. CASE BumpFetch(s, c)
  <2>1. ci' = [ci EXCEPT ![s][c].at = "push", ![s][c].base = Len(log)]
          => ci'[s][c].at = "push"
    BY <1>1 DEF CiRuns, CiRun
  <2> QED
    BY <1>5, <1>8, <2>1 DEF BumpFetch
<1>9. CASE BumpPush(s, c)
  <2>1. NextAttempt(s, c) => ci'[s][c].at \in {"bump", "failed"}
    <3>1. ci' = [ci EXCEPT ![s][c].at = "bump", ![s][c].attempt = @ + 1, ![s][c].base = 0]
            => ci'[s][c].at = "bump"
      BY <1>1 DEF CiRuns, CiRun
    <3> QED
      BY <1>5, <3>1 DEF NextAttempt
  <2> QED
    BY <1>5, <1>9, <2>1 DEF BumpPush
<1>10. CASE Rerun(s, c)
  BY <1>1, <1>10 DEF Rerun, CiRuns
<1> QED
  BY <1>2, <1>3, <1>4, <1>6, <1>7, <1>8, <1>9, <1>10 DEF Next, vars, CiStep,
     Trigger, JobStep, Review, Checkout, Verify, PushPromotion, PinPrevious

LEMMA CiInvStep ==
  ASSUME GitopsAssumption, TypeOK, Built, Signed, [Next]_vars
  PROVE  Built' /\ Signed'
<1>1. RegistryStep
  BY RegistryGrows
<1>2. /\ image \in [Svcs -> [Commits -> Digests \cup {NoDigest}]]
      /\ signed \in [Svcs -> SUBSET Digests]
      /\ NoDigest \notin Digests
  BY DEF TypeOK, GitopsAssumption, Digests
<1>3. ASSUME NEW s \in Svcs, NEW c \in Commits
      PROVE  /\ ci'[s][c].at \in {"sign", "bump", "push", "ok"} => image'[s][c] # NoDigest
             /\ ci'[s][c].at \in {"bump", "push", "ok"} => image'[s][c] \in signed'[s]
  <2>1. /\ image[s][c] # NoDigest => image'[s][c] = image[s][c]
        /\ signed[s] \subseteq signed'[s]
        /\ ci[s][c].at \in {"sign", "bump", "push", "ok"} => image[s][c] # NoDigest
        /\ ci[s][c].at \in {"bump", "push", "ok"} => image[s][c] \in signed[s]
    BY <1>1 DEF RegistryStep, Built, Signed
  <2>2. CASE BuildAndPush(s, c) /\ ci'[s][c].at = "sign"
    <3>1. image'[s][c] # NoDigest
      <4>1. <<c, ci[s][c].try>> # NoDigest
        BY DEF TypeOK, GitopsAssumption
      <4>2. CiGoto(s, c, "failed") => ci'[s][c].at = "failed"
        BY DEF TypeOK, CiGoto
      <4> QED
        BY <1>2, <2>1, <2>2, <4>1, <4>2 DEF BuildAndPush
    <3> QED
      BY <2>2, <3>1
  <2>3. CASE SignAndAttest(s, c) /\ ci'[s][c].at = "bump"
    <3>1. signed' = [signed EXCEPT ![s] = @ \cup {image[s][c]}]
      <4>1. CiGoto(s, c, "failed") => ci'[s][c].at = "failed"
        BY DEF TypeOK, CiGoto
      <4> QED
        BY <2>3, <4>1 DEF SignAndAttest
    <3> QED
      BY <1>2, <2>1, <2>3, <3>1 DEF SignAndAttest
  <2> QED
    BY <2>1, <2>2, <2>3, CiMoves
<1> QED
  BY <1>3 DEF Built, Signed

-----------------------------------------------------------------------------
-----------------------------------------------------------------------------
(***************************************************************************)
(* The promotions and main.                                                *)
(***************************************************************************)
\* The commit a promotion works on is one of main's, and one that gets to
\* its push has verified what it copies there.
Verified ==
  \A j \in Jobs : job[j].at \in {"verify", "push"} =>
    /\ job[j].base \in 1..Len(log)
    /\ job[j].at = "push" /\ Target[j] # "qa" => AllVerify(j)

\* An overlay has a tag exactly if it has a digest, ...
TagsHaveDigests ==
  \A i \in 1..Len(log) : \A e \in Envs, s \in Svcs :
    log[i][e][s].tag = Placeholder <=> log[i][e][s].digest = NoDigest

\* ... and never goes back to having none.
TagsStay ==
  \A i \in 1..Len(log) : \A e \in Envs, s \in Svcs :
    log[i][e][s].tag # Placeholder => Main[e][s].tag # Placeholder

\* The four kinds of commits.
Touch(o) == o = Main
Bumps(o) ==
  \E s \in Svcs, c \in Commits :
    /\ ci[s][c].at = "push"
    /\ o = [Main EXCEPT !["dev"][s] = OwnRef(s, c)]
Promotes(o) ==
  \E e \in Downstream :
    /\ o = Promoted(e, Main)
    /\ e # "qa" => \A s \in Promotable : TagVerifies(s, Main[Source(e)][s].tag)
Pins(o) ==
  /\ rollbacks > 0
  /\ \E e \in Envs, s \in Svcs, i \in 1..Len(log) :
       /\ log[i][e][s].tag # Placeholder
       /\ \E d \in {log[i][e][s].digest, Main[e][s].digest} :
            o = [Main EXCEPT ![e][s] = [tag |-> log[i][e][s].tag, digest |-> d]]

LogStep ==
  \/ UNCHANGED log
  \/ \E o \in Overlays : /\ log' = Append(log, o)
                         /\ Touch(o) \/ Bumps(o) \/ Promotes(o) \/ Pins(o)

LEMMA LogSteps ==
  ASSUME GitopsAssumption, TypeOK, Verified, [Next]_vars
  PROVE  LogStep
<1>1. /\ log \in Seq(Overlays) /\ log # <<>>
      /\ Len(log) \in Nat \ {0}
      /\ Main \in Overlays
  BY MainTyped DEF TypeOK
<1>2. CASE Merge
  BY <1>1, <1>2 DEF Merge, LogStep, Touch
<1>3. ASSUME NEW s \in Svcs, NEW c \in Commits, BumpPush(s, c)
      PROVE  LogStep
  <2>1. [Main EXCEPT !["dev"][s] = OwnRef(s, c)] \in Overlays
    BY <1>1, OwnRefTyped, OneRefTyped DEF Envs, TypeOK
  <2> QED
    BY <1>3, <2>1 DEF BumpPush, Accepted, LogStep, Bumps
<1>4. ASSUME NEW j \in Jobs, PushPromotion(j)
      PROVE  LogStep
  <2>1. Target[j] \in Downstream
    BY DEF GitopsAssumption, Downstream
  <2>2. Promoted(Target[j], Main) \in Overlays
    BY <1>1, <2>1, PromotedTyped
  <2>3. ASSUME job[j].base = Len(log)
        PROVE  Promotes(Promoted(Target[j], Main))
    <3>1. Target[j] # "qa" => \A s \in Promotable :
            TagVerifies(s, Main[Source(Target[j])][s].tag)
      BY <1>4, <2>3 DEF PushPromotion, Verified, AllVerify, Main
    <3> QED
      BY <2>1, <3>1 DEF Promotes
  <2>4. \/ UNCHANGED log
        \/ job[j].base = Len(log) /\ log' = Append(log, Promoted(Target[j], Main))
    BY <1>4 DEF PushPromotion, Accepted, Main
  <2> QED
    BY <2>2, <2>3, <2>4 DEF LogStep
<1>5. ASSUME NEW e \in Envs, NEW s \in Svcs, PinPrevious(e, s)
      PROVE  LogStep
  <2>1. PICK i \in 1..Len(log) : 
          /\ log[i][e][s].tag # Placeholder
          /\ \E d \in {log[i][e][s].digest, Main[e][s].digest} :
               log' = Append(log, [Main EXCEPT ![e][s] = [tag |-> log[i][e][s].tag, digest |-> d]])
    BY <1>5 DEF PinPrevious
  <2>2. PICK d \in {log[i][e][s].digest, Main[e][s].digest} :
          log' = Append(log, [Main EXCEPT ![e][s] = [tag |-> log[i][e][s].tag, digest |-> d]])
    BY <2>1
  <2>3. log[i] \in Overlays
    BY <1>1
  <2>4. [tag |-> log[i][e][s].tag, digest |-> d] \in Refs
    BY <1>1, <2>3, RefsTyped DEF Refs
  <2>5. [Main EXCEPT ![e][s] = [tag |-> log[i][e][s].tag, digest |-> d]] \in Overlays
    BY <1>1, <2>4, OneRefTyped
  <2>6. Pins([Main EXCEPT ![e][s] = [tag |-> log[i][e][s].tag, digest |-> d]])
    BY <1>5, <2>1 DEF Pins, PinPrevious
  <2> QED
    BY <2>2, <2>5, <2>6 DEF LogStep
<1> QED
  BY <1>2, <1>3, <1>4, <1>5, Frames DEF LogStep

\* What that means for main: the entries there are stay as they are.
LEMMA LogGrows ==
  ASSUME GitopsAssumption, TypeOK, LogStep
  PROVE  /\ Len(log) <= Len(log') /\ Len(log) \in Nat /\ Len(log') \in Nat
         /\ \A i \in 1..Len(log) : log'[i] = log[i]
         /\ \/ UNCHANGED log
            \/ /\ Len(log') = Len(log) + 1
               /\ log'[Len(log) + 1] = Main'
               /\ Main' \in Overlays
               /\ Touch(Main') \/ Bumps(Main') \/ Promotes(Main') \/ Pins(Main')
<1>1. log \in Seq(Overlays) /\ Len(log) \in Nat
  BY DEF TypeOK
<1>2. CASE UNCHANGED log
  BY <1>1, <1>2
<1>3. ASSUME NEW o \in Overlays, log' = Append(log, o),
             Touch(o) \/ Bumps(o) \/ Promotes(o) \/ Pins(o)
      PROVE  /\ Len(log') = Len(log) + 1
             /\ \A i \in 1..Len(log) : log'[i] = log[i]
             /\ log'[Len(log) + 1] = Main'
             /\ Main' = o
  BY <1>1, <1>3, AppendFacts
<1> QED
  BY <1>1, <1>2, <1>3 DEF LogStep

(***************************************************************************)
(* How the reference of one service in one environment can change: it is   *)
(* the signed image of a bump, a copy of the environment before, or a pin. *)
(***************************************************************************)
RefStep(e, s, new) ==
  \/ new = Main[e][s]
  \/ /\ e = "dev"
     /\ \E c \in Commits : ci[s][c].at = "push" /\ new = OwnRef(s, c)
  \/ /\ e \in Downstream
     /\ new = Main[Source(e)][s]
     /\ new.tag # Placeholder
  \/ /\ rollbacks > 0
     /\ \E i \in 1..Len(log) :
          /\ log[i][e][s].tag # Placeholder
          /\ \E d \in {log[i][e][s].digest, Main[e][s].digest} :
               new = [tag |-> log[i][e][s].tag, digest |-> d]

LEMMA RefSteps ==
  ASSUME GitopsAssumption, TypeOK, TagsHaveDigests, NEW o \in Overlays,
         Touch(o) \/ Bumps(o) \/ Promotes(o) \/ Pins(o),
         NEW e \in Envs, NEW s \in Svcs
  PROVE  RefStep(e, s, o[e][s])
<1>1. /\ log \in Seq(Overlays) /\ log # <<>>
      /\ Len(log) \in Nat \ {0}
      /\ Main \in Overlays
  BY MainTyped DEF TypeOK
<1>2. ASSUME NEW q \in Svcs, NEW d \in Envs, NEW ref \in Refs,
             o = [Main EXCEPT ![d][q] = ref]
      PROVE  o[e][s] = IF d = e /\ q = s THEN ref ELSE Main[e][s]
  BY <1>1, <1>2 DEF Overlays
<1>3. CASE Touch(o)
  BY <1>3 DEF Touch, RefStep
<1>4. CASE Bumps(o)
  <2>1. PICK q \in Svcs, c \in Commits :
          ci[q][c].at = "push" /\ o = [Main EXCEPT !["dev"][q] = OwnRef(q, c)]
    BY <1>4 DEF Bumps
  <2>2. o[e][s] = IF "dev" = e /\ q = s THEN OwnRef(q, c) ELSE Main[e][s]
    BY <1>2, <2>1, OwnRefTyped DEF TypeOK, Envs
  <2> QED
    BY <2>1, <2>2 DEF RefStep
<1>5. CASE Promotes(o)
  <2>1. PICK d \in Downstream :
          /\ o = Promoted(d, Main)
          /\ d # "qa" => \A q \in Promotable : TagVerifies(q, Main[Source(d)][q].tag)
    BY <1>5 DEF Promotes
  <2>2. d \in Envs /\ Source(d) \in Envs
    BY DEF Downstream, Envs, Source
  <2>3. o[e][s] = IF d = e /\ s \in Promotable
                    THEN Copied(e, Main[Source(e)][s], Main[e][s]) ELSE Main[e][s]
    BY <1>1, <2>1, <2>2 DEF Promoted, Overlays
  <2>4. CASE d = e /\ s \in Promotable
    <3>1. /\ Main[Source(e)][s] \in Refs
          /\ Main[Source(e)][s].tag = Placeholder <=> Main[Source(e)][s].digest = NoDigest
      BY <1>1, <2>2, <2>4, RefsTyped DEF TagsHaveDigests, Main
    <3>2. e # "qa" => Main[Source(e)][s].tag # Placeholder
      BY <2>1, <2>4 DEF TagVerifies, Commits, Placeholder, GitopsAssumption
    <3>3. \/ Copied(e, Main[Source(e)][s], Main[e][s]) = Main[e][s]
          \/ /\ Main[Source(e)][s].tag # Placeholder
             /\ Copied(e, Main[Source(e)][s], Main[e][s]) = Main[Source(e)][s]
      BY <3>1, <3>2 DEF Copied, Refs
    <3> QED
      BY <2>3, <2>4, <3>3 DEF RefStep
  <2> QED
    BY <2>3, <2>4 DEF RefStep
<1>6. CASE Pins(o)
  <2>1. PICK d \in Envs, q \in Svcs, i \in 1..Len(log) :
          /\ log[i][d][q].tag # Placeholder
          /\ \E x \in {log[i][d][q].digest, Main[d][q].digest} :
               o = [Main EXCEPT ![d][q] = [tag |-> log[i][d][q].tag, digest |-> x]]
    BY <1>6 DEF Pins
  <2>2. PICK x \in {log[i][d][q].digest, Main[d][q].digest} :
          o = [Main EXCEPT ![d][q] = [tag |-> log[i][d][q].tag, digest |-> x]]
    BY <2>1
  <2>3. log[i] \in Overlays
    BY <1>1
  <2>4. [tag |-> log[i][d][q].tag, digest |-> x] \in Refs
    BY <1>1, <2>3, RefsTyped DEF Refs
  <2>5. o[e][s] = IF d = e /\ q = s THEN [tag |-> log[i][d][q].tag, digest |-> x]
                                    ELSE Main[e][s]
    BY <1>2, <2>2, <2>4
  <2> QED
    BY <1>6, <2>1, <2>5 DEF RefStep, Pins
<1> QED
  BY <1>3, <1>4, <1>5, <1>6

-----------------------------------------------------------------------------
(***************************************************************************)
(* The invariant.                                                          *)
(***************************************************************************)
IInv ==
  /\ TypeOK
  /\ Built /\ Signed /\ Verified
  /\ TagsHaveDigests /\ TagsStay
  /\ DeployedAreSigned /\ PassedEveryStage /\ SuccessMeansLanded

LEMMA IInvInit == ASSUME GitopsAssumption, Init PROVE IInv
<1> DEFINE none == [e \in Envs |-> [s \in Svcs |-> NoRef]]
<1>1. none \in Overlays
  BY DEF Overlays, Refs, NoRef
<1>2. log = <<none>> /\ Len(log) = 1 /\ log[1] = none /\ Main = none
  BY DEF Init, Main
<1>3. \A e \in Envs, s \in Svcs :
        none[e][s].tag = Placeholder /\ none[e][s].digest = NoDigest
  BY DEF NoRef
<1> HIDE DEF none
<1>4. TypeOK
  <2>1. log \in Seq(Overlays) /\ log # <<>>
    BY <1>1, <1>2
  <2>2. TypesAt(Len(log))
    BY <1>2 DEF Init, TypesAt, CiRuns, CiRun, JobRuns, CiStates, JobStates, GitopsAssumption
  <2> QED
    BY <2>1, <2>2, TypesUnfold DEF Init
<1>5. Built /\ Signed /\ Verified /\ SuccessMeansLanded
  BY DEF Init, Built, Signed, Verified, SuccessMeansLanded
<1>6. TagsHaveDigests /\ TagsStay /\ DeployedAreSigned /\ PassedEveryStage
  BY <1>2, <1>3 DEF TagsHaveDigests, TagsStay, DeployedAreSigned, PassedEveryStage
<1> QED
  BY <1>4, <1>5, <1>6 DEF IInv

\* A promotion's verification is not undone: the commit it looked at, the
\* tags and the signatures stay.
LEMMA VerifiedStep ==
  ASSUME GitopsAssumption, TypeOK, TypeOK', Verified, [Next]_vars
  PROVE  Verified'
<1>1. RegistryStep /\ LogStep
  BY RegistryGrows, LogSteps
<1>2. /\ Len(log) <= Len(log') /\ Len(log) \in Nat /\ Len(log') \in Nat
      /\ \A i \in 1..Len(log) : log'[i] = log[i]
      /\ Len(log) > 0
  BY <1>1, LogGrows DEF TypeOK
<1>3. /\ job \in JobRuns(Len(log))
      /\ image \in [Svcs -> [Commits -> Digests \cup {NoDigest}]]
      /\ signed \in [Svcs -> SUBSET Digests]
      /\ NoDigest \notin Digests
      /\ Promotable \subseteq Svcs
  BY TypesUnfold DEF TypesAt, GitopsAssumption, Digests
<1>4. ASSUME NEW s \in Promotable, NEW tag, TagVerifies(s, tag)
      PROVE  TagVerifies(s, tag)'
  BY <1>1, <1>3, <1>4 DEF TagVerifies, RegistryStep
<1>5. ASSUME NEW j \in Jobs, job[j].base \in 1..Len(log), AllVerify(j),
             job'[j].base = job[j].base
      PROVE  AllVerify(j)'
  BY <1>2, <1>4, <1>5 DEF AllVerify
<1>6. ASSUME NEW j \in Jobs, job'[j].at \in {"verify", "push"}
      PROVE  /\ job'[j].base \in 1..Len(log')
             /\ job'[j].at = "push" /\ Target[j] # "qa" => AllVerify(j)'
  <2>1. CASE job'[j] = job[j]
    BY <1>2, <1>5, <1>6, <2>1 DEF Verified
  <2>2. CASE Checkout(j)
    <3>0. job' = [job EXCEPT ![j].base = Len(log),
                             ![j].at = IF Target[j] = "qa" THEN "push" ELSE "verify"]
      <4>1. JobEnds(j, "failed") => job'[j].at = "failed"
        BY <1>3 DEF JobEnds, JobRuns
      <4> QED
        BY <1>6, <2>2, <4>1 DEF Checkout
    <3>1. job'[j].base = Len(log)
      BY <1>3, <3>0 DEF JobRuns
    <3>2. job'[j].at = IF Target[j] = "qa" THEN "push" ELSE "verify"
      BY <1>3, <3>0 DEF JobRuns
    <3> QED
      BY <1>2, <3>1, <3>2
  <2>3. CASE Verify(j)
    <3>1. AllVerify(j) /\ job'[j].base = job[j].base
      BY <1>3, <1>6, <2>3 DEF Verify, JobGoto, JobEnds, JobRuns
    <3> QED
      BY <1>2, <1>5, <2>3, <3>1 DEF Verified, Verify
  <2>4. job'[j] = job[j] \/ Checkout(j) \/ Verify(j)
    <3>1. ASSUME NEW k \in Jobs, Trigger(k) \/ JobStep(k), k # j
          PROVE  job'[j] = job[j]
      BY <1>3, <3>1 DEF JobRuns, Trigger, JobStep, Review, Checkout, Verify,
         PushPromotion, JobGoto, JobEnds
    <3>2. ASSUME Trigger(j) \/ Review(j) \/ PushPromotion(j)
          PROVE  FALSE
      <4>1. \A state : JobGoto(j, state) \/ JobEnds(j, state) => job'[j].at = state
        BY <1>3 DEF JobRuns, JobGoto, JobEnds
      <4>2. ~ Trigger(j)
        BY <1>3, <1>6 DEF JobRuns, Trigger
      <4> QED
        BY <1>6, <3>2, <4>1, <4>2 DEF Review, PushPromotion
    <3> QED
      BY <3>1, <3>2, Frames DEF JobStep
  <2> QED
    BY <2>1, <2>2, <2>3, <2>4
<1> QED
  BY <1>6 DEF Verified

\* What is said of every entry of main has to be shown of the new one only.
LEMMA TagsStep ==
  ASSUME GitopsAssumption, TypeOK, Built, TagsHaveDigests, TagsStay, LogStep
  PROVE  TagsHaveDigests' /\ TagsStay'
<1>1. /\ log \in Seq(Overlays) /\ log # <<>> /\ Len(log) \in Nat \ {0}
      /\ Main = log[Len(log)]
  BY DEF TypeOK, Main
<1>2. CASE UNCHANGED log
  BY <1>2 DEF TagsHaveDigests, TagsStay, Main
<1>3. CASE ~ UNCHANGED log
  <2>1. /\ Len(log') = Len(log) + 1
        /\ \A i \in 1..Len(log) : log'[i] = log[i]
        /\ log'[Len(log) + 1] = Main'
        /\ Main' \in Overlays
        /\ Touch(Main') \/ Bumps(Main') \/ Promotes(Main') \/ Pins(Main')
    BY <1>3, LogGrows
  <2>2. ASSUME NEW e \in Envs, NEW s \in Svcs
        PROVE  /\ Main'[e][s].tag = Placeholder <=> Main'[e][s].digest = NoDigest
               /\ Main[e][s].tag # Placeholder => Main'[e][s].tag # Placeholder
    <3>1. Main[e][s].tag = Placeholder <=> Main[e][s].digest = NoDigest
      BY <1>1 DEF TagsHaveDigests
    <3>2. RefStep(e, s, Main'[e][s])
      BY <2>1, RefSteps
    <3>3. CASE Main'[e][s] = Main[e][s]
      BY <3>1, <3>3
    <3>4. ASSUME NEW c \in Commits, ci[s][c].at = "push", Main'[e][s] = OwnRef(s, c)
          PROVE  Main'[e][s].tag # Placeholder /\ Main'[e][s].digest # NoDigest
      BY <3>4 DEF OwnRef, Built, Commits, Placeholder, GitopsAssumption
    <3>5. CASE /\ e \in Downstream
               /\ Main'[e][s] = Main[Source(e)][s]
               /\ Main'[e][s].tag # Placeholder
      <4>1. Source(e) \in Envs
        BY <3>5 DEF Source, Downstream, Envs
      <4> QED
        BY <1>1, <3>5, <4>1 DEF TagsHaveDigests
    <3>6. ASSUME NEW i \in 1..Len(log), log[i][e][s].tag # Placeholder,
                 NEW d \in {log[i][e][s].digest, Main[e][s].digest},
                 Main'[e][s] = [tag |-> log[i][e][s].tag, digest |-> d]
          PROVE  Main'[e][s].tag # Placeholder /\ Main'[e][s].digest # NoDigest
      BY <3>1, <3>6 DEF TagsHaveDigests, TagsStay
    <3> QED
      BY <3>2, <3>3, <3>4, <3>5, <3>6 DEF RefStep
  <2>3. \A i \in 1..Len(log') : i \in 1..Len(log) \/ i = Len(log) + 1
    BY <1>1, <2>1
  <2>4. TagsHaveDigests'
    BY <2>1, <2>2, <2>3 DEF TagsHaveDigests
  <2>5. TagsStay'
    BY <2>1, <2>2, <2>3 DEF TagsStay
  <2> QED
    BY <2>4, <2>5
<1> QED
  BY <1>2, <1>3

LEMMA DeployedStep ==
  ASSUME GitopsAssumption, TypeOK, Signed, TagsHaveDigests, DeployedAreSigned,
         LogStep, RegistryStep
  PROVE  DeployedAreSigned'
<1>1. /\ log \in Seq(Overlays) /\ log # <<>> /\ Len(log) \in Nat \ {0}
      /\ Main = log[Len(log)]
      /\ \A s \in Svcs : signed[s] \subseteq signed'[s]
  BY DEF TypeOK, Main, RegistryStep
<1>2. CASE UNCHANGED log
  BY <1>1, <1>2 DEF DeployedAreSigned
<1>3. CASE ~ UNCHANGED log
  <2>1. /\ Len(log') = Len(log) + 1
        /\ \A i \in 1..Len(log) : log'[i] = log[i]
        /\ log'[Len(log) + 1] = Main'
        /\ Main' \in Overlays
        /\ Touch(Main') \/ Bumps(Main') \/ Promotes(Main') \/ Pins(Main')
    BY <1>3, LogGrows
  <2>2. ASSUME NEW e \in Envs, NEW s \in Svcs, Main'[e][s].digest # NoDigest
        PROVE  Main'[e][s].digest \in signed[s]
    <3>1. RefStep(e, s, Main'[e][s])
      BY <2>1, RefSteps
    <3>2. \A i \in 1..Len(log), d \in Envs :
            log[i][d][s].digest # NoDigest => log[i][d][s].digest \in signed[s]
      BY DEF DeployedAreSigned
    <3>3. CASE Main'[e][s] = Main[e][s]
      BY <1>1, <2>2, <3>2, <3>3
    <3>4. ASSUME NEW c \in Commits, ci[s][c].at = "push", Main'[e][s] = OwnRef(s, c)
          PROVE  Main'[e][s].digest \in signed[s]
      BY <3>4 DEF OwnRef, Signed
    <3>5. CASE e \in Downstream /\ Main'[e][s] = Main[Source(e)][s]
      <4>1. Source(e) \in Envs
        BY <3>5 DEF Source, Downstream, Envs
      <4> QED
        BY <1>1, <2>2, <3>2, <3>5, <4>1
    <3>6. ASSUME NEW i \in 1..Len(log),
                 NEW d \in {log[i][e][s].digest, Main[e][s].digest},
                 Main'[e][s] = [tag |-> log[i][e][s].tag, digest |-> d]
          PROVE  Main'[e][s].digest \in signed[s]
      BY <1>1, <2>2, <3>2, <3>6
    <3> QED
      BY <3>1, <3>3, <3>4, <3>5, <3>6 DEF RefStep
  <2>3. \A i \in 1..Len(log') : i \in 1..Len(log) \/ i = Len(log) + 1
    BY <1>1, <2>1
  <2> QED
    BY <1>1, <2>1, <2>2, <2>3 DEF DeployedAreSigned
<1> QED
  BY <1>2, <1>3

LEMMA StageStep ==
  ASSUME GitopsAssumption, TypeOK, TagsHaveDigests, PassedEveryStage, LogStep
  PROVE  PassedEveryStage'
<1>1. /\ log \in Seq(Overlays) /\ log # <<>> /\ Len(log) \in Nat \ {0}
      /\ Main = log[Len(log)]
  BY DEF TypeOK, Main
<1>2. CASE UNCHANGED log
  BY <1>1, <1>2 DEF PassedEveryStage
<1>3. CASE ~ UNCHANGED log
  <2>1. /\ Len(log') = Len(log) + 1
        /\ \A i \in 1..Len(log) : log'[i] = log[i]
        /\ log'[Len(log) + 1] = Main'
        /\ Main' \in Overlays
        /\ Touch(Main') \/ Bumps(Main') \/ Promotes(Main') \/ Pins(Main')
    BY <1>3, LogGrows
  <2>2. ASSUME NEW e \in Envs \ {"dev"}, NEW s \in Svcs, Main'[e][s].digest # NoDigest
        PROVE  \E k \in 1..Len(log) :
                 log[k][StageBefore[e]][s].digest = Main'[e][s].digest
    <3>1. RefStep(e, s, Main'[e][s])
      BY <2>1, RefSteps
    <3>2. ASSUME NEW i \in 1..Len(log), log[i][e][s].digest = Main'[e][s].digest
          PROVE  \E k \in 1..Len(log) :
                   log[k][StageBefore[e]][s].digest = Main'[e][s].digest
      <4>1. \E k \in 1..(i - 1) : log[k][StageBefore[e]][s].digest = log[i][e][s].digest
        BY <2>2, <3>2 DEF PassedEveryStage
      <4>2. 1..(i - 1) \subseteq 1..Len(log)
        BY <1>1
      <4> QED
        BY <3>2, <4>1, <4>2
    <3>3. Len(log) \in 1..Len(log)
      BY <1>1
    <3>4. CASE Main'[e][s] = Main[e][s]
      BY <1>1, <3>2, <3>3, <3>4
    <3>5. CASE e \in Downstream /\ Main'[e][s] = Main[Source(e)][s]
      <4>1. StageBefore[e] = Source(e)
        BY <3>5 DEF StageBefore, Source, Downstream
      <4> QED
        BY <1>1, <3>3, <3>5, <4>1
    <3>6. ASSUME NEW i \in 1..Len(log),
                 NEW d \in {log[i][e][s].digest, Main[e][s].digest},
                 Main'[e][s] = [tag |-> log[i][e][s].tag, digest |-> d]
          PROVE  \E k \in 1..Len(log) :
                   log[k][StageBefore[e]][s].digest = Main'[e][s].digest
      <4>1. Main'[e][s].digest = d
        BY <3>6
      <4>2. d = log[i][e][s].digest \/ d = log[Len(log)][e][s].digest
        BY <1>1
      <4> QED
        BY <3>2, <3>3, <4>1, <4>2
    <3> QED
      BY <2>2, <3>1, <3>4, <3>5, <3>6 DEF RefStep
  <2>3. ASSUME NEW i \in 1..Len(log'), NEW e \in Envs \ {"dev"}, NEW s \in Svcs,
               log'[i][e][s].digest # NoDigest
        PROVE  \E k \in 1..(i - 1) :
                 log'[k][StageBefore[e]][s].digest = log'[i][e][s].digest
    <3>1. CASE i \in 1..Len(log)
      <4>1. \E k \in 1..(i - 1) : log[k][StageBefore[e]][s].digest = log[i][e][s].digest
        BY <2>1, <2>3, <3>1 DEF PassedEveryStage
      <4>2. 1..(i - 1) \subseteq 1..Len(log)
        BY <1>1, <3>1
      <4> QED
        BY <2>1, <3>1, <4>1, <4>2
    <3>2. CASE i = Len(log) + 1
      <4>1. log'[i] = Main' /\ i - 1 = Len(log)
        BY <1>1, <2>1, <3>2
      <4>2. \E k \in 1..Len(log) :
                 log[k][StageBefore[e]][s].digest = Main'[e][s].digest
        BY <2>2, <2>3, <4>1
      <4> QED
        BY <2>1, <4>1, <4>2
    <3> QED
      BY <1>1, <2>1, <3>1, <3>2
  <2> QED
    BY <2>3 DEF PassedEveryStage
<1> QED
  BY <1>2, <1>3

LEMMA SuccessStep ==
  ASSUME GitopsAssumption, TypeOK, Built, SuccessMeansLanded, LogStep, RegistryStep,
         [Next]_vars
  PROVE  SuccessMeansLanded'
<1>1. /\ log \in Seq(Overlays) /\ log # <<>> /\ Len(log) \in Nat \ {0}
      /\ Main = log[Len(log)] /\ Main \in Overlays
      /\ Len(log) <= Len(log') /\ Len(log') \in Nat
      /\ \A i \in 1..Len(log) : log'[i] = log[i]
  BY LogGrows, MainTyped DEF TypeOK, Main
<1>2. ASSUME botToken, NEW s \in Svcs, NEW c \in Commits, ci'[s][c].at = "ok"
      PROVE  \E i \in 1..Len(log') : log'[i]["dev"][s] = OwnRef(s, c)'
  <2>1. ci[s][c].at \in {"bump", "push", "ok"}
    BY <1>2, CiMoves
  <2>2. OwnRef(s, c)' = OwnRef(s, c)
    <3>1. image[s][c] # NoDigest
      BY <2>1 DEF Built
    <3>2. image'[s][c] = image[s][c]
      BY <3>1 DEF RegistryStep
    <3> QED
      BY <3>2 DEF OwnRef
  <2>3. CASE ci[s][c].at = "ok"
    BY <1>1, <1>2, <2>2, <2>3 DEF SuccessMeansLanded
  <2>4. CASE BumpFetch(s, c) /\ ci[s][c].at = "bump"
    <3>1. Main["dev"][s] = OwnRef(s, c)
      <4>1. /\ CiGoto(s, c, "failed") => ci'[s][c].at = "failed"
            /\ ci' = [ci EXCEPT ![s][c].at = "push", ![s][c].base = Len(log)]
                 => ci'[s][c].at = "push"
        BY DEF TypeOK, CiGoto
      <4> QED
        BY <1>2, <2>4, <4>1 DEF BumpFetch
    <3>2. Len(log) \in 1..Len(log')
      BY <1>1
    <3>3. log'[Len(log)]["dev"][s] = OwnRef(s, c)
      BY <1>1, <3>1
    <3> QED
      BY <2>2, <3>2, <3>3
  <2>5. CASE BumpPush(s, c)
    <3>1. log' = Append(log, [Main EXCEPT !["dev"][s] = OwnRef(s, c)])
      <4>1. /\ CiGoto(s, c, "failed") => ci'[s][c].at = "failed"
            /\ ci' = [ci EXCEPT ![s][c].at = "bump", ![s][c].attempt = @ + 1,
                                ![s][c].base = 0]
                 => ci'[s][c].at = "bump"
        BY DEF TypeOK, CiGoto
      <4> QED
        BY <1>2, <2>5, <4>1 DEF BumpPush, NextAttempt, Accepted
    <3>2. [Main EXCEPT !["dev"][s] = OwnRef(s, c)]["dev"][s] = OwnRef(s, c)
      BY <1>1 DEF Overlays, Envs
    <3>3. /\ Len(log') = Len(log) + 1
          /\ log'[Len(log) + 1]["dev"][s] = OwnRef(s, c)
      BY <1>1, <3>1, <3>2
    <3>4. Len(log) + 1 \in 1..Len(log')
      BY <1>1, <3>3
    <3> QED
      BY <2>2, <3>3, <3>4
  <2> QED
    BY <1>2, <2>3, <2>4, <2>5, CiMoves
<1>3. botToken' = botToken
  BY HistoryGrows
<1> QED
  BY <1>2, <1>3 DEF SuccessMeansLanded

LEMMA IInvStep == ASSUME GitopsAssumption, IInv, [Next]_vars PROVE IInv'
<1>1. TypeOK'
  BY TypeStep DEF IInv
<1>2. RegistryStep /\ LogStep
  BY RegistryGrows, LogSteps DEF IInv
<1>3. Built' /\ Signed'
  BY CiInvStep DEF IInv
<1>4. Verified'
  BY <1>1, VerifiedStep DEF IInv
<1>5. TagsHaveDigests' /\ TagsStay'
  BY <1>2, TagsStep DEF IInv
<1>6. DeployedAreSigned' /\ PassedEveryStage' /\ SuccessMeansLanded'
  BY <1>2, DeployedStep, StageStep, SuccessStep DEF IInv
<1> QED
  BY <1>1, <1>3, <1>4, <1>5, <1>6 DEF IInv

LEMMA Invariant == Safety => []IInv
<1>1. Init => IInv
  BY GitopsAssumption, IInvInit
<1>2. IInv /\ [Next]_vars => IInv'
  BY GitopsAssumption, IInvStep
<1> QED
  BY <1>1, <1>2, PTL DEF Safety

\* Without pins, a tag and its digest are copied and set together; and the
\* image of a tag that an overlay has is there, and immutable.
LEMMA TagNamesStep ==
  ASSUME GitopsAssumption, TypeOK, Built, TagsHaveDigests, TagNamesDigest,
         MaxRollbacks = 0, LogStep, RegistryStep
  PROVE  TagNamesDigest'
<1>1. /\ log \in Seq(Overlays) /\ log # <<>> /\ Len(log) \in Nat \ {0}
      /\ Main = log[Len(log)]
      /\ rollbacks = 0
  BY DEF TypeOK, Main
<1>2. ASSUME NEW i \in 1..Len(log), NEW e \in Envs, NEW s \in Svcs,
             log[i][e][s].tag # Placeholder
      PROVE  log[i][e][s].digest = image'[s][log[i][e][s].tag]
  <2>1. log[i][e][s].tag \in Commits
    BY <1>1, <1>2, RefsTyped
  <2>2. /\ log[i][e][s].digest = image[s][log[i][e][s].tag]
        /\ log[i][e][s].digest # NoDigest
    BY <1>2 DEF TagNamesDigest, TagsHaveDigests
  <2> QED
    BY <2>1, <2>2 DEF RegistryStep
<1>3. CASE UNCHANGED log
  BY <1>2, <1>3 DEF TagNamesDigest
<1>4. CASE ~ UNCHANGED log
  <2>1. /\ Len(log') = Len(log) + 1
        /\ \A i \in 1..Len(log) : log'[i] = log[i]
        /\ log'[Len(log) + 1] = Main'
        /\ Main' \in Overlays
        /\ Touch(Main') \/ Bumps(Main') \/ Promotes(Main') \/ Pins(Main')
    BY <1>4, LogGrows
  <2>2. ASSUME NEW e \in Envs, NEW s \in Svcs, Main'[e][s].tag # Placeholder
        PROVE  Main'[e][s].digest = image'[s][Main'[e][s].tag]
    <3>1. RefStep(e, s, Main'[e][s])
      BY <2>1, RefSteps
    <3>2. Len(log) \in 1..Len(log)
      BY <1>1
    <3>3. CASE Main'[e][s] = Main[e][s]
      BY <1>1, <1>2, <2>2, <3>2, <3>3
    <3>4. ASSUME NEW c \in Commits, ci[s][c].at = "push", Main'[e][s] = OwnRef(s, c)
          PROVE  Main'[e][s].digest = image'[s][Main'[e][s].tag]
      BY <3>4 DEF OwnRef, Built, RegistryStep
    <3>5. CASE e \in Downstream /\ Main'[e][s] = Main[Source(e)][s]
      <4>1. Source(e) \in Envs
        BY <3>5 DEF Source, Downstream, Envs
      <4> QED
        BY <1>1, <1>2, <2>2, <3>2, <3>5, <4>1
    <3> QED
      BY <1>1, <3>1, <3>3, <3>4, <3>5 DEF RefStep
  <2>3. \A i \in 1..Len(log') : i \in 1..Len(log) \/ i = Len(log) + 1
    BY <1>1, <2>1
  <2> QED
    BY <1>2, <2>1, <2>2, <2>3 DEF TagNamesDigest
<1> QED
  BY <1>3, <1>4

-----------------------------------------------------------------------------
(***************************************************************************)
(* The theorems.                                                           *)
(***************************************************************************)
\* Every variable keeps its type; in particular a checkout is a commit of
\* main, and the attempts of the bump loop stay within their bound.
THEOREM TypeCorrect == Safety => []TypeOK
<1>1. IInv => TypeOK
  BY DEF IInv
<1> QED
  BY <1>1, Invariant, PTL

\* Every digest any environment ever declared belongs to a signed image.
THEOREM OnlySignedIsDeployed == Safety => []DeployedAreSigned
<1>1. IInv => DeployedAreSigned
  BY DEF IInv
<1> QED
  BY <1>1, Invariant, PTL

\* No image reaches an environment that the one before it never declared,
\* whatever is promoted, rejected, lost or pinned by hand.
THEOREM NoStageIsSkipped == Safety => []PassedEveryStage
<1>1. IInv => PassedEveryStage
  BY DEF IInv
<1> QED
  BY <1>1, Invariant, PTL

\* Where the bot has its token, a CI run that reports success has declared its
\* image in dev.  (Without it the run succeeds and declares nothing.)
THEOREM SuccessIsReal == Safety => []SuccessMeansLanded
<1>1. IInv => SuccessMeansLanded
  BY DEF IInv
<1> QED
  BY <1>1, Invariant, PTL

\* As long as nobody pins by hand, the tag and the digest of every overlay
\* name the same image: what cosign verified by tag runs by digest.
THEOREM VerifiedIsDeployed ==
  MaxRollbacks = 0 => (Safety => []TagNamesDigest)
<1> SUFFICES ASSUME MaxRollbacks = 0
             PROVE  Safety => []TagNamesDigest
  OBVIOUS
<1>1. Init => TagNamesDigest
  BY DEF Init, TagNamesDigest, NoRef
<1>2. IInv /\ TagNamesDigest /\ [Next]_vars => TagNamesDigest'
  <2> SUFFICES ASSUME IInv, TagNamesDigest, [Next]_vars
               PROVE  TagNamesDigest'
    OBVIOUS
  <2>1. RegistryStep /\ LogStep
    BY GitopsAssumption, RegistryGrows, LogSteps DEF IInv
  <2> QED
    BY GitopsAssumption, <2>1, TagNamesStep DEF IInv
<1> QED
  BY <1>1, <1>2, Invariant, PTL DEF Safety

-----------------------------------------------------------------------------
(***************************************************************************)
(* Refinement.                                                             *)
(***************************************************************************)
Runs == [e \in Envs |-> [s \in Svcs |-> Main[e][s].digest]]

\* Signing is a step of its own.
LEMMA SignSteps ==
  ASSUME TypeOK, Built, [Next]_vars
  PROVE  \/ UNCHANGED signed
         \/ /\ UNCHANGED log
            /\ \E s \in Svcs : \E d \in Digests :
                 signed' = [signed EXCEPT ![s] = @ \cup {d}]
<1>1. ASSUME NEW s \in Svcs, NEW c \in Commits, SignAndAttest(s, c)
      PROVE  image[s][c] \in Digests
  BY <1>1 DEF SignAndAttest, Built, TypeOK
<1>2. ASSUME NEW s \in Svcs, NEW c \in Commits, SignAndAttest(s, c)
      PROVE  /\ UNCHANGED log
             /\ UNCHANGED signed \/ signed' = [signed EXCEPT ![s] = @ \cup {image[s][c]}]
  BY <1>2 DEF SignAndAttest
<1>3. ASSUME NEW s \in Svcs, NEW c \in Commits, SignAndAttest(s, c)
      PROVE  \/ UNCHANGED signed
             \/ UNCHANGED log /\ \E d \in Digests : signed' = [signed EXCEPT ![s] = @ \cup {d}]
  BY <1>1, <1>2, <1>3
<1>4. ASSUME NEW s \in Svcs, NEW c \in Commits, BuildAndPush(s, c)
      PROVE  UNCHANGED signed
  BY <1>4 DEF BuildAndPush
<1> QED
  BY <1>3, <1>4, Frames

LEMMA FlowSteps ==
  ASSUME GitopsAssumption, IInv, [Next]_vars
  PROVE  [Flow!FlowNext]_(Flow!flowVars)
<1>1. /\ log \in Seq(Overlays) /\ log # <<>> /\ Len(log) \in Nat \ {0}
      /\ Main = log[Len(log)] /\ Main \in Overlays
      /\ image \in [Svcs -> [Commits -> Digests \cup {NoDigest}]]
      /\ signed \in [Svcs -> SUBSET Digests]
      /\ NoDigest \notin Digests
      /\ Promotable \subseteq Svcs
  BY MainTyped DEF IInv, TypeOK, Main, GitopsAssumption, Digests
<1>2. LogStep
  BY LogSteps DEF IInv
<1>3. Envs = Flow!Stages
  BY DEF Envs, Flow!Stages
<1>4. CASE UNCHANGED log
  <2>1. Runs' = Runs
    BY <1>4 DEF Runs, Main
  <2>2. CASE UNCHANGED signed
    BY <2>1, <2>2 DEF Flow!flowVars, Runs
  <2>3. ASSUME NEW s \in Svcs, NEW d \in Digests,
               signed' = [signed EXCEPT ![s] = @ \cup {d}]
        PROVE  Flow!FlowNext
    <3>1. Flow!Trust(s, d)
      BY <2>1, <2>3 DEF Flow!Trust, Runs
    <3> QED
      BY <3>1 DEF Flow!FlowNext
  <2> QED
    BY <2>2, <2>3, SignSteps DEF IInv
<1>5. CASE ~ UNCHANGED log
  <2>0. UNCHANGED signed
    BY <1>5, SignSteps DEF IInv
  <2>1. /\ Main' \in Overlays
        /\ Touch(Main') \/ Bumps(Main') \/ Promotes(Main') \/ Pins(Main')
    BY <1>2, <1>5, LogGrows DEF IInv
  <2>2. ASSUME NEW e \in Envs, NEW s \in Svcs
        PROVE  /\ Main[e][s] \in Refs
               /\ Main[e][s].tag = Placeholder <=> Main[e][s].digest = NoDigest
               /\ Main[e][s].digest # NoDigest => Main[e][s].digest \in signed[s]
    BY <1>1, RefsTyped DEF IInv, TagsHaveDigests, DeployedAreSigned
  <2>3. ASSUME NEW e \in Envs, NEW s \in Svcs, NEW ref \in Refs,
               Main' = [Main EXCEPT ![e][s] = ref]
        PROVE  Runs' = [Runs EXCEPT ![e][s] = ref.digest]
    BY <1>1, <2>3 DEF Runs, Overlays
  <2>4. CASE Touch(Main')
    <3>1. Runs' = Runs
      BY <2>4 DEF Touch, Runs
    <3> QED
      BY <2>0, <3>1 DEF Flow!flowVars, Runs
  <2>5. CASE Bumps(Main')
    <3>1. PICK s \in Svcs, c \in Commits :
            ci[s][c].at = "push" /\ Main' = [Main EXCEPT !["dev"][s] = OwnRef(s, c)]
      BY <2>5 DEF Bumps
    <3>2. PICK d \in Digests : d = image[s][c] /\ d \in signed[s]
      BY <1>1, <3>1 DEF IInv, Signed
    <3>3. Runs' = [Runs EXCEPT !["dev"][s] = d]
      <4>1. OwnRef(s, c) \in Refs /\ OwnRef(s, c).digest = image[s][c] /\ "dev" \in Envs
        BY <1>1, OwnRefTyped DEF OwnRef, Envs
      <4>2. PICK ref \in Refs : ref = OwnRef(s, c)
        BY <4>1
      <4>3. Main' = [Main EXCEPT !["dev"][s] = ref]
        BY <3>1, <4>2
      <4>4. Runs' = [Runs EXCEPT !["dev"][s] = ref.digest]
        BY <2>3, <4>1, <4>3
      <4> QED
        BY <3>2, <4>1, <4>2, <4>4
    <3>4. Flow!Bump(s, d)
      BY <2>0, <3>2, <3>3 DEF Flow!Bump, Runs
    <3> QED
      BY <3>4 DEF Flow!FlowNext
  <2>6. CASE Promotes(Main')
    <3>1. PICK e \in Downstream :
            /\ Main' = Promoted(e, Main)
            /\ e # "qa" => \A s \in Promotable : TagVerifies(s, Main[Source(e)][s].tag)
      BY <2>6 DEF Promotes
    <3>2. e \in Envs /\ Source(e) \in Envs
      BY DEF Downstream, Envs, Source
    <3>3. ASSUME NEW s \in Promotable
          PROVE  /\ e # "qa" => Main[Source(e)][s].digest # NoDigest
                 /\ Copied(e, Main[Source(e)][s], Main[e][s]).digest =
                      IF Main[Source(e)][s].digest # NoDigest
                        THEN Main[Source(e)][s].digest ELSE Main[e][s].digest
      <4>1. e # "qa" => Main[Source(e)][s].tag # Placeholder
        BY <3>1 DEF TagVerifies, Commits, Placeholder, GitopsAssumption
      <4>2. s \in Svcs
        BY <1>1
      <4> QED
        BY <2>2, <3>2, <4>1, <4>2 DEF Copied
    <3>4. Runs' = [Runs EXCEPT ![e] = [s \in Svcs |->
                     IF s \in Promotable /\ Runs[Source(e)][s] # NoDigest
                       THEN Runs[Source(e)][s] ELSE @[s]]]
      <4>1. \A d \in Envs, s \in Svcs :
              Main'[d][s] = IF d = e /\ s \in Promotable
                              THEN Copied(e, Main[Source(e)][s], Main[e][s])
                              ELSE Main[d][s]
        BY <1>1, <3>1, <3>2 DEF Promoted, Overlays
      <4>2. \A d \in Envs, s \in Svcs :
              Runs[d][s] = Main[d][s].digest /\ Runs'[d][s] = Main'[d][s].digest
        BY DEF Runs
      <4>3. \A d \in Envs, s \in Svcs :
              Runs'[d][s] = IF d = e /\ s \in Promotable /\ Runs[Source(e)][s] # NoDigest
                              THEN Runs[Source(e)][s] ELSE Runs[d][s]
        BY <3>2, <3>3, <4>1, <4>2
      <4>4. Runs' = [d \in Envs |-> [s \in Svcs |-> Runs'[d][s]]]
        BY DEF Runs
      <4>5. Runs' = [d \in Envs |-> [s \in Svcs |->
                       IF d = e /\ s \in Promotable /\ Runs[Source(e)][s] # NoDigest
                         THEN Runs[Source(e)][s] ELSE Runs[d][s]]]
        BY <4>3, <4>4
      <4>6. \A d \in Envs : Runs[d] = [s \in Svcs |-> Runs[d][s]]
        BY DEF Runs
      <4>7. \A d \in Envs \ {e} : Runs'[d] = Runs[d]
        BY <4>5, <4>6
      <4>8. Runs'[e] = [s \in Svcs |->
                         IF s \in Promotable /\ Runs[Source(e)][s] # NoDigest
                           THEN Runs[Source(e)][s] ELSE Runs[e][s]]
        BY <3>2, <4>5
      <4>9. Runs = [d \in Envs |-> Runs[d]] /\ Runs' = [d \in Envs |-> Runs'[d]]
        BY DEF Runs
      <4> QED
        BY ONLY <3>2, <4>7, <4>8, <4>9
    <3>5. CASE e = "qa"
      <4>1. Flow!Nightly
        BY <2>0, <3>4, <3>5 DEF Flow!Nightly, Runs, Source
      <4> QED
        BY <4>1 DEF Flow!FlowNext
    <3>6. CASE e # "qa"
      <4>1. \A s \in Promotable :
              Runs[Source(e)][s] # NoDigest /\ Runs[Source(e)][s] \in signed[s]
        BY <1>1, <2>2, <3>2, <3>3, <3>6 DEF Runs
      <4>2. Runs' = [Runs EXCEPT ![e] = [s \in Svcs |->
                       IF s \in Promotable THEN Runs[Source(e)][s] ELSE @[s]]]
        <5>1. \A s \in Svcs :
                (IF s \in Promotable /\ Runs[Source(e)][s] # NoDigest
                   THEN Runs[Source(e)][s] ELSE Runs[e][s])
                = IF s \in Promotable THEN Runs[Source(e)][s] ELSE Runs[e][s]
          BY <4>1
        <5>2. [s \in Svcs |-> IF s \in Promotable /\ Runs[Source(e)][s] # NoDigest
                               THEN Runs[Source(e)][s] ELSE Runs[e][s]]
              = [s \in Svcs |-> IF s \in Promotable THEN Runs[Source(e)][s] ELSE Runs[e][s]]
          BY <5>1
        <5> QED
          BY <3>4, <5>2, Zenon
      <4>3. Flow!Release(Source(e), e)
        BY <2>0, <4>1, <4>2 DEF Flow!Release, Runs
      <4> QED
        BY <3>6, <4>3 DEF Flow!FlowNext, Downstream, Source
    <3> QED
      BY <3>5, <3>6
  <2>7. CASE Pins(Main')
    <3>1. PICK e \in Envs, s \in Svcs, i \in 1..Len(log) :
            /\ log[i][e][s].tag # Placeholder
            /\ \E d \in {log[i][e][s].digest, Main[e][s].digest} :
                 Main' = [Main EXCEPT ![e][s] = [tag |-> log[i][e][s].tag, digest |-> d]]
      BY <2>7 DEF Pins
    <3>2. PICK d \in {log[i][e][s].digest, Main[e][s].digest} :
            Main' = [Main EXCEPT ![e][s] = [tag |-> log[i][e][s].tag, digest |-> d]]
      BY <3>1
    <3>3. d # NoDigest /\ d \in signed[s]
      BY <1>1, <2>2, <3>1 DEF IInv, TagsHaveDigests, TagsStay, DeployedAreSigned
    <3>4. Runs' = [Runs EXCEPT ![e][s] = d]
      <4>1. [tag |-> log[i][e][s].tag, digest |-> d] \in Refs
        BY <1>1, <3>3, RefsTyped DEF Refs
      <4>2. PICK ref \in Refs : ref = [tag |-> log[i][e][s].tag, digest |-> d]
        BY <4>1
      <4>3. Main' = [Main EXCEPT ![e][s] = ref]
        BY <3>2, <4>2
      <4>4. Runs' = [Runs EXCEPT ![e][s] = ref.digest]
        BY <2>3, <4>3
      <4> QED
        BY <4>2, <4>4
    <3>5. Flow!Rollback(e, s, d)
      BY <2>0, <3>3, <3>4 DEF Flow!Rollback, Runs
    <3> QED
      BY <1>1, <1>3, <3>3, <3>5 DEF Flow!FlowNext
  <2> QED
    BY <2>1, <2>4, <2>5, <2>6, <2>7
<1> QED
  BY <1>4, <1>5

\* The workflows implement the release flow.
THEOREM Implementation == Safety => ImplementsFlow
<1>1. Init => Flow!FlowInit
  BY DEF Init, Flow!FlowInit, Main, NoRef, Envs, Flow!Stages
<1>2. IInv /\ [Next]_vars => [Flow!FlowNext]_(Flow!flowVars)
  BY GitopsAssumption, FlowSteps
<1> QED
  BY <1>1, <1>2, Invariant, PTL DEF Safety, ImplementsFlow, Flow!FlowSpec

================================================================================
