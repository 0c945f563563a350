---------------------------- MODULE GitopsPipeline ----------------------------
(***************************************************************************)
(* From a merge to production: the CI workflows of the services, the       *)
(* promotion workflows, the image registry and the branch main they share. *)
(*                                                                         *)
(* main is the only shared state the workflows write, and git gives them   *)
(* one primitive: a push is accepted only on top of the commit the job has *)
(* checked out.  log is the history of main, one entry per commit, each    *)
(* the image reference (tag and digest) of every service in every          *)
(* environment's overlay (the one overlay of ai-bot counts as dev's);      *)
(* commits that leave the overlays alone are there because they too make   *)
(* other pushes fail.  A job remembers the commit it checked out as an     *)
(* index into log.                                                         *)
(***************************************************************************)
EXTENDS Naturals, Sequences

CONSTANTS
  Svcs,          \* the services with a CI workflow
  Promotable,    \* those the promotion workflows list (all but ai-bot)
  MaxCommits,    \* bound: source commits 1..MaxCommits are merged, in order
  Touches,       \* Touches[c]: the services whose path filter commit c matches
  Jobs,          \* runs of nightly-qa, promote-uat and promote-prod
  Target,        \* Target[j]: the environment job j writes
  MaxAttempts,   \* attempts of the bump loop (5 in the code)
  MaxTries,      \* bound: how often a CI run is run, re-runs included
  MaxFaults,     \* bound: failures of steps and of the network
  MaxRollbacks,  \* bound: overlay edits by hand
  NoDigest       \* an overlay without a digest

Commits     == 1..MaxCommits
Envs        == {"dev", "qa", "uat", "prod"}
Placeholder == 0   \* the tag git-replaceme

ASSUME GitopsAssumption ==
  /\ Promotable \subseteq Svcs
  /\ MaxCommits \in Nat
  /\ Touches \in [Commits -> SUBSET Svcs]
  /\ Target \in [Jobs -> {"qa", "uat", "prod"}]
  /\ MaxAttempts \in Nat \ {0}
  /\ MaxTries \in Nat \ {0}
  /\ MaxFaults \in Nat
  /\ MaxRollbacks \in Nat
  /\ NoDigest \notin Commits \X (1..MaxTries)

VARIABLES
  log,        \* the commits of main
  merged,     \* how many source commits are merged
  image,      \* image[s][c]: the digest the tag git-<c> of s names in ECR
  signed,     \* signed[s]: the digests of s with a cosign signature
  ci,         \* ci[s][c]: the CI run of service s for source commit c
  job,        \* the promotion runs
  budget,     \* failures still to come
  rollbacks,  \* overlay edits still to come
  botToken,   \* the secret GITOPS_BOT_TOKEN is set
  raced       \* services a run of which met another one, or a pin (history)

aside == <<botToken, raced>>
vars  == <<log, merged, image, signed, ci, job, budget, rollbacks, aside>>

\* A build is not reproducible: each try of a run makes an image of its own.
Digests  == Commits \X (1..MaxTries)
Refs     == [tag : Commits \cup {Placeholder}, digest : Digests \cup {NoDigest}]
Overlays == [Envs -> [Svcs -> Refs]]

CiStates  == {"none", "build", "sign", "bump", "push", "ok", "failed"}
JobStates == {"idle", "queued", "approved", "verify", "push", "ok", "failed"}

TypeOK ==
  /\ log \in Seq(Overlays)
  /\ log # <<>>
  /\ merged \in 0..MaxCommits
  /\ image \in [Svcs -> [Commits -> Digests \cup {NoDigest}]]
  /\ signed \in [Svcs -> SUBSET Digests]
  /\ ci \in [Svcs -> [Commits -> [at : CiStates, try : 1..MaxTries,
                                  attempt : 1..MaxAttempts, base : 0..Len(log)]]]
  /\ job \in [Jobs -> [at : JobStates, tagAt : 0..Len(log), base : 0..Len(log)]]
  /\ budget \in 0..MaxFaults
  /\ rollbacks \in 0..MaxRollbacks
  /\ botToken \in BOOLEAN
  /\ raced \subseteq Svcs

Main == log[Len(log)]

NoRef == [tag |-> Placeholder, digest |-> NoDigest]

Init ==
  /\ log = <<[e \in Envs |-> [s \in Svcs |-> NoRef]]>>
  /\ merged = 0
  /\ image = [s \in Svcs |-> [c \in Commits |-> NoDigest]]
  /\ signed = [s \in Svcs |-> {}]
  /\ ci = [s \in Svcs |-> [c \in Commits |->
             [at |-> "none", try |-> 1, attempt |-> 1, base |-> 0]]]
  /\ job = [j \in Jobs |-> [at |-> "idle", tagAt |-> 0, base |-> 0]]
  /\ budget = MaxFaults
  /\ rollbacks = MaxRollbacks
  /\ botToken \in BOOLEAN
  /\ raced = {}

Fault   == budget > 0 /\ budget' = budget - 1
NoFault == UNCHANGED budget

\* The server accepts a push of overlays o made on top of commit number base.
Accepted(base, o) == base = Len(log) /\ log' = Append(log, o)

-----------------------------------------------------------------------------
(***************************************************************************)
(* Source commits and the CI runs they trigger.                            *)
(***************************************************************************)
Open(s, c) == ci[s][c].at \in {"build", "sign", "bump", "push"}

\* c is the newest commit merged that the workflow of s looks at.
Newest(s, c) ==
  /\ c <= merged /\ s \in Touches[c]
  /\ \A later \in Commits : later > c /\ later <= merged => s \notin Touches[later]

\* A pull request is merged: the workflows whose path filter matches start.
Merge ==
  /\ merged < MaxCommits
  /\ merged' = merged + 1
  /\ log' = Append(log, Main)
  /\ ci' = [s \in Svcs |->
              IF s \in Touches[merged + 1]
                THEN [ci[s] EXCEPT ![merged + 1].at = "build"]
                ELSE ci[s]]
  /\ raced' = raced \cup {s \in Touches[merged + 1] : \E c \in Commits : Open(s, c)}
  /\ UNCHANGED <<image, signed, job, budget, rollbacks, botToken>>

\* A run leaves its bump loop, or has not begun it: no attempt, no checkout.
CiGoto(s, c, state) ==
  ci' = [ci EXCEPT ![s][c] = [at |-> state, try |-> @.try, attempt |-> 1, base |-> 0]]

\* Mutant of BuildAndPush: the tags of the registry are mutable.
BuildAndPush_mutable(s, c) ==
  /\ ci[s][c].at = "build"
  /\ image' = [image EXCEPT ![s][c] = <<c, ci[s][c].try>>]
  /\ CiGoto(s, c, "sign")
  /\ UNCHANGED <<log, merged, signed, job, budget, rollbacks, aside>>

(***************************************************************************)
(* The quality job and the image build, then the push to ECR.  The tag is  *)
(* derived from the commit, and the repository's tags are immutable: a     *)
(* second push of the same tag is refused, unless the build has reproduced *)
(* the very same image.                                                    *)
(***************************************************************************)
BuildAndPush(s, c) ==
  /\ ci[s][c].at = "build"
  /\ \/ /\ NoFault
        /\ image[s][c] = NoDigest
        /\ image' = [image EXCEPT ![s][c] = <<c, ci[s][c].try>>]
        /\ CiGoto(s, c, "sign")
     \/ /\ NoFault
        /\ image[s][c] # NoDigest
        /\ CiGoto(s, c, "sign") \/ CiGoto(s, c, "failed")
        /\ UNCHANGED image
     \/ /\ Fault
        /\ CiGoto(s, c, "failed")
        /\ UNCHANGED image
  /\ UNCHANGED <<log, merged, signed, job, rollbacks, aside>>

\* Mutant of SignAndAttest: a failure does not stop the job.
SignAndAttest_continue(s, c) ==
  /\ ci[s][c].at = "sign"
  /\ \/ /\ NoFault
        /\ signed' = [signed EXCEPT ![s] = @ \cup {image[s][c]}]
     \/ Fault /\ UNCHANGED signed
  /\ CiGoto(s, c, "bump")
  /\ UNCHANGED <<log, merged, image, job, rollbacks, aside>>

\* cosign signs the pushed digest; the SBOM is generated and attested.
SignAndAttest(s, c) ==
  /\ ci[s][c].at = "sign"
  /\ \/ /\ NoFault
        /\ signed' = [signed EXCEPT ![s] = @ \cup {image[s][c]}]
        /\ CiGoto(s, c, "bump")
     \/ /\ Fault
        /\ signed' \in {signed, [signed EXCEPT ![s] = @ \cup {image[s][c]}]}
        /\ CiGoto(s, c, "failed")
  /\ UNCHANGED <<log, merged, image, job, rollbacks, aside>>

OwnRef(s, c) == [tag |-> c, digest |-> image[s][c]]

\* Bump, one attempt: fetch and reset to main, apply the reference, commit.
\* Without the bot's token nothing is bumped, and the step succeeds.  set -e: a
\* failed fetch ends the job.
BumpFetch(s, c) ==
  /\ ci[s][c].at = "bump"
  /\ \/ ~botToken /\ CiGoto(s, c, "ok") /\ NoFault
     \/ /\ botToken /\ NoFault
        /\ IF Main["dev"][s] = OwnRef(s, c)
             THEN CiGoto(s, c, "ok")
             ELSE ci' = [ci EXCEPT ![s][c].at = "push", ![s][c].base = Len(log)]
     \/ botToken /\ Fault /\ CiGoto(s, c, "failed")
  /\ UNCHANGED <<log, merged, image, signed, job, rollbacks, aside>>

\* Mutants of NextAttempt: one attempt less, one more.
NextAttempt_long(s, c) ==
  IF ci[s][c].attempt <= MaxAttempts
    THEN ci' = [ci EXCEPT ![s][c].at = "bump", ![s][c].attempt = @ + 1,
                          ![s][c].base = 0]
    ELSE CiGoto(s, c, "failed")
NextAttempt_short(s, c) ==
  IF ci[s][c].attempt + 1 < MaxAttempts
    THEN ci' = [ci EXCEPT ![s][c].at = "bump", ![s][c].attempt = @ + 1,
                          ![s][c].base = 0]
    ELSE CiGoto(s, c, "failed")

\* The next attempt after a rejected push, or the end of the loop.
NextAttempt(s, c) ==
  IF ci[s][c].attempt < MaxAttempts
    THEN ci' = [ci EXCEPT ![s][c].at = "bump", ![s][c].attempt = @ + 1,
                          ![s][c].base = 0]
    ELSE CiGoto(s, c, "failed")

\* Mutant of BumpPush: a rejected push is taken for a success.
BumpPush_ignored(s, c) ==
  /\ ci[s][c].at = "push"
  /\ \/ Accepted(ci[s][c].base, [Main EXCEPT !["dev"][s] = OwnRef(s, c)])
     \/ ci[s][c].base # Len(log) /\ UNCHANGED log
  /\ CiGoto(s, c, "ok")
  /\ UNCHANGED <<merged, image, signed, job, budget, rollbacks, aside>>

\* Bump, one attempt: the push, accepted or rejected; or it fails on the
\* network, before or after the server took it.
BumpPush(s, c) ==
  LET Accept == Accepted(ci[s][c].base, [Main EXCEPT !["dev"][s] = OwnRef(s, c)])
  IN /\ ci[s][c].at = "push"
     /\ \/ Accept /\ CiGoto(s, c, "ok") /\ NoFault
        \/ ci[s][c].base # Len(log) /\ NextAttempt(s, c) /\ UNCHANGED <<log, budget>>
        \/ Fault /\ NextAttempt(s, c) /\ (Accept \/ UNCHANGED log)
     /\ UNCHANGED <<merged, image, signed, job, rollbacks, aside>>

\* "Re-run a failed run": the whole job build-push runs again.
Rerun(s, c) ==
  /\ ci[s][c].at = "failed"
  /\ ci[s][c].try < MaxTries
  /\ ci' = [ci EXCEPT ![s][c] = [at |-> "build", try |-> @.try + 1,
                                 attempt |-> 1, base |-> 0]]
  /\ raced' = IF Newest(s, c) THEN raced ELSE raced \cup {s}
  /\ UNCHANGED <<log, merged, image, signed, job, budget, rollbacks, botToken>>

CiStep(s, c) ==
  BuildAndPush(s, c) \/ SignAndAttest(s, c) \/ BumpFetch(s, c) \/ BumpPush(s, c)

-----------------------------------------------------------------------------
(***************************************************************************)
(* Promotions.                                                             *)
(***************************************************************************)
\* Mutant of Source: uat is promoted from dev.
Source_skip(e) == IF e = "prod" THEN "uat" ELSE "dev"

Source(e) == CASE e = "qa" -> "dev" [] e = "uat" -> "qa" [] e = "prod" -> "uat"

JobGoto(j, state) == job' = [job EXCEPT ![j].at = state]
JobEnds(j, state) == job' = [job EXCEPT ![j] = [at |-> state, tagAt |-> 0, base |-> 0]]

\* nightly-qa is dispatched, or a release tag is pushed.
Trigger(j) ==
  /\ job[j].at = "idle"
  /\ job' = [job EXCEPT ![j].at = "queued", ![j].tagAt = Len(log)]
  /\ UNCHANGED <<log, merged, image, signed, ci, budget, rollbacks, aside>>

\* The reviewer of the environment prod-promote approves or rejects; GitHub
\* rejects a job that has waited for 30 days.
Review(j) ==
  /\ Target[j] = "prod"
  /\ job[j].at = "queued"
  /\ JobGoto(j, "approved") \/ JobEnds(j, "failed")
  /\ UNCHANGED <<log, merged, image, signed, ci, budget, rollbacks, aside>>

\* The job checks out main, not the tag that triggered it, with the bot's
\* token, without which the checkout fails.
Checkout(j) ==
  /\ job[j].at = IF Target[j] = "prod" THEN "approved" ELSE "queued"
  /\ \/ /\ botToken
        /\ job' = [job EXCEPT ![j].base = Len(log),
                              ![j].at = IF Target[j] = "qa" THEN "push" ELSE "verify"]
     \/ ~botToken /\ JobEnds(j, "failed")
  /\ UNCHANGED <<log, merged, image, signed, ci, budget, rollbacks, aside>>

\* cosign verify of repository:tag; a tag that is not in ECR fails as well.
TagVerifies(s, tag) == tag \in Commits /\ image[s][tag] \in signed[s]

AllVerify(j) ==
  \A s \in Promotable : TagVerifies(s, log[job[j].base][Source(Target[j])][s].tag)

\* Mutant of Verify: a signature that is missing is waited for.
Verify_waits(j) ==
  /\ job[j].at = "verify"
  /\ AllVerify(j)
  /\ JobGoto(j, "push")
  /\ UNCHANGED <<log, merged, image, signed, ci, budget, rollbacks, aside>>

Verify(j) ==
  /\ job[j].at = "verify"
  /\ IF AllVerify(j) THEN JobGoto(j, "push") ELSE JobEnds(j, "failed")
  /\ UNCHANGED <<log, merged, image, signed, ci, budget, rollbacks, aside>>

\* The reference src copied over dst: the digest only where src has one, and
\* by nightly-qa only if src is not the placeholder.
Copied(e, src, dst) ==
  IF e = "qa" /\ src.tag = Placeholder
    THEN dst
    ELSE [tag    |-> src.tag,
          digest |-> IF src.digest = NoDigest THEN dst.digest ELSE src.digest]

Promoted(e, o) ==
  [o EXCEPT ![e] = [s \in Svcs |->
     IF s \in Promotable THEN Copied(e, o[Source(e)][s], o[e][s]) ELSE o[e][s]]]

\* Mutant of PushPromotion: a forced push.
PushPromotion_force(j) ==
  /\ job[j].at = "push"
  /\ log' = Append(log, Promoted(Target[j], log[job[j].base]))
  /\ JobEnds(j, "ok")
  /\ UNCHANGED <<merged, image, signed, ci, budget, rollbacks, aside>>

\* Copy, commit and push, once.  With nothing to commit the job succeeds.
PushPromotion(j) ==
  LET old    == log[job[j].base]
      new    == Promoted(Target[j], old)
      Accept == Accepted(job[j].base, new)
  IN /\ job[j].at = "push"
     /\ \/ new = old /\ JobEnds(j, "ok") /\ UNCHANGED <<log, budget>>
        \/ new # old /\ Accept /\ JobEnds(j, "ok") /\ NoFault
        \/ /\ new # old
           /\ job[j].base # Len(log)
           /\ JobEnds(j, "failed")
           /\ UNCHANGED <<log, budget>>
        \/ new # old /\ Fault /\ JobEnds(j, "failed") /\ (Accept \/ UNCHANGED log)
     /\ UNCHANGED <<merged, image, signed, ci, rollbacks, aside>>

JobStep(j) == Review(j) \/ Checkout(j) \/ Verify(j) \/ PushPromotion(j)

-----------------------------------------------------------------------------
(***************************************************************************)
(* The runbook's rollback by hand: a pull request pins a tag that the      *)
(* overlay had before, with the digest of that time or (the runbook speaks *)
(* of the tag only) without touching the digest.                           *)
(***************************************************************************)
PinPrevious(e, s) ==
  /\ rollbacks > 0
  /\ rollbacks' = rollbacks - 1
  /\ \E i \in 1..Len(log) :
       LET old == log[i][e][s]
       IN /\ old.tag # Placeholder
          /\ old.tag # Main[e][s].tag
          /\ \E d \in {old.digest, Main[e][s].digest} :
               log' = Append(log, [Main EXCEPT ![e][s] = [tag |-> old.tag, digest |-> d]])
  /\ raced' = IF e = "dev" THEN raced \cup {s} ELSE raced
  /\ UNCHANGED <<merged, image, signed, ci, job, budget, botToken>>

-----------------------------------------------------------------------------
Next ==
  \/ Merge
  \/ \E s \in Svcs, c \in Commits : CiStep(s, c) \/ Rerun(s, c)
  \/ \E j \in Jobs : Trigger(j) \/ JobStep(j)
  \/ \E e \in Envs, s \in Svcs : PinPrevious(e, s)

Safety == Init /\ [][Next]_vars

\* Runners execute the jobs they are given; people owe the system nothing.
Fairness ==
  /\ \A s \in Svcs, c \in Commits : WF_vars(CiStep(s, c))
  /\ \A j \in Jobs : WF_vars(JobStep(j))

Spec == Safety /\ Fairness

-----------------------------------------------------------------------------
(***************************************************************************)
(* Safety.                                                                 *)
(***************************************************************************)
\* Every digest any environment ever declared belongs to a signed image:
\* the bump comes after signing, and promotions and pins only copy.  (A
\* promotion verifies the tag and deploys the digest, so that its own check
\* is not what this rests on.)
DeployedAreSigned ==
  \A i \in 1..Len(log) : \A e \in Envs, s \in Svcs :
    log[i][e][s].digest # NoDigest => log[i][e][s].digest \in signed[s]

\* The tag and the digest of a reference name the same image, so that what
\* cosign verified by tag is what the cluster runs by digest.
TagNamesDigest ==
  \A i \in 1..Len(log) : \A e \in Envs, s \in Svcs :
    LET ref == log[i][e][s]
    IN  ref.tag # Placeholder => ref.digest = image[s][ref.tag]

StageBefore == [qa |-> "dev", uat |-> "qa", prod |-> "uat"]

\* An image in qa, uat or prod was declared in the environment before it at
\* some earlier commit: no stage is skipped, also by hand.
PassedEveryStage ==
  \A i \in 1..Len(log) : \A e \in Envs \ {"dev"}, s \in Svcs :
    log[i][e][s].digest # NoDigest =>
      \E k \in 1..(i - 1) : log[k][StageBefore[e]][s].digest = log[i][e][s].digest

\* A CI run that reports success has landed, where the bot has its token: dev
\* declared its image, also when the run found nothing to commit or the answer
\* to its push got lost.
SuccessMeansLanded ==
  botToken =>
    \A s \in Svcs, c \in Commits :
      ci[s][c].at = "ok" => \E i \in 1..Len(log) : log[i]["dev"][s] = OwnRef(s, c)

\* As many commits as the bump loop has attempts never make a CI run fail, if
\* no step and no network does: every rejection is due to a commit of its own.
NoRunFails ==
  budget = MaxFaults /\ Len(log) <= MaxAttempts + 1 =>
    \A s \in Svcs, c \in Commits : ci[s][c].at # "failed"

\* "Merge to main -> dev": when every run has succeeded, dev declares, for
\* each service, the image of the newest merge that touched it.
NewestInDev ==
  botToken /\ (\A s \in Svcs, c \in Commits : ci[s][c].at \in {"none", "ok"}) =>
    \A s \in Svcs, c \in Commits : Newest(s, c) => Main["dev"][s] = OwnRef(s, c)

\* What is left of it: once the run of the newest merge of a service has
\* succeeded, dev declares its image, whatever other services, promotions and
\* earlier runs do; but for a service two runs of which were open at a time, an
\* older run of which was run again, or that was pinned in dev.
NewestUnlessRaced ==
  botToken =>
    \A s \in Svcs \ raced, c \in Commits :
      Newest(s, c) /\ ci[s][c].at = "ok" => Main["dev"][s] = OwnRef(s, c)

\* The release tag is a freeze pointer: what the triggered job is about to
\* copy is what the source environment declared when the tag was pushed.
FreezePointer ==
  \A j \in Jobs :
    Target[j] \in {"uat", "prod"} /\ job[j].at = "push" =>
      log[job[j].base][Source(Target[j])] = log[job[j].tagAt][Source(Target[j])]

-----------------------------------------------------------------------------
(***************************************************************************)
(* Liveness and refinement.                                                *)
(***************************************************************************)
\* Every CI run and every promotion ends, with success or failure.
EveryRunEnds ==
  /\ \A s \in Svcs, c \in Commits :
       ci[s][c].at # "none" ~> ci[s][c].at \in {"ok", "failed"}
  /\ \A j \in Jobs : job[j].at # "idle" ~> job[j].at \in {"ok", "failed"}

\* The workflows implement the release flow: every commit moves one service
\* of one environment to a signed image, or a whole environment to what the
\* environment before it declares in that very commit.
Flow == INSTANCE ReleaseFlow WITH
          Images  <- Digests,
          NoImage <- NoDigest,
          runs    <- [e \in Envs |-> [s \in Svcs |-> Main[e][s].digest]],
          trusted <- signed

ImplementsFlow == Flow!FlowSpec
==============================================================================
