# Verification of devops-orchestration

TLA+ models, TLC runs and TLAPS proofs for the platform in this repository: three Go services, a Next.js
page, a Slack bot, their Helm charts, the GitOps overlays, the GitHub workflows that move images through
dev, qa, uat and prod, and the Terraform and shell that run them.

`PROJECT.json` is the index: components, runs, the line of source behind every definition (`map`), one mutant
per checked property, findings, hazards and theorems. This file explains them.

## 1. Inventory

| component | state | operations | interacts with |
|---|---|---|---|
| **tasks-svc** (`apps/tasks-svc`) | table `tasks`; a NATS connection | list, create, update, delete (JWT required); `publish` after create and update | browser (HTTP), PostgreSQL, JetStream |
| **notifier-svc** (`apps/notifier-svc`) | table `notifications`; per pod: the fetched batch, the SSE subscribers with a channel of 16 each | `Subscribe` loop (Fetch 10, `handle`, `Ack`), `fanout`, `stream` | JetStream, PostgreSQL, browser (SSE) |
| **JetStream** (external) | stream `TASKS`, durable `notifier-durable` | AddStream, Publish, deliver, ack, redeliver after AckWait | the two services, of dev, qa and uat alike |
| **auth-svc** (`apps/auth-svc`) | table `users` (`email` UNIQUE); stateless tokens | signup, login, me | browser, PostgreSQL; tasks-svc verifies its tokens |
| **frontend** (`apps/frontend`) | the page's React state | load, login, signup, sign out, add, toggle, remove, receive an event | the three services |
| **ai-bot** (`apps/ai-bot`) | per question, in memory only: the conversation, the calls and results of the round, the background task | verify Slack's signature, acknowledge, tool loop, follow-up; the read tools; the write tools | Slack, Claude, Kubernetes, Prometheus, Loki, ArgoCD, GitHub |
| **database access** | pooled connections; IAM tokens of 15 min | connect, reconnect | RDS |
| **CI workflows** (`.github/workflows/ci-*`, `_reusable-ci-go-svc`) | the runs; tags in ECR, signatures | build, push, sign, attest, bump the dev overlay in up to 5 attempts, re-run | git, ECR, Sigstore |
| **promotion workflows** (`nightly-qa`, `promote-uat`, `promote-prod`) | the runs | trigger, review (prod), check out main, cosign verify, copy references, push | git, ECR |
| **overlays** (`gitops/overlays`) | tag and digest per service and environment | written by all workflows and by hand | ArgoCD, charts |
| **charts, ArgoCD** | Rollouts (canary, blue/green), PDB, HPA, analysis | sync, canary step, analysis, abort, evict, scale | Kubernetes, Karpenter, Prometheus |
| **schema migrations** | schema version, versions of pods running | expand, roll out, contract, roll back | PostgreSQL, Rollouts |
| **db-bootstrap** (`gitops/platform`) | roles, databases, grants | one script, retried | RDS |
| **runbooks** (`tools/runbooks`, `RUNBOOK.md`) | - | AMI rotation, canary rollback, schema migration, teardown | all of the above |
| **Terraform** (`infra/terraform`, `terraform-*.yaml`) | state with a DynamoDB lock | plan, apply, per environment | AWS |
| static checks, Slack messages, load tests, policies | none | - | - |

What is hard in it, and what makes each part correct:

* **task events.** A write is three steps (SQL, publish, reply) without a transaction around them; a notification
  is three more (INSERT, fan-out, ack). Pods crash between any two, acks get lost, AckWait can pass while a
  message waits in a slow batch, INSERTs fail before or after committing. Correct: nothing is announced or shown
  that is not in a table; nothing is given up before it is recorded; copies and reorderings are due to redeliveries
  only; what is published is recorded in the end; environments do not see each other's events.
* **release flow.** Five CI workflows, three promotions and people push to one branch without a lock; a push is a
  compare-and-swap. Correct: overlays name signed images only; the tag that is verified and the digest that is
  deployed are one image; no stage is skipped; no bump undoes another; what reports success has landed; every run
  ends; dev shows the newest merge (it need not, see `release_older`); a release tag freezes what it points at.
* **auth-svc.** Concurrent signups with one address; an INSERT that commits although the client sees an error; a
  token that expires while it is in use. Correct: one account per address, a token only for an account that exists.
* **frontend.** Answers that arrive late or out of order. Correct: token and address belong together; rows
  change only for their owner; the list is current if nothing got in its way.
* **ai-bot.** Slack waits three seconds, a question takes thirty; the synchronous Kubernetes client holds the one event
  loop; a tool fails, does not exist or is called with the wrong arguments; the loop meets its limit; the pod dies
  between acknowledgement and follow-up; Slack refuses the follow-up or loses its answer. Correct: Claude is sent
  conversations its API accepts; every question gets one follow-up or is abandoned by a mishap that nobody could
  answer; the summary says truly what was consulted. Tools: the read tools return what was meant, the newest when they
  cut; the write tools report what happened, also when others act between their requests.
* **rollouts.** The canary judged by metrics of all pods; `maxUnavailable: 0` against node drains; the autoscaler
  against self-healing; preStop and drain against the grace period. Correct: a drained node empties; no request is
  cut off; a bad canary does not become stable.
* **schema migration.** Old and new pods at once, and after a rollback. Correct: no running version meets a schema
  it cannot read or write; no write is lost.
* **db-bootstrap, Terraform, IAM pool, teardown.** Retried scripts, locks, expiring credentials.

`PROJECT.json` "hazards" lists what is hard to test in this code, each at its line, with the properties that watch it;
where no property does, its note says why.

## 2. Modules

```
JetStream ── TasksService ──┐
         └── NotifierService ┴─ EventPipeline ── EventPipeline_proofs ── EventOrder_proofs
EventBus  (abstract) ◄── refinement ──┘   └── MCEventPipeline

ReleaseFlow (abstract) ◄── GitopsPipeline ── GitopsPipeline_proofs ── CiRuns_proofs
                                         └── MCGitopsPipeline

AuthService ── TasksPage ── TasksPage_proofs ── PageCurrent_proofs
                        └── MCTasksPage

BotDispatch ── AiBot ── AiBot_proofs
                    └── MCAiBot
QuestionDesk (abstract) ◄── refinement ── AiBot

BotTools ── BotTools_proofs
        └── MCBotTools
```

### JetStream, TasksService, NotifierService, EventPipeline

`JetStream` is the server as the services use it (it is not in the repository): a stream in order of storing, one
durable pull consumer, explicit acks, redelivery after AckWait before anything new. It also holds the failure
budget: a step that is a failure of kind `k` says `Fault(k)`, all others `NoFault`, so that a configuration
chooses which failures happen and how many.

`TasksService` has one action per point of a handler where others can run: the SQL statement (`createTask`,
`updateTask`, `deleteTask`, each with its 404, its 500, and the 500 of a statement that did commit), `publish`,
`reply`; `Refuse` is everything that answers before the database; `StartTasksPod` is `New` with its `AddStream`,
`StopTasksPod` a crash. A request is identified with the event it publishes. `publish` discards its error, and the
message then was stored, was not, or waits in `backlog`, the buffer that nats.go keeps while it reconnects: `Flush` stores
it later, when its request has been answered long ago. While that buffer holds a message, those published after it by the
same pod queue behind it. `late` remembers which messages were given up in this way, for `RealTimeOrder`.

`NotifierService` follows the goroutine `Subscribe` with a program counter per pod: `Subscribe` (PullSubscribe,
whose failure ends the goroutine for good), `Deliver`/`FetchReturns` (one Fetch), `Insert` (`handle` up to its
INSERT; the message that does not unmarshal is left out, tasks-svc never makes one), `fanout`, `Ack`. `Connect`, `WriteEventTo`, `Disconnect` are the handler `stream`. A crash loses the
batch, the connections and their channels; rows, stream and consumer survive.

`EventPipeline` interleaves all of them and states the properties. `EventBus` is what the comments promise: an
event is published once, recorded at least once, and settled only when recorded; the refinement reads
`published` off the stream, `recorded` off the tables and `settled` off the acks.

Abstractions: a task row is its owner; a message is its request; listing, health checks and metrics change
nothing. Not modelled: the 24-hour expiry of messages, gaps in the serial, a client that retries (it would be
another request).

### GitopsPipeline

`log` is the history of main, one entry per commit, each the image references of all overlays; a job remembers
its checkout as an index into it, and `Accepted` is git's fast-forward rule. Per service and source commit there
is one CI run: `BuildAndPush` (tag `git-<sha>`, immutable in ECR), `SignAndAttest`, `BumpFetch`, `BumpPush` with
`NextAttempt`, and `Rerun`. A promotion goes through `Trigger`, `Review` (prod only), `Checkout` of main, `Verify`
(by tag) and `PushPromotion` (tag and digest, one attempt). `PinPrevious` is a person's revert pull request.
A digest is the pair of commit and try, because a rebuild gives an image of its own unless it reproduces the
first one bit by bit, which is allowed. Every step that talks to a server may fail (`Fault`), a push also after
the server has taken it. `botToken` says whether the secret `GITOPS_BOT_TOKEN` is set, once and for all jobs of a behaviour:
without it a CI run builds, pushes and signs its image, skips the bump and succeeds, and a promotion fails at its checkout.
`raced` is a history variable: the services two CI runs of which were open at a time, an older run of which was run again
after a newer merge, or that were pinned in dev by hand.

`ReleaseFlow` is the promise without jobs: an environment changes by one service moving to a signed image in dev,
by a promotion of a whole environment in one step, or by a rollback.

Abstractions: the quality job is part of `BuildAndPush`; the one overlay of ai-bot counts as dev's; the variable
`AWS_BOOTSTRAPPED` is set (without it `build-push` is skipped). Not modelled: a secret that is set or removed between two jobs, `workflow_dispatch` of a
CI workflow (builds, does not bump), images that the lifecycle policy expires, ArgoCD's sync.

### AuthService, TasksPage

`AuthService` has the table `users`, the tokens issued and one action per handler: `signup` (the UNIQUE column, the
serial that advances also when the INSERT is refused, an INSERT that fails after it has committed), `login`, `Expire`.
Each says which token it answers with.

`TasksPage` is the component `Home` in the tabs of one browser. A click sends a request into a slot of `call`, with what
its callback captures (tab, token, address, row); the services answer in any order (`ServeAuth`, `ServeList`,
`ServeWrite` with 401, 404, 500 before and after the commit); `Callback` applies the answer to whatever the page is by
then, as the code does. `SignIn` stores token and address and asks for the list (the effect of the token), `Load` is a
new page on the old local storage, whose predecessor's requests are still served, `Reject` a fetch that fails. Writing
the two items of the local storage in one callback is atomic for the other tabs. `calm` is a history variable: it
says that nothing has happened since signing in that the property `CalmPageIsCurrent` excepts, a list cut by its `LIMIT`
among them: `listTasks` returns the newest `ListLimit` rows (200 in the code) of `ownTasks`, and the page has no way to ask for
the others.

The code does not promise that the rows shown are those of the account shown: a list requested before signing out is
applied whenever it comes, also in the next session. The model has this behaviour, and `ChangedByItsOwner` says what
holds nevertheless. Here a write is one step, its publish and reply being the subject of `TasksService`.

### BotDispatch, AiBot, QuestionDesk

`AiBot` has one process with one event loop per pod. A coroutine runs until its next await, so one step reaches from one
await to the next: `slack_command` (signature, form, acknowledgement, `add_task`), an answer of Claude
(`ClaudeAsksForTools`, `ClaudeAnswers`, `ClaudeFails`), `DispatchBlock` and `ToolReturns` per call, `EndRound` with the
limit, `_resolve` with its one `post_followup`. `LoopFree` says that no coroutine of the pod holds the loop: a Kubernetes
tool does from `DispatchBlock` to `ToolReturns` (`at = "calling"`), Prometheus and Loki do not (`"waiting"`). Hence a
command can be queued behind another user's tool until Slack gives it up (`SlackGivesUp`), or the liveness probe fail
and the kubelet restart the container (`LivenessKill`). `BotDispatch` is the table behind `dispatch`: which arguments a
call binds, which exceptions each tool catches by itself, and that `dispatch` catches the rest.

The failures are Claude's (`claude`), Slack's (`slack`: refused; `late`: taken, but without an answer in time), the
pod's (`crash`, `hang`), a held loop (`slow`) and a rolling update (`rollout`): the Deployment has one replica and is
rolled by starting the new pod first, the old one dies with its tasks after 20 seconds of draining. A conversation is
which tools each message asks for and which of these calls the next one answers; texts are left out. `sent` says how much of
the conversation the last request carried (`Ask`): at the limit `EndRound` appends the last results, and no request carries
them. `SummaryIsTrue` therefore tells the calls made (all are listed) from the results Claude was sent (all, or at the limit
all but those of the last round), and reads the number in the line as what it is, a number of rounds.

`QuestionDesk` is the promise, without pods: a command is turned away or accepted, an accepted question is settled once,
by an answer or an apology, or abandoned by a mishap, and does not stay open. The refinement reads the standing of a
question off its follow-ups and, if there are none, off where its task is.

### BotTools

What the functions of `tools.py` do to the servers they call. The read tools (`_fetch` with its helpers and
`loki_query`; `argocd_app` reads one of the objects that `_fetch` reads) are operators over the objects of the Kubernetes API and the lines of Loki, compared with what their
schemas say they return. The write tools are calls of several requests between which others act: people merge and tag,
ArgoCD starts the sync it was asked for, pods terminate and are replaced, other calls do the same things. Each request
may be refused, be lost, or take effect, after which the answer says so, is lost, or has an error status all the same: a 5xx
of GitHub and every `ApiException` become `{"error"}`, as a refusal does. An error of a dispatch or a sync is therefore not safe
to repeat, and no property says so.

`dispatch` knows the read tools only; nothing in the repository calls the write tools, the ServiceAccount may only
read, and the chart sets no GitHub token. They are modelled as their signatures offer them, for somebody with a kubeconfig
(the fallback of `_init_k8s`) and a token; `rights` chooses between the two.

Seen while modelling, without a run of its own: `trim` looks for
`containerStatuses` and `readyReplicas` in the output of `to_dict()`, whose keys are `container_statuses` and
`ready_replicas`, so that the state of containers and the replica counts are never shown for the native kinds
(`to_dict` in the model does the same renaming); an event has neither spec nor status, so its reason and message are
dropped; nodes, events and secrets ignore a name; the docstring of `kubectl_get` (tools.py:63) offers `alertmanagerconfigs`,
which the schema does not and `_fetch` answers with an error. `GetIsExact` therefore speaks of which objects are returned, for the
resources of the schema that honour a name. In the other parts: `tool_calls_made`, printed as "tool calls" (main.py:97), counts
rounds; the comment at tasks-svc app.go:176-178 says that errors of `publish` are logged and that redelivery makes up for them,
while they are discarded and what is not in the stream cannot be redelivered; the Slack message "dev overlay auto-bumped"
(`_reusable-ci-go-svc.yaml:257-268`) is also sent when the token is not set and nothing was bumped; the list of tasks ends at 200
rows without a way to the others.

## 3. Runs

All configurations set `CHECK_DEADLOCK FALSE`: requests, commits and failures are bounded, so a behaviour comes
to rest when they are used up.

| run | question | instance |
|---|---|---|
| `events_faults` | do the safety properties survive every failure the code handles? | 2 requests, 2 + 2 pods, 1 task, 1 browser, channel of 1, batch of 2, any 2 of 8 kinds of failure |
| `events_crash` | does the pipeline implement the bus, and record everything published? | 2 requests, 1 + 2 pods, any 2 of crash, lost ack, slow batch |
| `events_early` | *violated*: is what was published recorded, with no failure at all? | the stream does not exist at start |
| `events_envs` | *violated*: does an event stay in its environment? | two environments, one NATS server |
| `release_promote` | signed, verified = deployed, success = landed, as many commits as attempts fail no run, refinement | 2 services (one not promoted, as ai-bot), 1 merge, all promotions, 2 attempts, 1 failure, 1 re-run, token set or not |
| `release_rollback` | no stage skipped, dev newest unless raced, every run ends | 1 service, 2 merges, nightly and rc, 1 pin, token set or not |
| `release_older` | *violated*: when all runs have succeeded, does dev declare the newest merge? | 1 service, 2 merges, no failure |
| `release_freeze` | *violated*: does a promotion copy what was there when its tag was pushed? | 1 service, 2 merges, all promotions |
| `page` | do tokens, the address shown, the rows changed and the list shown belong together? | 2 tabs, 2 addresses, 2 accounts, 2 tokens, 1 task, 2 requests in flight, 1 failure or expiry; a second task, and with it a list cut at 1 row, with one account, one token, one tab that uses it and no failure |
| `bot` | are conversations well formed, summaries true, follow-ups due, and is every question settled or abandoned by a mishap? | 2 questions, genuine or too old or empty, 2 pods, messages of Claude with no call or with three (one that holds the loop, one of a tool that does not exist, one awaited), a limit of 2 rounds, any 2 of 7 kinds of failure |
| `bot_ack` | *violated*: is every command acknowledged while Slack waits? | 2 questions, 1 pod, one slow call |
| `tools` | do the read tools return what is meant, and is what the write tools report true? | 2 calls, a workload of 2 pods with one more name, 2 commits, 1 tag, cuts at 2 events and 2 lines, 1 failure, both credentials |

Why these bounds: the races in question are between two requests, two pods or two jobs, and each needs one or two
failures. Two requests give every overlap and every order; a batch of two has a message that waits while the other is
handled; a channel of one is full after one event; two tries of a CI run meet the immutable tag; two
attempts are one that is rejected and the last, and the theorem has any number of them. Two merges of one service are an older and a
newer run. In `page`, two requests in flight give every overtaking, two tokens every change of
account, and no request is sent that the bounds would keep from being served; two constraints of
the configuration keep it small: `TwoTasksAlone` leaves out the states in which a second task meets a second account, token or tab
or a failure, `FailureApart` those after a failure in which two tabs are signed in with two accounts and two tokens. The theorems
cover both. In `bot`, two questions on one pod are
what it takes for one to hold the loop against the other, two rounds are one that goes on and one that meets the
limit, two failures are a death and what went wrong before it. In `tools`, every race is between two calls or one call
and one of the others; cuts at two lie below what there is to cut. The theorems of section 4 do not have these bounds.

Fairness. `EventPipeline!Fairness` is weak fairness of what runs by itself: Kubernetes restarts a pod that is down,
a handler goes on, the Subscribe loop goes on, AckWait passes. Clients and browsers need not do anything, and failures
are bounded, as "in the end" must assume. `GitopsPipeline!Fairness` is weak fairness of the steps of jobs: runners
execute them, and a waiting review is rejected by GitHub after 30 days. Merges, tags, re-runs and pins are up to people.
`AiBot!Fairness` is weak fairness of the steps of each question: the loop runs its ready tasks in turn; Claude, Slack,
Prometheus and Loki answer or run into the time limits of their clients. The Kubernetes client sets none, so its servers
are assumed to answer. `TasksPage` and `BotTools` have safety properties only and assume no fairness.

What the violated runs show is listed under "findings" in `PROJECT.json`, each with the sentence of the repository it
contradicts. In short: a notifier-svc that comes up before the stream never consumes and still reports healthy
(`events_early`); dev, qa and uat consume each other's events (`events_envs`); a release tag does not freeze what it points
at (`release_freeze`); of two CI runs of one service the older may bump last, and dev keeps its image (`release_older`); a slow Kubernetes call makes the bot miss another user's three seconds (`bot_ack`).

Others the models contain and the passing properties are worded around. An event is lost when its publish fails (there
is no outbox) and when its INSERT fails (it is acknowledged all the same): `AckedAreAccounted` names the second cause, and
`events_crash` has neither failure. An event that publish has given up may come behind that of a later request:
`RealTimeOrder` names it. A CI run without the token of the bot succeeds and lands nothing: `SuccessMeansLanded` is about the
repository that has the token. Two open runs of one service: `NewestUnlessRaced` is what is left of "the newest merge is in
dev". A pin by hand of the tag alone leaves the digest, which the charts prefer: `TagNamesDigest` is checked without pins.

## 4. Proofs

`EventPipeline_proofs` proves, for any number of pods, requests, browsers, environments, failures, and any capacities:

| theorem | states |
|---|---|
| `TypeCorrect` | `Safety => []TypeOK` |
| `OnlyCommittedIsPublished` | `Safety => []PublishedAreCommitted` |
| `NothingIsPublishedTwice` | `Safety => []PublishedOnce` |
| `OnlyPersistedIsShown` | `Safety => []ShownArePersisted` |
| `NothingElseIsLost` | `Safety => []AckedAreAccounted` |
| `Implementation` | `Safety => ImplementsBus`, if `"insert" \notin FaultKinds` |

Argument. None of these invariants is inductive. `IInv` adds what a handler or a loop knows at each of its points:
`ReqInv` (a request that has not run its statement is neither in the table nor in the stream; one about to publish
is in the table and not in the stream), `BacklogInv` (what waits in the buffer of a pod is committed, is there once, and is not in
the stream), `LoopInv` (a loop that is past the INSERT of its message has a row or a
failed INSERT to show, and holds stored messages only), `PendingInv` (what JetStream may redeliver was stored) and
`ConnInv` (a browser is connected to a pod of its environment). `EveryStep` shows that each step is one of the
server's operations, so that the server's part is proved once; the lemmas `TasksKeepTasksInv` and
`NotifierKeepsNotifierInv` go through the actions of each service. The refinement maps `publish` to `Publish`,
`Insert` to `Record`, `Ack` to `Settle` and all else to stuttering. The assumptions used are those on the constants.

`EventOrder_proofs` stands on that invariant and proves, for the same constants, how events follow each other and how
often they come:

| theorem | states |
|---|---|
| `StreamFollowsAnswers` | `Safety => []RealTimeOrder` |
| `CopiesAreRedeliveries` | `Safety => []DuplicatesAreRedeliveries` |
| `ConnectionsFollowStream` | `Safety => []StreamOrderPerConnection` |

Argument. Each theorem has an invariant of its own beside `IInv`. `OrderInv`: what was answered before a request
committed has come to its end, so that its event, if it has one, is in the stream already when the request publishes, or was given
up; and nothing that waits in a buffer has to precede what is stored, or what stands before it there.
`InsertInv`: the rows of an event and the copies of it that are still to be inserted, in any batch, are together no more
than its deliveries; an INSERT moves one from the one side to the other, a crash drops copies, and only a delivery adds
one. `ShownInv`: what a loop has passed, then the rest of its batch, then what the consumer has not delivered yet stand
in the order of the stream, except for what was redelivered; so a fan-out appends to a channel something that comes after
all that the connection was shown or has queued. Full channels and cut connections only leave events out, which
keeps the order.

Only model-checked: `PublishedEventuallyPersisted`, a liveness property, which is out of the prover's reach.

`GitopsPipeline_proofs` proves, for any services, source commits, jobs, attempts, re-runs, pins and failures:

| theorem | states |
|---|---|
| `TypeCorrect` | `Safety => []TypeOK` |
| `OnlySignedIsDeployed` | `Safety => []DeployedAreSigned` |
| `NoStageIsSkipped` | `Safety => []PassedEveryStage` |
| `SuccessIsReal` | `Safety => []SuccessMeansLanded` (where the token of the bot is set) |
| `VerifiedIsDeployed` | `Safety => []TagNamesDigest`, if `MaxRollbacks = 0` |
| `Implementation` | `Safety => ImplementsFlow` |

Argument. Two lemmas say what a step can do at all: `RegistryGrows` (a tag keeps its image, a signature stays) and
`LogSteps` (main grows by at most one entry, which touches nothing, bumps, promotes or pins). `RefSteps` then says how
one reference of one overlay can change, and each invariant is shown of the new entry only, by the same four cases.
What has to be known beside the properties: a CI run past its build has an image (`Built`), one past signing a signed
one (`Signed`); a promotion about to push has verified what its checkout declares, and that does not expire
(`Verified`); an overlay has a digest exactly if it has a tag (`TagsHaveDigests`), and keeps having one (`TagsStay`).
`TypeOK` alone is not inductive: that only images get signed needs `Built`. Without `MaxRollbacks = 0`
`TagNamesDigest` is false: `PinPrevious` writes a tag and leaves the digest. The other theorems hold with pins.

`CiRuns_proofs` proves what CI runs do to each other, for the same constants:

| theorem | states |
|---|---|
| `NewestUnlessRacing` | `Safety => []NewestUnlessRaced` |
| `AttemptsAreEnough` | `Safety => []NoRunFails` |
| `RacingRunsSucceed` | `Safety => []NoneFailed`, if `EnoughAttempts`: no failures, finitely many services and jobs, and all CI runs, merges, promotions and pins are together at most `MaxAttempts + 1` |

Argument. `Started` says which runs there are: those of the services a merged commit touches. For `NewestUnlessRacing`,
`NewestIsAlone`: while a service is not raced, no run of it is open but that of its newest merge. Only a bump of a run and a
pin write a service in dev (`DevWrites`), so what the run of the newest merge has landed stays, through any other
merges, re-runs, promotions and failures. Without `raced` the statement is false, which is what `release_older` shows. For
`AttemptsAreEnough`, `AttemptsSeen`: a push is rejected only if main has grown since the run checked it out, so an attempt has seen a commit
more than the one before, and as many commits as attempts never make a run fail. `RacingRunsSucceed` bounds these commits:
`MainIsShort` says that main has none but those of the merges, of the runs that have landed, of the promotions that have ended
and of the pins; the run that is still trying is not among them, which leaves it an attempt. One merge of all five services
makes six, one more than the five attempts of the code. With one attempt less TLC finds the run that fails (the
mutant `NextAttempt_short`).

Only model-checked: `EveryRunEnds` (liveness).

`TasksPage_proofs` proves, for any number of tabs, requests in flight, accounts, tokens, tasks and failures:

| theorem | states |
|---|---|
| `OneAccountEach` | `Spec => []OneAccount` |
| `Identity` | `Spec => []IdentityShown` |
| `OwnersOnly` | `Spec => ChangedByItsOwner` |

Argument. `IInv` follows a token from the account it was issued for to the pages: wherever a token is held (the
storage, a page, a request in flight), the address held with it is that of the token's account (`Goes`). It
needs that accounts are unique per address and that ids at rest were drawn (`AccountsOnce`, `RowsDrawn`), and that a
request to sign in carries the address of its credentials (`RequestTrue`). Accounts and tokens only grow
(`GoesOn`), so what is true of a token stays true. What the pages list is not part of the argument.

`PageCurrent_proofs` stands on that invariant and proves, for the same constants, what the pages list:

| theorem | states |
|---|---|
| `TypeCorrect` | `Spec => []TypeOK` |
| `CalmIsCurrent` | `Spec => []CalmPageIsCurrent` |

Argument. `Typed` adds to `TypeOK` that the ids of all rows seen, in a list or in an answer, were drawn, so that no new
task is taken for one of them. `CalmInv` says where a calm page stands. It is `Loading`: only the list is awaited, and
if it was served it is the table of the account. Or it is `Working`: no list is awaited, the commands in flight concern
different rows (`Apart`), and the rows shown are those of the table but for the commands that were served and not yet
applied (`IdsAgree`, `DoneAgree`): one that is created there is missing here, one that is deleted there is still shown, one
that is toggled there has its old mark. Each answer, in whatever order it comes, settles one such difference, and when
nothing is awaited there is none. A list that was cut disturbs the page it goes to, so that a calm page has the whole table
(`ServedIs`). That the page then has the rows of the table, each of them once, is `CalmShows`.
The filtering and deleting of rows is `Kept` of the model, which numbers the places that stay by cardinalities: for the
library's `SelectSeq`, defined by recursion, the provers know nothing.

Nothing of `TasksPage` is only model-checked.

`AiBot_proofs` proves, for any questions, commands, pods, tools, messages of Claude, limit and failures:

| theorem | states |
|---|---|
| `TypeCorrect` | `Safety => []TypeOK` |
| `Conversations` | `Safety => []ConversationWellFormed` |
| `FollowUps` | `Safety => []FollowUpsAreDue` |
| `SummaryTrue` | `Safety => []SummaryIsTrue` |
| `ErrorsReachClaude` | `Safety => ToolErrorsReachClaude` |
| `Implementation` | `Safety => Desk!DeskSafety`, the safety of `ImplementsDesk` |

Argument. `IInv` says what the process knows of a question at each point of its handler (`Stage`), that the conversation
is well formed (`WellFormed`) and how rounds and calls are counted (`Counted`). In the middle of a round the
conversation ends in a message whose calls are not answered yet; there `Halfway` holds: the results at hand, followed by
the calls still to dispatch, are the calls of that message. `EndRound` finds no calls left, so the results answer it.
`OneQuestion` shows that a step of one question leaves the others alone, so that each step is proved for its own
question; the death of a pod is the one step that touches several, and maps to `Abandon`. The types are not inductive
without `Stage`: that `EndRound` stays within the limit needs that the loop is only entered below it.
`SummaryTrue` relates two histories that are written at different times: `tools_used`, to which `dispatch` is about to add
when a call begins, and the conversation, to which a round is added when all its calls have ended. The invariant gives
every ended round its place in `tools_used`: its calls stand there in order from its offset on, the rounds one after
the other, and what comes after the last of them are the calls the running round has begun. `EndRound` makes this
rest a round. `Told` says how many rounds the last request carried: all of them while Claude is asked, and all but the one
`EndRound` has just appended at the limit. The property speaks of these places (`RoundsListed`) and not of a flattened sequence, of which
the provers know nothing.

Only model-checked: `EveryQuestionResolved` and the liveness of `ImplementsDesk`.

`BotTools_proofs` proves, for any calls at once, commits, tags, pods, objects, credentials and failures:

| theorem | states |
|---|---|
| `Restarts` | `Spec => []RestartAccounts` |
| `TagsAsReported` | `Spec => []TagIsAsReported` |
| `TypeCorrect` | `Spec => []TypeOK` |
| `GetExact` | `Spec => []GetIsExact` |
| `EventsExact` | `Spec => []EventsAreNewest` |
| `LokiExact` | `Spec => []LokiShowsNewest` |

Argument. `Known` is what a call knows at each of its points and what follows from its outcome; `World` is what no
step undoes: commits and tags stay, a name once used is not used again, a pod stopped does not run again. So what a
call knows stays true while others act (`KnownOn`), and each action is proved for the call that takes it (`OneCall`).
`GetExact` holds of every state: it compares the code's selection with the meaning of its
arguments, for all objects the API may hold. So does `EventsExact`, for which each event gets a place in the sorted list
(newest first, ties in any order), so that the first `k` places are `k` events of which none is older than one that is cut.
`LokiExact` needs to know how the lines came about: their times are those from 1 to their number, each once, and each pod
writes two at most, which is also what bounds the lines in `TypeCorrect`. The limit then cuts each stream, the limit of the
tool cuts the whole, and a line that one of them drops is older than as many others as are shown. The proofs use that the
names of pods and the given objects are finitely many and that two objects differ in kind, namespace or name
(`ToolsAssumption`).

Nothing of `BotTools` is only model-checked.

The assumptions of all proofs are the ASSUMEs on the constants, which
TLC evaluates in the runs, and the conditions named above. What remains to TLC is liveness: `PublishedEventuallyPersisted`,
`EveryRunEnds`, `EveryQuestionResolved` and the liveness half of `ImplementsDesk`. It needs fairness and ENABLED, which the
prover does not handle.

## 5. Not modelled, and why

* **Rollouts, node rotation, autoscaling, pod shutdown.** The charts declare them; canary steps, analysis, eviction,
  scaling and draining are the behaviour of Argo Rollouts, Karpenter, the autoscaler and the kubelet. A model would be of
  those programs with this repository's values as constants. What can be said without one is in the hazards: the sum
  of preStop and drain exceeds the grace period, `maxUnavailable: 0` refuses every eviction, two controllers own the
  replica count. Pods that die are crashes of `EventPipeline` and `AiBot`.
* **Schema migrations.** `schema-migration.sh` prints a procedure; the releases it speaks of (handlers that write both
  columns, a second migration) are not in the repository.
* **db-bootstrap.** One script of statements that each make what is missing; every prefix can be run again, and one Job
  runs at a time. Nothing interleaves.
* **Database connections with IAM tokens.** A token is made before every connection and not kept; what can fail is a
  statement, which the modules of the services have.
* **Terraform and its workflows, teardown, populate scripts.** Declarations and commands executed by AWS; the state lock
  orders the applies.
* **The lifecycle policy of ECR.** It expires images at times of its own; which ones an overlay still names is a question
  to the registry's rule language. Immutable tags, the other half of that module, are in `GitopsPipeline`.
* **ArgoCD.** `GitopsPipeline` ends at the commit that ArgoCD reads.
* **Static checks, Slack messages of workflows, dashboards, load tests.** No state of the system depends on them.
* Within the modelled parts: the 24-hour expiry of the stream, `workflow_dispatch` of a CI workflow, toasts, filter and
  statistics of the page, texts and prompts of the bot, health checks and metrics.
