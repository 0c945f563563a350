-------------------------------- MODULE AiBot --------------------------------
(***************************************************************************)
(* The Slack bot: main.py (commands and background tasks), claude.py (the  *)
(* tool loop), slack.py (signature, follow-up) and the pods it runs in.    *)
(*                                                                         *)
(* A pod is one process with one event loop.  A coroutine runs until its   *)
(* next await, so a step here reaches from one await to the next: the      *)
(* handler slack_command, the arrival of an answer of Claude, the answer   *)
(* of Prometheus or Loki, the answer of Slack.  The Kubernetes client is   *)
(* not awaited: while one of its calls lasts, the loop of the pod stands   *)
(* still.  Nothing of a question is kept outside the process.              *)
(*                                                                         *)
(* Claude, Slack, the kubelet and the servers behind the tools are         *)
(* external and answer as they like.  Texts are left out, except for which *)
(* tools a message asks for and which of these calls a message answers.    *)
(***************************************************************************)
EXTENDS BotDispatch, Integers, Sequences

CONSTANTS
  Questions,          \* the commands typed, one each
  Commands,           \* what a POST to /slack/command can be
  SignatureWindow,    \* how old a signed request may be
  Pods,
  Tools,              \* the names Claude asks for, also ones that do not exist
  MessagesOfClaude,   \* bound: the tools one message can name, as sequences
  max_tool_iterations,
  FaultKinds,         \* the failures that may happen
  MaxFaults,          \* bound: how many do
  NoPod, NoCommand, NoAnswer

Answers == [tool_calls_made : Nat, tools_used : Seq(Tools)]

ASSUME BotAssumption ==
  /\ Commands \subseteq [age : Int, signed : BOOLEAN, text : BOOLEAN, url : BOOLEAN]
  /\ SignatureWindow \in Nat
  /\ MessagesOfClaude \subseteq Seq(Tools)
  /\ max_tool_iterations \in Nat \ {0} /\ MaxFaults \in Nat
  /\ NoPod \notin Pods /\ NoCommand \notin Commands /\ NoAnswer \notin Answers

VARIABLES
  pod,        \* pod[p]: up, draining (SIGTERM received) or down
  command,    \* command[q]: the request Slack has sent
  home,       \* home[q]: the pod that serves it
  at,         \* at[q]: where its handler or its background task is
  ack,        \* ack[q]: the immediate reply Slack shows
  reply,      \* reply[q]: the follow-ups Slack has accepted
  messages,   \* messages[q]: the conversation with Claude
  sent,       \* sent[q]: how many of them the last request to Claude carried
  iteration,  \* iteration[q]: the rounds of tools so far
  blocks,     \* blocks[q]: the tool_use blocks of this round yet to dispatch
  results,    \* results[q]: the tool_result blocks of this round
  tools_used, \* tools_used[q]: as in answer_question
  answer,     \* answer[q]: the Answer it returned
  faults      \* the failures so far

loopVars == <<messages, sent, iteration, blocks, results, tools_used, answer>>
vars     == <<pod, command, home, at, ack, reply, loopVars, faults>>

Blocks  == [id : Nat \X Nat, name : Tools]
Turns   == [role : {"user", "assistant"}, uses : Seq(Blocks), results : Seq(Nat \X Nat)]

InLoop == {"asking", "dispatch", "calling", "waiting"}
Open   == InLoop \cup {"posting", "apologising"}
Ended  == {"closed", "done", "failed", "refused", "lost"}

\* The state has the right shape.
TypeOK ==
  /\ pod \in [Pods -> {"up", "draining", "down"}]
  /\ command \in [Questions -> Commands \cup {NoCommand}]
  /\ home \in [Questions -> Pods \cup {NoPod}]
  /\ at \in [Questions -> Open \cup Ended \cup {"idle", "queued"}]
  /\ ack \in [Questions -> {"none", "thinking", "usage", "unauthorized", "timeout"}]
  /\ reply \in [Questions -> Seq({"answer", "apology"})]
  /\ messages \in [Questions -> Seq(Turns)]
  /\ sent \in [Questions -> Nat]
  /\ iteration \in [Questions -> 0..max_tool_iterations]
  /\ blocks \in [Questions -> Seq(Blocks)]
  /\ results \in [Questions -> Seq(Nat \X Nat)]
  /\ tools_used \in [Questions -> Seq(Tools)]
  /\ answer \in [Questions -> Answers \cup {NoAnswer}]
  /\ faults \in 0..MaxFaults

Init ==
  /\ \E p \in Pods : pod = [r \in Pods |-> IF r = p THEN "up" ELSE "down"]
  /\ command = [q \in Questions |-> NoCommand]
  /\ home = [q \in Questions |-> NoPod]
  /\ at = [q \in Questions |-> "idle"]
  /\ ack = [q \in Questions |-> "none"]
  /\ reply = [q \in Questions |-> <<>>]
  /\ messages = [q \in Questions |-> <<>>]
  /\ sent = [q \in Questions |-> 0]
  /\ iteration = [q \in Questions |-> 0]
  /\ blocks = [q \in Questions |-> <<>>]
  /\ results = [q \in Questions |-> <<>>]
  /\ tools_used = [q \in Questions |-> <<>>]
  /\ answer = [q \in Questions |-> NoAnswer]
  /\ faults = 0

Fault(kind) == kind \in FaultKinds /\ faults < MaxFaults /\ faults' = faults + 1
NoFault     == UNCHANGED faults

Go(q, place) == at' = [at EXCEPT ![q] = place]

Serves(p, q)  == home[q] = p /\ at[q] \in Open \cup {"queued"}
\* A coroutine of the pod holds the loop: between two awaits, or in a
\* synchronous call.
LoopFree(p)   == \A q \in Questions : home[q] = p => at[q] \notin {"dispatch", "calling"}
Scheduled(q)  == LoopFree(home[q])

-----------------------------------------------------------------------------
(***************************************************************************)
(* The command: Slack's request and the handler.                           *)
(***************************************************************************)
Send(q, p) ==
  /\ at[q] = "idle" /\ pod[p] = "up"
  /\ \E c \in Commands : command' = [command EXCEPT ![q] = c]
  /\ home' = [home EXCEPT ![q] = p]
  /\ Go(q, "queued")
  /\ NoFault /\ UNCHANGED <<pod, ack, reply, loopVars>>

\* Slack waits 3 seconds.  The handler itself takes none; it is late when the
\* loop stands still in a slow call of the Kubernetes API.
SlackGivesUp(q) ==
  /\ at[q] = "queued" /\ ack[q] = "none"
  /\ \E r \in Questions : /\ home[r] = home[q] /\ at[r] = "calling"
                          /\ Head(blocks[r]).name \in Blocking
  /\ Fault("slow")
  /\ ack' = [ack EXCEPT ![q] = "timeout"]
  /\ UNCHANGED <<pod, command, home, at, reply, loopVars>>

\* An immediate reply counts only while Slack waits for it.
Respond(q, with) == ack' = [ack EXCEPT ![q] = IF @ = "none" THEN with ELSE @]

\* Mutant of verify_signature: the age is not looked at.
verify_signature_any_age(c) == c.signed

verify_signature(c) ==
  /\ -SignatureWindow <= c.age /\ c.age <= SignatureWindow
  /\ c.signed

Question == [role |-> "user", uses |-> <<>>, results |-> <<>>]

\* client.messages.create(..., messages=messages): Claude is given them all.
Ask(q) ==
  /\ sent' = [sent EXCEPT ![q] = Len(messages'[q])]
  /\ Go(q, "asking")

\* background.add_task(_resolve, ...) and return thinking_response: the task
\* starts when the response is out, whether or not Slack still waits for it.
Accept(q) ==
  /\ Respond(q, "thinking")
  /\ messages' = [messages EXCEPT ![q] = <<Question>>]
  /\ Ask(q)
  /\ UNCHANGED <<iteration, blocks, results, tools_used, answer>>

TurnAway(q, with) ==
  /\ Respond(q, with)
  /\ Go(q, "closed")
  /\ UNCHANGED loopVars

slack_command(q) ==
  LET c == command[q]
  IN /\ at[q] = "queued" /\ Scheduled(q)
     /\ \/ ~verify_signature(c) /\ TurnAway(q, "unauthorized")
        \/ verify_signature(c) /\ ~(c.text /\ c.url) /\ TurnAway(q, "usage")
        \/ verify_signature(c) /\ c.text /\ c.url /\ Accept(q)
     /\ NoFault /\ UNCHANGED <<pod, command, home, reply>>
-----------------------------------------------------------------------------
(***************************************************************************)
(* The tool loop, answer_question.                                         *)
(***************************************************************************)
Append_(q, turn) == messages' = [messages EXCEPT ![q] = Append(@, turn)]

Numbered(q, names) ==
  [i \in DOMAIN names |-> [id |-> <<iteration[q], i>>, name |-> names[i]]]

Said(q, names) == [role |-> "assistant", uses |-> Numbered(q, names), results |-> <<>>]

\* stop_reason = "tool_use": there is something to call.
ClaudeAsksForTools(q) ==
  /\ at[q] = "asking" /\ Scheduled(q)
  /\ \E names \in MessagesOfClaude :
       /\ names # <<>>
       /\ Append_(q, Said(q, names))
       /\ blocks' = [blocks EXCEPT ![q] = Numbered(q, names)]
  /\ Go(q, "dispatch")
  /\ NoFault
  /\ UNCHANGED <<pod, command, home, ack, reply, sent, iteration, results, tools_used, answer>>

Return(q, count) ==
  /\ answer' = [answer EXCEPT ![q] = [tool_calls_made |-> count, tools_used |-> tools_used[q]]]
  /\ Go(q, "posting")

\* Mutant of ClaudeAnswers: the rounds are counted from one.
ClaudeAnswers_from_one(q) ==
  /\ at[q] = "asking" /\ Scheduled(q)
  /\ \E names \in MessagesOfClaude : Append_(q, Said(q, names))
  /\ Return(q, iteration[q] + 1)
  /\ NoFault
  /\ UNCHANGED <<pod, command, home, ack, reply, sent, iteration, blocks, results, tools_used>>

\* Any other stop_reason ends the loop.  A message cut off at max_tokens may
\* hold tool_use blocks; they are ignored.
ClaudeAnswers(q) ==
  /\ at[q] = "asking" /\ Scheduled(q)
  /\ \E names \in MessagesOfClaude : Append_(q, Said(q, names))
  /\ Return(q, iteration[q])
  /\ NoFault
  /\ UNCHANGED <<pod, command, home, ack, reply, sent, iteration, blocks, results, tools_used>>

\* Mutant of ClaudeFails: _resolve does not catch it.
ClaudeFails_uncaught(q) ==
  /\ at[q] = "asking" /\ Scheduled(q)
  /\ Go(q, "failed")
  /\ Fault("claude")
  /\ UNCHANGED <<pod, command, home, ack, reply, loopVars>>

\* The API refuses or does not answer: the exception reaches _resolve.
ClaudeFails(q) ==
  /\ at[q] = "asking" /\ Scheduled(q)
  /\ Go(q, "apologising")
  /\ Fault("claude")
  /\ UNCHANGED <<pod, command, home, ack, reply, loopVars>>

DispatchBlock(q) ==
  /\ at[q] = "dispatch" /\ blocks[q] # <<>>
  /\ LET name == Head(blocks[q]).name
     IN /\ tools_used' = [tools_used EXCEPT ![q] = Append(@, name)]
        /\ Go(q, IF name \in Awaited THEN "waiting" ELSE "calling")
  /\ NoFault
  /\ UNCHANGED <<pod, command, home, ack, reply, messages, sent, iteration, blocks, results,
                 answer>>

\* What Claude can pass: what the schema requires, nothing, or something else.
Inputs(tool) ==
  LET required == IF tool \in Registered THEN TOOL_SCHEMAS[tool].required ELSE {}
  IN {required, {}, required \cup {"something else"}}

\* Mutant of Keep: an error is logged, but Claude gets no result for its call.
Keep_results_only(q, outcome) ==
  results' = [results EXCEPT ![q] = IF outcome = "result" THEN Append(@, Head(blocks[q]).id) ELSE @]

\* Claude gets the result and the error alike.
Keep(q, outcome) == results' = [results EXCEPT ![q] = Append(@, Head(blocks[q]).id)]

\* Whatever dispatch returns is kept; what it raised would reach _resolve.
ToolReturns(q) ==
  LET name == Head(blocks[q]).name
  IN /\ at[q] = "calling" \/ (at[q] = "waiting" /\ Scheduled(q))
     /\ \E given \in Inputs(name), server \in Servers :
          LET outcome == dispatch(name, given, server)
          IN IF outcome = "raised"
             THEN Go(q, "apologising") /\ UNCHANGED <<blocks, results>>
             ELSE /\ Keep(q, outcome)
                  /\ blocks' = [blocks EXCEPT ![q] = Tail(@)]
                  /\ Go(q, "dispatch")
     /\ NoFault
     /\ UNCHANGED <<pod, command, home, ack, reply, messages, sent, iteration, tools_used,
                    answer>>

\* Mutant of EndRound: the limit is looked at after one round more.
EndRound_late(q) ==
  /\ at[q] = "dispatch" /\ blocks[q] = <<>>
  /\ Append_(q, [role |-> "user", uses |-> <<>>, results |-> results[q]])
  /\ results' = [results EXCEPT ![q] = <<>>]
  /\ iteration' = [iteration EXCEPT ![q] = @ + 1]
  /\ IF iteration[q] = max_tool_iterations
     THEN Return(q, max_tool_iterations) /\ UNCHANGED sent
     ELSE Ask(q) /\ UNCHANGED answer
  /\ NoFault
  /\ UNCHANGED <<pod, command, home, ack, reply, blocks, tools_used>>

\* At the limit the bot answers for itself: the last results are appended, but
\* no request carries them.
EndRound(q) ==
  /\ at[q] = "dispatch" /\ blocks[q] = <<>>
  /\ Append_(q, [role |-> "user", uses |-> <<>>, results |-> results[q]])
  /\ results' = [results EXCEPT ![q] = <<>>]
  /\ iteration' = [iteration EXCEPT ![q] = @ + 1]
  /\ IF iteration[q] + 1 = max_tool_iterations
     THEN Return(q, max_tool_iterations) /\ UNCHANGED sent
     ELSE Ask(q) /\ UNCHANGED answer
  /\ NoFault
  /\ UNCHANGED <<pod, command, home, ack, reply, blocks, tools_used>>
-----------------------------------------------------------------------------
(***************************************************************************)
(* The follow-up: one POST to response_url, not repeated.                  *)
(***************************************************************************)
Accepted(q, what) == reply' = [reply EXCEPT ![q] = Append(@, what)]

\* Mutant of post_followup: a follow-up that failed ends in the apology.
post_followup_in_try(q, what) ==
  \/ Accepted(q, what) /\ Go(q, "done") /\ NoFault
  \/ Accepted(q, what) /\ Go(q, "apologising") /\ Fault("late")
  \/ UNCHANGED reply /\ Go(q, "apologising") /\ Fault("slack")

\* Slack takes it; or takes it but answers too late (20 s) or with an error;
\* or refuses it (a URL older than 30 minutes, a text too long for a block,
\* an outage).  raise_for_status ends the task in the last two cases.
post_followup(q, what) ==
  \/ Accepted(q, what) /\ Go(q, "done") /\ NoFault
  \/ Accepted(q, what) /\ Go(q, "failed") /\ Fault("late")
  \/ UNCHANGED reply /\ Go(q, "refused") /\ Fault("slack")

_resolve(q) ==
  /\ Scheduled(q)
  /\ \/ at[q] = "posting" /\ post_followup(q, "answer")
     \/ at[q] = "apologising" /\ post_followup(q, "apology")
  /\ UNCHANGED <<pod, command, home, ack, loopVars>>
-----------------------------------------------------------------------------
(***************************************************************************)
(* The pods: a Deployment with one replica, which is rolled by bringing up *)
(* the new pod first.                                                      *)
(***************************************************************************)
\* The process ends: its tasks are gone, its open requests are cut.
Die(p) ==
  /\ pod' = [pod EXCEPT ![p] = "down"]
  /\ at' = [q \in Questions |-> IF Serves(p, q) THEN "lost" ELSE at[q]]
  /\ ack' = [q \in Questions |-> IF Serves(p, q) /\ ack[q] = "none" THEN "timeout" ELSE ack[q]]
  /\ UNCHANGED <<command, home, reply, loopVars>>

Crash(p) == pod[p] # "down" /\ Fault("crash") /\ Die(p)

\* The liveness probe is not answered while the loop stands still; after three
\* failures the kubelet restarts the container.
LivenessKill(p) ==
  /\ pod[p] # "down"
  /\ \E q \in Questions : home[q] = p /\ at[q] = "calling" /\ Head(blocks[q]).name \in Blocking
  /\ Fault("hang")
  /\ Die(p)

Become(p, state) ==
  /\ pod' = [pod EXCEPT ![p] = state]
  /\ UNCHANGED <<command, home, at, ack, reply, loopVars>>

Start(p) ==
  /\ \A r \in Pods : pod[r] # "up"
  /\ pod[p] = "down" /\ NoFault /\ Become(p, "up")

Surge(p) == pod[p] = "down" /\ Fault("rollout") /\ Become(p, "up")

Terminate(p) ==
  /\ \E r \in Pods \ {p} : pod[r] = "up"
  /\ pod[p] = "up" /\ NoFault /\ Become(p, "draining")

\* uvicorn waits for the tasks of its requests; after 20 seconds it is killed.
ShutDown(p) == pod[p] = "draining" /\ NoFault /\ Die(p)

-----------------------------------------------------------------------------
LoopStep(q) ==
  \/ slack_command(q) \/ ClaudeAsksForTools(q) \/ ClaudeAnswers(q) \/ ClaudeFails(q)
  \/ DispatchBlock(q) \/ ToolReturns(q) \/ EndRound(q) \/ _resolve(q)

PodStep(p) == Crash(p) \/ LivenessKill(p) \/ Start(p) \/ Surge(p)
              \/ Terminate(p) \/ ShutDown(p)

Next ==
  \/ \E q \in Questions : LoopStep(q) \/ SlackGivesUp(q) \/ \E p \in Pods : Send(q, p)
  \/ \E p \in Pods : PodStep(p)

Safety == Init /\ [][Next]_vars

\* A coroutine that can go on does: the loop runs ready tasks in turn; Claude,
\* Slack, Prometheus and Loki answer or run into the time limits of their
\* clients.  The Kubernetes client has none: its servers are assumed to answer.
Fairness == \A q \in Questions : WF_vars(LoopStep(q))

Spec == Safety /\ Fairness
-----------------------------------------------------------------------------
(***************************************************************************)
(* Properties.                                                             *)
(***************************************************************************)
Ids(uses) == [i \in DOMAIN uses |-> uses[i].id]

\* What the API of Claude demands of a conversation it is sent: user and
\* assistant take turns, and the message after a tool_use message answers
\* each of its calls, once and in order.
Alternates(m) ==
  \A i \in DOMAIN m : m[i].role = (IF i % 2 = 1 THEN "user" ELSE "assistant")

Answers_(m) ==
  \A i \in DOMAIN m : i % 2 = 1 /\ i > 1 => m[i].results = Ids(m[i-1].uses)

\* answer_question sends well-formed conversations only, also after errors of
\* tools, calls of tools that do not exist and several calls in one message.
ConversationWellFormed ==
  \A q \in Questions :
    /\ Alternates(messages[q]) /\ Answers_(messages[q])
    /\ at[q] = "asking" => Len(messages[q]) % 2 = 1

\* The names a are the calls of the first n rounds of conversation m, all of
\* them and in order.  Round i is message 2*i and its results; ends[i] is where its calls
\* end in a.
RoundsListed(a, m, n, ends) ==
  /\ ends[0] = 0
  /\ \A i \in 1..n :
       /\ ends[i] = ends[i-1] + Len(m[2*i].uses)
       /\ \A k \in 1..Len(m[2*i].uses) : a[ends[i-1] + k] = m[2*i].uses[k].name

\* The rounds of tools among the first messages.
Rounds(length) == (length - 1) \div 2

\* a lists the calls of all rounds of conversation m, and no others.
Consulted(a, m) ==
  LET n == Rounds(Len(m))
  IN \E ends \in [0..n -> 0..Len(a)] : RoundsListed(a, m, n, ends) /\ ends[n] = Len(a)

NoneMeansNone(a) == a.tool_calls_made = 0 <=> a.tools_used = <<>>

\* Claude has been given the results of all rounds, except for the last one if
\* it is the limit that ends the loop.
RoundsTold(a, length) ==
  Rounds(length) = IF a.tool_calls_made = max_tool_iterations
                   THEN a.tool_calls_made - 1 ELSE a.tool_calls_made

\* The line under an answer (_tool_summary) lists the calls made for it.  The
\* text of Claude rests on the results of all of them; the bot's own text at
\* the limit says nothing of them, and the last round's were never sent.  The
\* number in the line is that of the rounds, also where it says "tool calls",
\* and it is 0 ("without consulting cluster") exactly if no call is listed.
SummaryIsTrue ==
  \A q \in Questions : answer[q] # NoAnswer =>
    /\ Consulted(answer[q].tools_used, messages[q])
    /\ answer[q].tool_calls_made = Rounds(Len(messages[q]))
    /\ RoundsTold(answer[q], sent[q])
    /\ NoneMeansNone(answer[q])

\* There is one follow-up at most, only to commands that Slack has signed
\* lately and that ask something, and it is an answer only if there is one.
FollowUpsAreDue ==
  \A q \in Questions : reply[q] # <<>> =>
    /\ Len(reply[q]) = 1
    /\ LET c == command[q]
       IN c.signed /\ c.age \in -SignatureWindow..SignatureWindow /\ c.text /\ c.url
    /\ reply[q][1] = "answer" <=> answer[q] # NoAnswer

\* A tool that fails, is called with wrong arguments or does not exist does not
\* end the loop ("instead of the whole tool-use loop dying", tools.py).
ToolErrorsReachClaude ==
  [][\A q \in Questions :
       at[q] \in {"calling", "waiting"} => at'[q] \in {at[q], "dispatch", "lost"}]_vars

\* A question in the background task gets its follow-up, unless Slack refuses
\* it or the process dies: no failure of Claude or of a tool leaves the user
\* with "thinking" (the except of _resolve).
EveryQuestionResolved ==
  \A q \in Questions :
    at[q] \in Open ~> reply[q] # <<>> \/ at[q] \in {"refused", "lost"}

\* "So we ACK immediately" (main.py): no command is left to Slack's timeout.
AckedInTime == \A q \in Questions : ack[q] # "timeout"

\* The bot is a question desk.  What has become of a question:
Standing(q) ==
  CASE reply[q] # <<>> -> IF reply[q][Len(reply[q])] = "answer" THEN "answered" ELSE "apologised"
    [] reply[q] = <<>> /\ at[q] \in Open -> "open"
    [] reply[q] = <<>> /\ at[q] = "closed" -> "turned away"
    [] reply[q] = <<>> /\ at[q] \in {"refused", "lost", "failed", "done"} -> "abandoned"
    [] reply[q] = <<>> /\ at[q] \in {"idle", "queued"} -> "new"

Desk == INSTANCE QuestionDesk WITH desk <- [q \in Questions |-> Standing(q)]

ImplementsDesk == Desk!DeskSpec
===============================================================================
