----------------------------- MODULE AiBot_proofs -----------------------------
(***************************************************************************)
(* Proofs about AiBot, for any number of questions and pods, any messages  *)
(* of Claude, any limit of the loop and any failures.                      *)
(*                                                                         *)
(* The inductive invariant says, beside the properties, what the process   *)
(* knows of a question at each point of its handler (Stage), and how the   *)
(* results at hand relate to the last message of Claude.                   *)
(***************************************************************************)
EXTENDS AiBot, SequenceTheorems, TLAPS

Due(q) ==
  LET c == command[q]
  IN c.signed /\ c.age \in -SignatureWindow..SignatureWindow /\ c.text /\ c.url

\* The messages so far, as the loop has built them.
WellFormed(m) == Alternates(m) /\ Answers_(m)

\* Between the message of Claude and the results: what has been answered and
\* what has not are the calls of the message.
Halfway(q) ==
  /\ Len(messages[q]) > 0 /\ Len(messages[q]) % 2 = 0
  /\ results[q] \o Ids(blocks[q]) = Ids(messages[q][Len(messages[q])].uses)

\* What its handler, or the loop, has done for question q so far.
Stage(q) ==
  /\ at[q] # "idle" => command[q] \in Commands
  /\ at[q] \in {"idle", "queued"} =>
       messages[q] = <<>> /\ blocks[q] = <<>> /\ results[q] = <<>> /\ iteration[q] = 0
  /\ at[q] \in Open \cup {"done", "failed"} => Due(q)
  /\ at[q] \notin {"done", "failed"} => reply[q] = <<>>
  /\ at[q] \in {"done", "failed"} =>
       Len(reply[q]) = 1 /\ (reply[q][1] = "answer" <=> answer[q] # NoAnswer)
  /\ at[q] \in InLoop \cup {"idle", "queued", "apologising"} => answer[q] = NoAnswer
  /\ at[q] = "posting" => answer[q] # NoAnswer
  /\ at[q] \in InLoop => iteration[q] < max_tool_iterations
  /\ at[q] = "asking" =>
       blocks[q] = <<>> /\ results[q] = <<>> /\ Len(messages[q]) % 2 = 1
  /\ at[q] \in {"dispatch", "calling", "waiting"} => Halfway(q)
  /\ at[q] \in {"calling", "waiting"} => blocks[q] # <<>>

\* Rounds and calls: a round that has ended had a call.
Counted(q) ==
  /\ at[q] \in {"idle", "queued"} => tools_used[q] = <<>>
  /\ iteration[q] > 0 => tools_used[q] # <<>>
  /\ at[q] = "asking" /\ iteration[q] = 0 => tools_used[q] = <<>>
  /\ at[q] = "dispatch" => blocks[q] # <<>> \/ tools_used[q] # <<>>
  /\ at[q] \in {"calling", "waiting"} => tools_used[q] # <<>>
  /\ answer[q] # NoAnswer => NoneMeansNone(answer[q])

Known(q) == Stage(q) /\ WellFormed(messages[q]) /\ Counted(q)

IInv == TypeOK /\ \A q \in Questions : Known(q)
-----------------------------------------------------------------------------
(***************************************************************************)
(* Sequences.                                                              *)
(***************************************************************************)
LEMMA FunctionIsSeq ==
  ASSUME NEW S, NEW n \in Nat, NEW f \in [1..n -> S]
  PROVE  f \in Seq(S) /\ Len(f) = n
PROOF
<1>1. f \in Seq(S)
  BY SeqDef
<1>2. DOMAIN f = 1..n /\ DOMAIN f = 1..Len(f) /\ Len(f) \in Nat
  BY <1>1, LenProperties
<1> QED BY <1>1, <1>2, SMTT(20)

\* User and assistant take turns.
LEMMA Parity ==
  ASSUME NEW n \in Nat
  PROVE  /\ n % 2 = 1 => (n + 1) % 2 = 0
         /\ n % 2 = 0 => (n + 1) % 2 = 1
         /\ n % 2 = 1 => n > 0
BY SMT

\* The calls of a message, as results name them.
LEMMA IdsOfBlocks ==
  ASSUME NEW b \in Seq(Blocks)
  PROVE  /\ Ids(b) \in Seq(Nat \X Nat) /\ Len(Ids(b)) = Len(b)
         /\ \A i \in 1..Len(b) : Ids(b)[i] = b[i].id
PROOF
<1>1. Len(b) \in Nat /\ DOMAIN b = 1..Len(b)
  BY LenProperties
<1>2. \A i \in 1..Len(b) : b[i] \in Blocks
  BY ElementOfSeq
<1>3. \A i \in 1..Len(b) : b[i].id \in Nat \X Nat
  BY <1>2 DEF Blocks
<1>4. Ids(b) \in [1..Len(b) -> Nat \X Nat]
  BY <1>1, <1>3 DEF Ids
<1>5. Ids(b) \in Seq(Nat \X Nat) /\ Len(Ids(b)) = Len(b)
  BY <1>1, <1>4, FunctionIsSeq
<1>6. \A i \in 1..Len(b) : Ids(b)[i] = b[i].id
  BY <1>1 DEF Ids
<1> QED BY <1>5, <1>6

\* A message of Claude is a turn, and asks for what it names.
LEMMA SaidIsATurn ==
  ASSUME TypeOK, NEW q \in Questions, NEW names \in MessagesOfClaude
  PROVE  /\ Numbered(q, names) \in Seq(Blocks)
         /\ Len(Numbered(q, names)) = Len(names)
         /\ Said(q, names) \in Turns
         /\ Said(q, names).uses = Numbered(q, names)
PROOF
<1> DEFINE n == Len(names)
<1>1. names \in Seq(Tools) /\ Len(names) \in Nat
  BY BotAssumption, LenProperties
<1>2. n \in Nat /\ DOMAIN names = 1..n /\ \A i \in 1..n : names[i] \in Tools
  BY <1>1, ElementOfSeq, LenProperties
<1>3. iteration[q] \in Nat
  BY BotAssumption DEF TypeOK
<1>4. \A i \in 1..n : [id |-> <<iteration[q], i>>, name |-> names[i]] \in Blocks
  BY <1>2, <1>3 DEF Blocks
<1>5. Numbered(q, names) \in [1..n -> Blocks]
  BY <1>2, <1>4 DEF Numbered
<1>6. Numbered(q, names) \in Seq(Blocks) /\ Len(Numbered(q, names)) = n
  BY <1>2, <1>5, FunctionIsSeq
<1>7. Said(q, names) \in Turns /\ Said(q, names).uses = Numbered(q, names)
  BY <1>6, EmptySeq DEF Said, Turns
<1> QED BY <1>6, <1>7

\* Sequence x is e followed by y.
Splits(x, e, y) ==
  Len(x) = Len(y) + 1 /\ x[1] = e /\ \A i \in 1..Len(y) : y[i] = x[i+1]

\* The calls of a message are that of its first block and those of the rest.
LEMMA IdsSplit ==
  ASSUME NEW b \in Seq(Blocks), b # <<>>
  PROVE  /\ Tail(b) \in Seq(Blocks) /\ Head(b) \in Blocks /\ Head(b).id \in Nat \X Nat
         /\ Splits(Ids(b), Head(b).id, Ids(Tail(b)))
PROOF
<1> DEFINE first == Head(b)  rest == Tail(b)  x == Ids(b)  y == Ids(rest)
<1>1. /\ Len(b) \in Nat \ {0} /\ first \in Blocks /\ rest \in Seq(Blocks)
      /\ Len(rest) = Len(b) - 1 /\ \A i \in 1..Len(b)-1 : rest[i] = b[i+1]
  BY HeadTailProperties, EmptySeq
<1>2. first = b[1]
  BY SMT
<1> HIDE DEF first, rest
<1>3. first.id \in Nat \X Nat
  BY <1>1 DEF Blocks
<1>4. Len(x) = Len(b) /\ \A i \in 1..Len(b) : x[i] = b[i].id
  BY IdsOfBlocks
<1>5. Len(y) = Len(b) - 1 /\ \A i \in 1..Len(b)-1 : y[i] = rest[i].id
  BY <1>1, IdsOfBlocks
<1> HIDE DEF x, y
<1>6. Len(x) = Len(y) + 1 /\ x[1] = first.id
  <2>1. Len(x) = Len(y) + 1
    BY ONLY <1>1, <1>4, <1>5
  <2>2. x[1] = b[1].id
    BY ONLY <1>1, <1>4
  <2> QED BY <1>2, <2>1, <2>2
<1>7. ASSUME NEW i \in 1..Len(y) PROVE y[i] = x[i+1]
  <2>1. i \in 1..Len(b)-1 /\ i+1 \in 1..Len(b)
    BY ONLY <1>1, <1>5, i \in 1..Len(y)
  <2>2. y[i] = rest[i].id /\ rest[i] = b[i+1] /\ x[i+1] = b[i+1].id
    BY ONLY <1>1, <1>4, <1>5, <2>1
  <2> QED BY <2>2
<1>8. Splits(x, first.id, y)
  BY <1>6, <1>7 DEF Splits
<1> QED BY <1>1, <1>3, <1>8 DEF first, rest, x, y

\* Of several calls, the first one is answered and the rest remains.
LEMMA OneAnswered ==
  ASSUME NEW b \in Seq(Blocks), NEW r \in Seq(Nat \X Nat), b # <<>>
  PROVE  /\ Append(r, Head(b).id) \in Seq(Nat \X Nat)
         /\ Append(r, Head(b).id) \o Ids(Tail(b)) = r \o Ids(b)
PROOF
<1> DEFINE S == Nat \X Nat  x == Ids(b)  y == Ids(Tail(b))  e == Head(b).id
<1>0. /\ r \in Seq(S) /\ x \in Seq(S) /\ y \in Seq(S) /\ e \in S
      /\ Len(x) = Len(y) + 1 /\ x[1] = e /\ \A i \in 1..Len(y) : y[i] = x[i+1]
  BY IdsOfBlocks, IdsSplit DEF Splits
<1> HIDE DEF S, x, y, e
<1>1. Len(r) \in Nat /\ Len(x) \in Nat /\ Len(y) \in Nat
  BY <1>0, LenProperties
<1> DEFINE z == Append(r, e)
<1>2. /\ z \in Seq(S) /\ Len(z) = Len(r) + 1 /\ z[Len(r) + 1] = e
      /\ \A i \in 1..Len(r) : z[i] = r[i]
  BY <1>0, AppendProperties
<1> HIDE DEF z
<1> DEFINE left == z \o y
<1>3. /\ left \in Seq(S) /\ Len(left) = Len(z) + Len(y)
      /\ \A i \in 1..Len(z) + Len(y) : left[i] = IF i <= Len(z) THEN z[i] ELSE y[i - Len(z)]
  BY <1>0, <1>2, ConcatProperties
<1> HIDE DEF left
<1> DEFINE right == r \o x
<1>4. /\ right \in Seq(S) /\ Len(right) = Len(r) + Len(x)
      /\ \A i \in 1..Len(r) + Len(x) : right[i] = IF i <= Len(r) THEN r[i] ELSE x[i - Len(r)]
  BY <1>0, ConcatProperties
<1> HIDE DEF right
<1>5. ASSUME NEW i \in 1..Len(left) PROVE left[i] = right[i]
  <2>1. CASE i <= Len(r)
    <3>1. i \in 1..Len(r) /\ i <= Len(z)
      BY ONLY <1>1, <1>2, <2>1, i \in 1..Len(left)
    <3>2. left[i] = z[i] /\ right[i] = r[i] /\ z[i] = r[i]
      BY ONLY <1>0, <1>1, <1>2, <1>3, <1>4, <2>1, <3>1
    <3> QED BY <3>2
  <2>2. CASE i = Len(r) + 1
    BY ONLY <1>1, <1>2, <1>3, <1>4, <2>2, <1>0
  <2>3. CASE i > Len(r) + 1
    <3> DEFINE k == i - (Len(r) + 1)
    <3>1. k \in 1..Len(y) /\ i - Len(z) = k /\ i - Len(r) = k + 1
      BY ONLY <1>1, <1>2, <1>3, <2>3, i \in 1..Len(left)
    <3>2. left[i] = y[k] /\ right[i] = x[k+1]
      BY ONLY <1>1, <1>2, <1>3, <1>4, <2>3, <3>1, i \in 1..Len(left), <1>0
    <3> QED BY <1>0, <3>1, <3>2
  <2> QED BY <1>1, <1>2, <1>3, <2>1, <2>2, <2>3
<1>6. Len(left) = Len(right)
  BY <1>0, <1>1, <1>2, <1>3, <1>4
<1>7. left = right
  BY <1>3, <1>4, <1>5, <1>6, SeqEqual
<1> QED BY <1>2, <1>7 DEF left, right, z, x, y, e, S

\* A conversation stays well-formed if the next turn is of the right role and
\* results answer the message before.
LEMMA AppendWellFormed ==
  ASSUME NEW m \in Seq(Turns), WellFormed(m), NEW t \in Turns,
         t.role = (IF Len(m) % 2 = 0 THEN "user" ELSE "assistant"),
         Len(m) % 2 = 0 /\ Len(m) > 0 => t.results = Ids(m[Len(m)].uses)
  PROVE  WellFormed(Append(m, t))
PROOF
<1> DEFINE n == Len(m)  M == Append(m, t)
<1>1. /\ n \in Nat /\ DOMAIN M = 1..n+1 /\ DOMAIN m = 1..n
      /\ \A i \in 1..n : M[i] = m[i]
      /\ M[n+1] = t
  BY AppendProperties, LenProperties
<1> HIDE DEF M
<1>2. Alternates(M)
  BY <1>1 DEF WellFormed, Alternates
<1>3. Answers_(M)
  <2> SUFFICES ASSUME NEW i \in 1..n+1, i % 2 = 1, i > 1 PROVE M[i].results = Ids(M[i-1].uses)
    BY <1>1 DEF Answers_
  <2>1. CASE i \in 1..n
    <3>1. i-1 \in 1..n
      BY <1>1, <2>1
    <3>2. M[i] = m[i] /\ M[i-1] = m[i-1]
      BY <1>1, <2>1, <3>1
    <3>3. m[i].results = Ids(m[i-1].uses)
      BY <1>1, <2>1 DEF WellFormed, Answers_
    <3> QED BY <3>2, <3>3
  <2>2. CASE i = n + 1
    <3>1. n % 2 = 0 /\ n > 0
      BY <1>1, <2>2
    <3>2. M[i] = t /\ M[i-1] = m[n]
      BY <1>1, <2>2, <3>1
    <3> QED BY <3>1, <3>2
  <2> QED BY <1>1, <2>1, <2>2
<1> QED BY <1>2, <1>3 DEF WellFormed, M
-----------------------------------------------------------------------------
(***************************************************************************)
(* Steps.                                                                  *)
(***************************************************************************)
\* Nothing the invariant says of a question has changed.
Same(r) ==
  /\ command'[r] = command[r] /\ at'[r] = at[r] /\ reply'[r] = reply[r]
  /\ messages'[r] = messages[r] /\ iteration'[r] = iteration[r] /\ blocks'[r] = blocks[r]
  /\ sent'[r] = sent[r] /\ results'[r] = results[r] /\ tools_used'[r] = tools_used[r] /\ answer'[r] = answer[r]

QuestionStep(q) == LoopStep(q) \/ SlackGivesUp(q) \/ \E p \in Pods : Send(q, p)

LEMMA SameKeeps ==
  ASSUME NEW r \in Questions, Known(r), Same(r) PROVE Known(r)'
PROOF
<1>1. Stage(r)'
  BY DEF Known, Same, Stage, Due, Halfway
<1>2. WellFormed(messages[r])'
  BY DEF Known, Same
<1>3. Counted(r)'
  BY DEF Known, Same, Counted
<1> QED BY <1>1, <1>2, <1>3 DEF Known

\* A step of one question leaves the others alone.
LEMMA OthersSame ==
  ASSUME TypeOK, NEW q \in Questions, QuestionStep(q), NEW r \in Questions \ {q}
  PROVE  Same(r)
PROOF
<1> USE DEF TypeOK, Same, loopVars, Go, Fault, NoFault
<1>1. CASE slack_command(q)
  BY <1>1 DEF slack_command, TurnAway, Accept, Ask, Respond
<1>2. CASE ClaudeAsksForTools(q)
  BY <1>2 DEF ClaudeAsksForTools, Append_
<1>3. CASE ClaudeAnswers(q)
  BY <1>3 DEF ClaudeAnswers, Append_, Return
<1>4. CASE ClaudeFails(q)
  BY <1>4 DEF ClaudeFails
<1>5. CASE DispatchBlock(q)
  BY <1>5 DEF DispatchBlock
<1>6. CASE ToolReturns(q)
  BY <1>6 DEF ToolReturns, Keep
<1>7. CASE EndRound(q)
  BY <1>7 DEF EndRound, Append_, Ask, Return
<1>8. CASE _resolve(q)
  BY <1>8 DEF _resolve, post_followup, Accepted
<1>9. CASE SlackGivesUp(q)
  BY <1>9 DEF SlackGivesUp
<1>10. CASE \E p \in Pods : Send(q, p)
  BY <1>10 DEF Send
<1> QED BY <1>1, <1>2, <1>3, <1>4, <1>5, <1>6, <1>7, <1>8, <1>9, <1>10
        DEF QuestionStep, LoopStep

\* What a step of one question has to show.
LEMMA OneQuestion ==
  ASSUME IInv, NEW q \in Questions, QuestionStep(q), TypeOK', Known(q)'
  PROVE  IInv'
BY OthersSame, SameKeeps DEF IInv
-----------------------------------------------------------------------------
(***************************************************************************)
(* The command.                                                            *)
(***************************************************************************)
LEMMA SendKeeps ==
  ASSUME IInv, NEW q \in Questions, NEW p \in Pods, Send(q, p)
  PROVE  IInv'
PROOF
<1>1. TypeOK'
  BY DEF IInv, TypeOK, Send, Go, NoFault, loopVars, Open
<1>2. /\ at[q] = "idle" /\ at'[q] = "queued" /\ reply'[q] = reply[q] /\ messages'[q] = messages[q]
      /\ blocks'[q] = blocks[q] /\ results'[q] = results[q] /\ iteration'[q] = iteration[q]
      /\ answer'[q] = answer[q] /\ tools_used'[q] = tools_used[q] /\ command'[q] \in Commands
  BY DEF IInv, TypeOK, Send, Go, loopVars
<1>3. Known(q)'
  BY <1>2 DEF IInv, Known, Stage, WellFormed, Counted, Open, InLoop
<1> QED BY <1>1, <1>3, OneQuestion DEF QuestionStep

LEMMA SlackGivesUpKeeps ==
  ASSUME IInv, NEW q \in Questions, SlackGivesUp(q)
  PROVE  IInv'
PROOF
<1>1. TypeOK'
  <2>1. ack' \in [Questions -> {"none", "thinking", "usage", "unauthorized", "timeout"}]
    BY DEF IInv, TypeOK, SlackGivesUp
  <2>2. faults' \in 0..MaxFaults
    BY BotAssumption DEF IInv, TypeOK, SlackGivesUp, Fault
  <2>3. UNCHANGED <<pod, command, home, at, reply, loopVars>>
    BY DEF SlackGivesUp
  <2> QED BY <2>1, <2>2, <2>3 DEF IInv, TypeOK, loopVars
<1>2. Same(q)
  BY DEF SlackGivesUp, Same, loopVars
<1> QED BY <1>1, <1>2, SameKeeps, OneQuestion DEF QuestionStep, IInv

LEMMA CommandKeeps ==
  ASSUME IInv, NEW q \in Questions, slack_command(q)
  PROVE  IInv'
PROOF
<1> USE DEF IInv
<1>1. /\ at[q] = "queued" /\ reply'[q] = reply[q] /\ command'[q] = command[q]
      /\ blocks'[q] = blocks[q] /\ results'[q] = results[q] /\ iteration'[q] = iteration[q]
      /\ answer'[q] = answer[q] /\ tools_used'[q] = tools_used[q]
  BY DEF slack_command, TurnAway, Accept, loopVars
<1>2. /\ messages[q] = <<>> /\ blocks[q] = <<>> /\ results[q] = <<>> /\ iteration[q] = 0
      /\ reply[q] = <<>> /\ answer[q] = NoAnswer /\ tools_used[q] = <<>>
  BY <1>1 DEF Known, Stage, Counted, Open, InLoop
<1>5. command[q] \in Commands
  BY <1>1 DEF Known, Stage
<1>3. CASE \E with \in {"unauthorized", "usage"} : TurnAway(q, with)
  <2>1. TypeOK'
    <3>1. ack' \in [Questions -> {"none", "thinking", "usage", "unauthorized", "timeout"}]
      BY <1>3 DEF TypeOK, TurnAway, Respond
    <3>2. at' \in [Questions -> Open \cup Ended \cup {"idle", "queued"}]
      BY <1>3 DEF TypeOK, TurnAway, Go, Ended
    <3>3. UNCHANGED <<pod, command, home, reply, loopVars, faults>>
      BY <1>3 DEF slack_command, TurnAway, NoFault
    <3> QED BY <3>1, <3>2, <3>3 DEF TypeOK, loopVars
  <2>2. at'[q] = "closed" /\ messages'[q] = messages[q]
    BY <1>3 DEF TypeOK, TurnAway, Go, loopVars
  <2>3. Known(q)'
    BY <1>1, <1>2, <1>5, <2>2 DEF Known, Stage, WellFormed, Counted, Open, InLoop
  <2> QED BY <2>1, <2>3, OneQuestion DEF QuestionStep, LoopStep
<1>4. CASE Accept(q) /\ verify_signature(command[q]) /\ command[q].text /\ command[q].url
  <2>1. Question \in Turns /\ <<Question>> \in Seq(Turns)
    BY DEF Question, Turns
  <2>3. at' = [at EXCEPT ![q] = "asking"] /\ messages' = [messages EXCEPT ![q] = <<Question>>]
    BY <1>4 DEF Accept, Ask, Go
  <2>5. sent' \in [Questions -> Nat]
    <3>1. messages'[q] = <<Question>> /\ Len(<<Question>>) \in Nat
      BY <2>1, <2>3, LenProperties DEF TypeOK
    <3> QED BY <1>4, <3>1 DEF TypeOK, Accept, Ask
  <2>2. TypeOK'
    <3>1. ack' \in [Questions -> {"none", "thinking", "usage", "unauthorized", "timeout"}]
      BY <1>4 DEF TypeOK, Accept, Respond
    <3>2. at' \in [Questions -> Open \cup Ended \cup {"idle", "queued"}]
      BY <2>3 DEF TypeOK, Open, InLoop
    <3>3. messages' \in [Questions -> Seq(Turns)]
      BY <2>1, <2>3 DEF TypeOK
    <3>4. UNCHANGED <<pod, command, home, reply, iteration, blocks, results, tools_used, answer,
                      faults>>
      BY <1>4 DEF slack_command, Accept, NoFault
    <3> QED BY <2>5, <3>1, <3>2, <3>3, <3>4 DEF TypeOK
  <2>8. at'[q] = "asking" /\ messages'[q] = <<Question>>
    BY <2>3 DEF TypeOK
  <2>4. WellFormed(<<Question>>)
    BY DEF WellFormed, Alternates, Answers_, Question
  <2>6. Due(q)'
    <3>1. command[q].age \in Int /\ SignatureWindow \in Nat
      BY <1>5, BotAssumption
    <3> QED BY <1>1, <1>4, <3>1 DEF Due, verify_signature
  <2>7. Known(q)'
    BY <1>1, <1>2, <1>5, <2>4, <2>6, <2>8, BotAssumption DEF Known, Stage, Counted, Open, InLoop
  <2> QED BY <2>2, <2>7, OneQuestion DEF QuestionStep, LoopStep
<1> QED BY <1>3, <1>4 DEF slack_command
-----------------------------------------------------------------------------
(***************************************************************************)
(* The tool loop.                                                          *)
(***************************************************************************)
\* What a message of Claude adds to the conversation.
LEMMA ClaudeSays ==
  ASSUME IInv, NEW q \in Questions, at[q] = "asking", NEW names \in MessagesOfClaude
  PROVE  LET m == Append(messages[q], Said(q, names))
         IN /\ m \in Seq(Turns) /\ WellFormed(m)
            /\ Len(m) > 0 /\ Len(m) % 2 = 0 /\ m[Len(m)].uses = Numbered(q, names)
PROOF
<1> DEFINE t == Said(q, names)  old == messages[q]  n == Len(old)  m == Append(old, t)
<1>1. old \in Seq(Turns) /\ WellFormed(old) /\ n % 2 = 1
  BY DEF IInv, TypeOK, Known, Stage
<1>2. t \in Turns /\ t.role = "assistant" /\ t.uses = Numbered(q, names)
  BY SaidIsATurn DEF IInv, Said
<1> HIDE DEF t, old
<1>3. n \in Nat
  BY <1>1, LenProperties
<1>4. m \in Seq(Turns) /\ Len(m) = n + 1 /\ m[n + 1] = t
  BY <1>1, <1>2, AppendProperties
<1> HIDE DEF n
<1>5. t.role = (IF n % 2 = 0 THEN "user" ELSE "assistant") /\ ~(n % 2 = 0 /\ n > 0)
  BY <1>1, <1>2
<1>6. WellFormed(m)
  BY <1>1, <1>2, <1>5, AppendWellFormed DEF n
<1> HIDE DEF m
<1>7. Len(m) > 0 /\ Len(m) % 2 = 0
  BY <1>1, <1>3, <1>4, Parity
<1> QED BY <1>2, <1>4, <1>6, <1>7 DEF t, m, old

LEMMA AsksKeeps ==
  ASSUME IInv, NEW q \in Questions, ClaudeAsksForTools(q)
  PROVE  IInv'
PROOF
<1> USE DEF IInv
<1>1. PICK names \in MessagesOfClaude :
        /\ names # <<>>
        /\ Append_(q, Said(q, names))
        /\ blocks' = [blocks EXCEPT ![q] = Numbered(q, names)]
  BY DEF ClaudeAsksForTools
<1>2. at[q] = "asking"
  BY DEF ClaudeAsksForTools
<1> DEFINE m == Append(messages[q], Said(q, names))  b == Numbered(q, names)
<1>3. /\ m \in Seq(Turns) /\ WellFormed(m)
      /\ Len(m) > 0 /\ Len(m) % 2 = 0 /\ m[Len(m)].uses = b
  BY <1>2, ClaudeSays
<1>4. b \in Seq(Blocks) /\ b # <<>>
  <2>1. names \in Seq(Tools) /\ Len(names) \in Nat \ {0}
    BY <1>1, BotAssumption, EmptySeq
  <2> QED BY <2>1, SaidIsATurn, EmptySeq
<1>5. messages' = [messages EXCEPT ![q] = m] /\ blocks' = [blocks EXCEPT ![q] = b]
  BY <1>1 DEF Append_
<1> HIDE DEF m, b
<1>6. TypeOK'
  BY <1>3, <1>4, <1>5 DEF TypeOK, ClaudeAsksForTools, Go, NoFault, Open, InLoop
<1>7. /\ at'[q] = "dispatch" /\ messages'[q] = m /\ blocks'[q] = b /\ reply'[q] = reply[q]
      /\ command'[q] = command[q] /\ results'[q] = results[q] /\ iteration'[q] = iteration[q]
      /\ answer'[q] = answer[q] /\ tools_used'[q] = tools_used[q]
  BY <1>5 DEF TypeOK, ClaudeAsksForTools, Go
<1>8. results[q] \o Ids(b) = Ids(b)
  <2>1. results[q] = <<>>
    BY <1>2 DEF Known, Stage
  <2>2. Ids(b) \in Seq(Nat \X Nat)
    BY <1>4, IdsOfBlocks
  <2> QED BY <2>1, <2>2, ConcatEmptySeq
<1>9. Halfway(q)'
  BY <1>3, <1>7, <1>8 DEF Halfway
<1>10. Stage(q)'
  BY <1>2, <1>4, <1>7, <1>9 DEF Known, Stage, Due, Open, InLoop
<1>11. WellFormed(messages[q])' /\ Counted(q)'
  BY <1>2, <1>3, <1>4, <1>7 DEF Known, Counted
<1> QED BY <1>6, <1>10, <1>11, OneQuestion DEF QuestionStep, LoopStep, Known

LEMMA AnswersKeeps ==
  ASSUME IInv, NEW q \in Questions, ClaudeAnswers(q)
  PROVE  IInv'
PROOF
<1> USE DEF IInv
<1>1. PICK names \in MessagesOfClaude : Append_(q, Said(q, names))
  BY DEF ClaudeAnswers
<1>2. at[q] = "asking"
  BY DEF ClaudeAnswers
<1> DEFINE m == Append(messages[q], Said(q, names))
           a == [tool_calls_made |-> iteration[q], tools_used |-> tools_used[q]]
<1>3. m \in Seq(Turns) /\ WellFormed(m)
  BY <1>2, ClaudeSays
<1>4. a \in Answers /\ a # NoAnswer
  BY BotAssumption DEF TypeOK, Answers
<1>5. NoneMeansNone(a)
  BY <1>2, BotAssumption DEF NoneMeansNone, Known, Counted, TypeOK
<1>6. messages' = [messages EXCEPT ![q] = m] /\ answer' = [answer EXCEPT ![q] = a]
  BY <1>1 DEF ClaudeAnswers, Append_, Return
<1> HIDE DEF m, a
<1>7. TypeOK'
  BY <1>3, <1>4, <1>6 DEF TypeOK, ClaudeAnswers, Return, Go, NoFault, Open
<1>8. /\ at'[q] = "posting" /\ messages'[q] = m /\ answer'[q] = a /\ blocks'[q] = blocks[q]
      /\ reply'[q] = reply[q] /\ command'[q] = command[q] /\ results'[q] = results[q]
      /\ iteration'[q] = iteration[q] /\ tools_used'[q] = tools_used[q]
  BY <1>6 DEF TypeOK, ClaudeAnswers, Return, Go
<1>9. Stage(q)'
  BY <1>2, <1>4, <1>8 DEF Known, Stage, Due, Open, InLoop
<1>10. WellFormed(messages[q])' /\ Counted(q)'
  BY <1>2, <1>3, <1>5, <1>8 DEF Known, Counted
<1> QED BY <1>7, <1>9, <1>10, OneQuestion DEF QuestionStep, LoopStep, Known

LEMMA FailsKeeps ==
  ASSUME IInv, NEW q \in Questions, ClaudeFails(q)
  PROVE  IInv'
PROOF
<1> USE DEF IInv
<1>1. TypeOK'
  BY BotAssumption DEF TypeOK, ClaudeFails, Go, Fault, loopVars, Open
<1>2. /\ at[q] = "asking" /\ at'[q] = "apologising" /\ reply'[q] = reply[q]
      /\ command'[q] = command[q] /\ messages'[q] = messages[q] /\ blocks'[q] = blocks[q]
      /\ results'[q] = results[q] /\ iteration'[q] = iteration[q] /\ answer'[q] = answer[q]
      /\ tools_used'[q] = tools_used[q]
  BY DEF TypeOK, ClaudeFails, Go, loopVars
<1>3. Stage(q)'
  BY <1>2 DEF Known, Stage, Due, Open, InLoop
<1>4. WellFormed(messages[q])' /\ Counted(q)'
  BY <1>2 DEF Known, Counted
<1> QED BY <1>1, <1>3, <1>4, OneQuestion DEF QuestionStep, LoopStep, Known

LEMMA DispatchKeeps ==
  ASSUME IInv, NEW q \in Questions, DispatchBlock(q)
  PROVE  IInv'
PROOF
<1> USE DEF IInv
<1> DEFINE name == Head(blocks[q]).name
           used == Append(tools_used[q], name)
<1>1. name \in Tools /\ tools_used[q] \in Seq(Tools)
  <2>1. blocks[q] \in Seq(Blocks) /\ blocks[q] # <<>> /\ tools_used[q] \in Seq(Tools)
    BY DEF TypeOK, DispatchBlock
  <2>2. Head(blocks[q]) \in Blocks
    BY <2>1, IdsSplit
  <2> QED BY <2>1, <2>2 DEF Blocks
<1> HIDE DEF name
<1>2. used \in Seq(Tools) /\ used # <<>>
  BY <1>1, AppendProperties, EmptySeq
<1>3. PICK place \in {"waiting", "calling"} :
        at' = [at EXCEPT ![q] = place] /\ tools_used' = [tools_used EXCEPT ![q] = used]
  BY DEF DispatchBlock, Go, name
<1> HIDE DEF used
<1>4. TypeOK'
  BY <1>2, <1>3 DEF TypeOK, DispatchBlock, NoFault, Open, InLoop
<1>5. /\ at[q] = "dispatch" /\ at'[q] = place /\ reply'[q] = reply[q] /\ blocks[q] # <<>>
      /\ command'[q] = command[q] /\ messages'[q] = messages[q] /\ blocks'[q] = blocks[q]
      /\ results'[q] = results[q] /\ iteration'[q] = iteration[q] /\ answer'[q] = answer[q]
      /\ tools_used'[q] = used
  BY <1>3 DEF TypeOK, DispatchBlock
<1>6. Stage(q)'
  BY <1>5 DEF Known, Stage, Due, Halfway, Open, InLoop
<1>7. WellFormed(messages[q])' /\ Counted(q)'
  BY <1>2, <1>5 DEF Known, Counted, Stage, InLoop
<1> QED BY <1>4, <1>6, <1>7, OneQuestion DEF QuestionStep, LoopStep, Known

\* "All errors caught" (tools.py): dispatch does not raise.
LEMMA NothingIsRaised ==
  \A tool, given, server : dispatch(tool, given, server) \in {"result", "error"}
BY DEF dispatch

LEMMA ReturnsKeeps ==
  ASSUME IInv, NEW q \in Questions, ToolReturns(q)
  PROVE  IInv' /\ at'[q] = "dispatch"
PROOF
<1> USE DEF IInv
<1>1. /\ at' = [at EXCEPT ![q] = "dispatch"] /\ blocks' = [blocks EXCEPT ![q] = Tail(blocks[q])]
      /\ results' = [results EXCEPT ![q] = Append(results[q], Head(blocks[q]).id)]
  <2> DEFINE name == Head(blocks[q]).name
  <2>1. PICK given \in Inputs(name), server \in Servers :
          LET outcome == dispatch(name, given, server)
          IN IF outcome = "raised"
             THEN Go(q, "apologising") /\ UNCHANGED <<blocks, results>>
             ELSE /\ Keep(q, outcome)
                  /\ blocks' = [blocks EXCEPT ![q] = Tail(@)]
                  /\ Go(q, "dispatch")
    BY DEF ToolReturns
  <2>2. dispatch(name, given, server) # "raised"
    BY NothingIsRaised
  <2> QED BY <2>1, <2>2 DEF Keep, Go
<1>2. /\ at[q] \in {"calling", "waiting"} /\ blocks[q] # <<>>
      /\ blocks[q] \in Seq(Blocks) /\ results[q] \in Seq(Nat \X Nat)
  BY DEF ToolReturns, Known, Stage, TypeOK
<1> DEFINE rest == Tail(blocks[q])  given == Append(results[q], Head(blocks[q]).id)
<1>3. /\ rest \in Seq(Blocks) /\ given \in Seq(Nat \X Nat)
      /\ given \o Ids(rest) = results[q] \o Ids(blocks[q])
  BY <1>2, IdsSplit, OneAnswered
<1>4. blocks' = [blocks EXCEPT ![q] = rest] /\ results' = [results EXCEPT ![q] = given]
  BY <1>1
<1> HIDE DEF rest, given
<1>5. TypeOK'
  <2>1. UNCHANGED <<pod, command, home, ack, reply, messages, sent, iteration, tools_used, answer, faults>>
    BY DEF ToolReturns, NoFault
  <2>2. at' = [at EXCEPT ![q] = "dispatch"]
    BY <1>1
  <2> QED BY <1>3, <1>4, <2>1, <2>2 DEF TypeOK, Open, InLoop
<1>6. /\ at'[q] = "dispatch" /\ reply'[q] = reply[q] /\ blocks'[q] = rest /\ results'[q] = given
      /\ command'[q] = command[q] /\ messages'[q] = messages[q] /\ iteration'[q] = iteration[q]
      /\ answer'[q] = answer[q] /\ tools_used'[q] = tools_used[q]
  BY <1>1, <1>4 DEF TypeOK, ToolReturns
<1>7. Halfway(q)'
  BY <1>2, <1>3, <1>6 DEF Known, Stage, Halfway
<1>8. Stage(q)'
  BY <1>2, <1>6, <1>7 DEF Known, Stage, Due, Open, InLoop
<1>9. WellFormed(messages[q])' /\ Counted(q)'
  BY <1>2, <1>6 DEF Known, Counted
<1> QED BY <1>5, <1>6, <1>8, <1>9, OneQuestion DEF QuestionStep, LoopStep, Known

LEMMA EndRoundKeeps ==
  ASSUME IInv, NEW q \in Questions, EndRound(q)
  PROVE  IInv'
PROOF
<1> USE DEF IInv
<1> DEFINE t == [role |-> "user", uses |-> <<>>, results |-> results[q]]
           m == Append(messages[q], t)
<1>1. /\ at[q] = "dispatch" /\ blocks[q] = <<>> /\ messages[q] \in Seq(Turns)
      /\ results[q] \in Seq(Nat \X Nat) /\ iteration[q] \in Nat
      /\ iteration[q] < max_tool_iterations /\ max_tool_iterations \in Nat
  BY BotAssumption DEF EndRound, TypeOK, Known, Stage, InLoop
<1>2. t \in Turns /\ t.role = "user" /\ t.results = results[q]
  BY <1>1, EmptySeq DEF Turns
<1>3. /\ WellFormed(messages[q]) /\ Len(messages[q]) > 0 /\ Len(messages[q]) % 2 = 0
      /\ results[q] = Ids(messages[q][Len(messages[q])].uses)
  <2>1. Ids(<<>>) = <<>>
    BY DEF Ids
  <2>2. results[q] \o <<>> = results[q]
    BY <1>1, ConcatEmptySeq
  <2> QED BY <1>1, <2>1, <2>2 DEF Known, Stage, Halfway
<1> HIDE DEF t
<1>4. WellFormed(m)
  BY <1>1, <1>2, <1>3, AppendWellFormed
<1> DEFINE n == Len(messages[q])
<1>5. m \in Seq(Turns) /\ Len(m) = n + 1 /\ n \in Nat
  BY <1>1, <1>2, AppendProperties, LenProperties
<1>6. messages' = [messages EXCEPT ![q] = m]
  BY DEF EndRound, Append_, t
<1> HIDE DEF m, n
<1>7. Len(m) % 2 = 1
  <2>1. n % 2 = 0
    BY <1>3 DEF n
  <2> QED BY <1>5, <2>1, Parity
<1>8. /\ messages'[q] = m /\ results'[q] = <<>> /\ iteration'[q] = iteration[q] + 1
      /\ blocks'[q] = blocks[q] /\ reply'[q] = reply[q] /\ command'[q] = command[q]
      /\ tools_used'[q] = tools_used[q] /\ tools_used[q] # <<>>
  BY <1>1, <1>6 DEF TypeOK, EndRound, Known, Counted
<1>9. CASE iteration[q] + 1 = max_tool_iterations
  <2> DEFINE a == [tool_calls_made |-> max_tool_iterations, tools_used |-> tools_used[q]]
  <2>1. a \in Answers /\ a # NoAnswer /\ NoneMeansNone(a)
    BY <1>8, BotAssumption DEF TypeOK, Answers, NoneMeansNone
  <2>2. answer' = [answer EXCEPT ![q] = a] /\ at' = [at EXCEPT ![q] = "posting"]
    BY <1>9 DEF EndRound, Return, Go
  <2> HIDE DEF a
  <2>7. /\ iteration' = [iteration EXCEPT ![q] = max_tool_iterations]
        /\ results' = [results EXCEPT ![q] = <<>>]
        /\ UNCHANGED <<pod, command, home, ack, reply, sent, blocks, tools_used, faults>>
    BY <1>1, <1>9 DEF EndRound, NoFault
  <2>3. TypeOK'
    BY <1>1, <1>5, <1>6, <2>1, <2>2, <2>7, EmptySeq DEF TypeOK, Open
  <2>4. at'[q] = "posting" /\ answer'[q] = a
    BY <2>2 DEF TypeOK
  <2>5. Stage(q)'
    BY <1>1, <1>8, <2>1, <2>4 DEF Known, Stage, Due, Open, InLoop
  <2>6. WellFormed(messages[q])' /\ Counted(q)'
    BY <1>4, <1>8, <2>1, <2>4 DEF Counted
  <2> QED BY <2>3, <2>5, <2>6, OneQuestion DEF QuestionStep, LoopStep, Known
<1>10. CASE iteration[q] + 1 # max_tool_iterations
  <2>1. answer' = answer /\ at' = [at EXCEPT ![q] = "asking"]
    BY <1>10 DEF EndRound, Ask, Go
  <2> DEFINE round == iteration[q] + 1
  <2>6. round \in 0..max_tool_iterations /\ round < max_tool_iterations /\ round > 0
    BY <1>1, <1>10
  <2>7. /\ iteration' = [iteration EXCEPT ![q] = round]
        /\ results' = [results EXCEPT ![q] = <<>>]
        /\ UNCHANGED <<pod, command, home, ack, reply, blocks, tools_used, faults>>
    BY DEF EndRound, NoFault
  <2> HIDE DEF round
  <2>8. sent' \in [Questions -> Nat]
    <3>1. messages'[q] = m /\ Len(m) \in Nat
      BY <1>5, <1>6, LenProperties DEF TypeOK
    <3> QED BY <1>10, <3>1 DEF TypeOK, EndRound, Ask
  <2>2. TypeOK'
    BY <1>5, <1>6, <2>1, <2>6, <2>7, <2>8, EmptySeq DEF TypeOK, Open, InLoop
  <2>3. at'[q] = "asking" /\ answer'[q] = answer[q]
    BY <2>1 DEF TypeOK
  <2>4. Stage(q)'
    <3>1. /\ Due(q) /\ reply[q] = <<>> /\ answer[q] = NoAnswer /\ command[q] \in Commands
      BY <1>1 DEF Known, Stage, Open, InLoop
    <3>2. iteration'[q] = round
      BY <1>1, <1>8 DEF round
    <3>3. Due(q)'
      BY <1>8, <3>1 DEF Due
    <3> QED BY <1>1, <1>7, <1>8, <2>3, <2>6, <3>1, <3>2, <3>3 DEF Stage, Open, InLoop
  <2>5. WellFormed(messages[q])' /\ Counted(q)'
    <3>1. answer[q] = NoAnswer
      BY <1>1 DEF Known, Stage, InLoop
    <3>2. iteration'[q] = round
      BY <1>1, <1>8 DEF round
    <3> QED BY <1>4, <1>8, <2>3, <2>6, <3>1, <3>2 DEF Counted
  <2> QED BY <2>2, <2>4, <2>5, OneQuestion DEF QuestionStep, LoopStep, Known
<1> QED BY <1>9, <1>10
-----------------------------------------------------------------------------
(***************************************************************************)
(* The follow-up and the pods.                                             *)
(***************************************************************************)
LEMMA ResolveKeeps ==
  ASSUME IInv, NEW q \in Questions, _resolve(q)
  PROVE  IInv'
PROOF
<1> USE DEF IInv
<1>1. PICK what \in {"answer", "apology"} :
        /\ at[q] = IF what = "answer" THEN "posting" ELSE "apologising"
        /\ post_followup(q, what)
  BY DEF _resolve
<1>2. UNCHANGED <<pod, command, home, ack, loopVars>>
  BY DEF _resolve
<1>3. reply[q] = <<>> /\ Due(q) /\ (what = "answer" <=> answer[q] # NoAnswer)
  BY <1>1 DEF Known, Stage, Open
<1> DEFINE one == Append(reply[q], what)
<1>4. one \in Seq({"answer", "apology"}) /\ Len(one) = 1 /\ one[1] = what
  <2>1. Append(<<>>, what) = <<what>>
    BY SMT
  <2> QED BY <1>3, <2>1, SMT
<1>5. CASE reply' = [reply EXCEPT ![q] = one] /\ \E end \in {"done", "failed"} : Go(q, end)
  <2> HIDE DEF one
  <2>1. TypeOK'
    BY <1>1, <1>2, <1>4, <1>5, BotAssumption
       DEF TypeOK, post_followup, Go, NoFault, Fault, loopVars, Ended
  <2>2. at'[q] \in {"done", "failed"} /\ reply'[q] = one
    BY <1>5 DEF TypeOK, Go
  <2>3. Stage(q)'
    BY <1>1, <1>2, <1>3, <1>4, <2>2 DEF Known, Stage, Due, Open, InLoop, loopVars
  <2>4. WellFormed(messages[q])' /\ Counted(q)'
    BY <1>1, <1>2, <2>2 DEF Known, Counted, loopVars
  <2> QED BY <2>1, <2>3, <2>4, OneQuestion DEF QuestionStep, LoopStep, Known
<1>6. CASE reply' = reply /\ Go(q, "refused")
  <2>1. TypeOK'
    BY <1>1, <1>2, <1>6, BotAssumption
       DEF TypeOK, post_followup, Go, NoFault, Fault, loopVars, Ended
  <2>2. at'[q] = "refused"
    BY <1>6 DEF TypeOK, Go
  <2>3. Stage(q)'
    BY <1>1, <1>2, <1>3, <1>6, <2>2 DEF Known, Stage, Due, Open, InLoop, loopVars
  <2>4. WellFormed(messages[q])' /\ Counted(q)'
    BY <1>1, <1>2, <2>2 DEF Known, Counted, loopVars
  <2> QED BY <2>1, <2>3, <2>4, OneQuestion DEF QuestionStep, LoopStep, Known
<1> QED BY <1>1, <1>5, <1>6 DEF post_followup, Accepted

\* A process that ends loses what it serves, before the follow-up.
LEMMA DieKeeps ==
  ASSUME IInv, NEW p \in Pods, Die(p), faults' \in 0..MaxFaults
  PROVE  IInv'
PROOF
<1> USE DEF IInv
<1>1. UNCHANGED <<command, home, reply, loopVars>>
  BY DEF Die
<1>2. TypeOK'
  BY <1>1 DEF TypeOK, Die, loopVars, Ended
<1>3. ASSUME NEW q \in Questions PROVE Known(q)'
  <2>1. CASE Serves(p, q)
    <3>1. at'[q] = "lost" /\ at[q] \in Open \cup {"queued"}
      BY <2>1 DEF Die, Serves
    <3>2. Stage(q)'
      BY <1>1, <3>1 DEF Known, Stage, Open, InLoop, loopVars
    <3>3. WellFormed(messages[q])' /\ Counted(q)'
      BY <1>1, <3>1 DEF Known, Counted, loopVars
    <3> QED BY <3>2, <3>3 DEF Known
  <2>2. CASE ~Serves(p, q)
    <3>1. Same(q)
      BY <1>1, <2>2 DEF Same, Die, loopVars
    <3> QED BY <3>1, SameKeeps
  <2> QED BY <2>1, <2>2
<1> QED BY <1>2, <1>3

LEMMA PodKeeps ==
  ASSUME IInv, NEW p \in Pods, PodStep(p)
  PROVE  IInv'
PROOF
<1>1. faults' \in 0..MaxFaults
  BY BotAssumption
     DEF IInv, TypeOK, PodStep, Crash, LivenessKill, Start, Surge, Terminate, ShutDown, Fault, NoFault
<1>2. CASE Die(p)
  BY <1>1, <1>2, DieKeeps
<1>3. CASE \E state \in {"up", "draining"} : Become(p, state)
  <2>1. TypeOK'
    BY <1>1, <1>3 DEF IInv, TypeOK, Become, loopVars
  <2>2. \A q \in Questions : Same(q)
    BY <1>3 DEF Become, Same, loopVars
  <2> QED BY <2>1, <2>2, SameKeeps DEF IInv
<1> QED BY <1>2, <1>3
        DEF PodStep, Crash, LivenessKill, Start, Surge, Terminate, ShutDown
-----------------------------------------------------------------------------
(***************************************************************************)
(* The invariant.                                                          *)
(***************************************************************************)
LEMMA InitKnows == Init => IInv
PROOF
<1> SUFFICES ASSUME Init PROVE IInv
  OBVIOUS
<1>1. TypeOK
  BY BotAssumption, EmptySeq DEF Init, TypeOK, Answers
<1>2. ASSUME NEW q \in Questions PROVE Known(q)
  <2>1. Stage(q)
    BY DEF Init, Stage, Open, InLoop
  <2>2. WellFormed(messages[q])
    BY DEF Init, WellFormed, Alternates, Answers_
  <2>3. Counted(q)
    BY DEF Init, Counted
  <2> QED BY <2>1, <2>2, <2>3 DEF Known
<1> QED BY <1>1, <1>2 DEF IInv

LEMMA StepKeeps == IInv /\ [Next]_vars => IInv'
PROOF
<1> SUFFICES ASSUME IInv, [Next]_vars PROVE IInv'
  OBVIOUS
<1>1. ASSUME NEW q \in Questions, LoopStep(q) PROVE IInv'
  BY <1>1, CommandKeeps, AsksKeeps, AnswersKeeps, FailsKeeps, DispatchKeeps, ReturnsKeeps,
     EndRoundKeeps, ResolveKeeps DEF LoopStep
<1>2. ASSUME NEW q \in Questions, SlackGivesUp(q) PROVE IInv'
  BY <1>2, SlackGivesUpKeeps
<1>3. ASSUME NEW q \in Questions, NEW p \in Pods, Send(q, p) PROVE IInv'
  BY <1>3, SendKeeps
<1>4. ASSUME NEW p \in Pods, PodStep(p) PROVE IInv'
  BY <1>4, PodKeeps
<1>5. CASE UNCHANGED vars
  <2>1. TypeOK'
    BY <1>5 DEF vars, loopVars, IInv, TypeOK
  <2>2. \A q \in Questions : Same(q)
    BY <1>5 DEF vars, loopVars, Same
  <2> QED BY <2>1, <2>2, SameKeeps DEF IInv
<1> QED BY <1>1, <1>2, <1>3, <1>4, <1>5 DEF Next

LEMMA Invariance == Safety => []IInv
BY InitKnows, StepKeeps, PTL DEF Safety
-----------------------------------------------------------------------------
(***************************************************************************)
(* Theorems.                                                               *)
(***************************************************************************)
\* The state of the bot keeps its shape: the rounds stay within
\* max_tool_iterations, and an answer names tools Claude asked for.
THEOREM TypeCorrect == Safety => []TypeOK
BY Invariance, PTL DEF IInv

\* answer_question sends well-formed conversations only, whatever tools Claude
\* asks for and however they end.
THEOREM Conversations == Safety => []ConversationWellFormed
PROOF
<1>1. IInv => ConversationWellFormed
  BY DEF IInv, Known, Stage, WellFormed, ConversationWellFormed
<1> QED BY <1>1, Invariance, PTL

\* slack_command and _resolve follow up once at most, only on a command that is
\* signed, recent and complete, and with an answer only if there is one.
THEOREM FollowUps == Safety => []FollowUpsAreDue
PROOF
<1>1. IInv => FollowUpsAreDue
  <2> SUFFICES ASSUME IInv, NEW q \in Questions, reply[q] # <<>>
               PROVE  Due(q) /\ Len(reply[q]) = 1 /\ (reply[q][1] = "answer" <=> answer[q] # NoAnswer)
    BY DEF FollowUpsAreDue, Due
  <2>1. at[q] \in {"done", "failed"}
    BY DEF IInv, Known, Stage
  <2> QED BY <2>1 DEF IInv, Known, Stage
<1> QED BY <1>1, Invariance, PTL

LEMMA ToolStep ==
  ASSUME IInv, [Next]_vars, NEW q \in Questions, at[q] \in {"calling", "waiting"}
  PROVE  at'[q] \in {at[q], "dispatch", "lost"}
PROOF
<1>1. ASSUME NEW r \in Questions, QuestionStep(r), r # q PROVE at'[q] = at[q]
  BY <1>1, OthersSame DEF IInv, Same
<1>2. CASE QuestionStep(q)
  <2>1. CASE ToolReturns(q)
    BY <2>1, ReturnsKeeps
  <2>2. CASE SlackGivesUp(q)
    BY <2>2 DEF SlackGivesUp
  <2> QED BY <1>2, <2>1, <2>2
          DEF QuestionStep, LoopStep, slack_command, ClaudeAsksForTools, ClaudeAnswers,
              ClaudeFails, DispatchBlock, EndRound, _resolve, Send
<1>3. CASE \E p \in Pods : PodStep(p)
  BY <1>3 DEF PodStep, Crash, LivenessKill, Start, Surge, Terminate, ShutDown, Die, Become
<1>4. CASE UNCHANGED vars
  BY <1>4 DEF vars
<1> QED BY <1>1, <1>2, <1>3, <1>4 DEF Next, QuestionStep

\* No way for a tool to fail ends the loop of answer_question: dispatch turns it
\* into an error that Claude is told.
THEOREM ErrorsReachClaude == Safety => ToolErrorsReachClaude
PROOF
<1>1. IInv /\ [Next]_vars =>
        [\A q \in Questions :
           at[q] \in {"calling", "waiting"} => at'[q] \in {at[q], "dispatch", "lost"}]_vars
  BY ToolStep
<1> QED BY <1>1, Invariance, PTL DEF Safety, ToolErrorsReachClaude
-----------------------------------------------------------------------------
(***************************************************************************)
(* The question desk.                                                      *)
(***************************************************************************)
\* What the desk can see happen to one question.
Seen(q) ==
  \/ Standing(q)' = Standing(q)
  \/ Standing(q) = "new" /\ Standing(q)' \in {"turned away", "open", "abandoned"}
  \/ Standing(q) = "open" /\ Standing(q)' \in {"answered", "apologised", "abandoned"}

LEMMA SameStands == ASSUME NEW r \in Questions, Same(r) PROVE Standing(r)' = Standing(r)
BY DEF Same, Standing

\* Where its handler is says how a question stands.
Stands(q) ==
  /\ at[q] \in {"idle", "queued"} => Standing(q) = "new"
  /\ at[q] \in Open => Standing(q) = "open"
  /\ at[q] = "closed" => Standing(q) = "turned away"
  /\ at[q] \in {"refused", "lost"} => Standing(q) = "abandoned"
  /\ at[q] \in {"done", "failed"} => Standing(q) \in {"answered", "apologised"}

AllStand == \A q \in Questions : Stands(q)

LEMMA StandingOf == IInv => AllStand
PROOF
<1> SUFFICES ASSUME IInv, NEW q \in Questions PROVE Stands(q)
  BY DEF AllStand
<1>1. at[q] \in Open \cup Ended \cup {"idle", "queued"}
  BY DEF IInv, TypeOK
<1>2. CASE at[q] \in {"done", "failed"}
  <2>1. reply[q] # <<>>
    <3>1. Len(reply[q]) = 1
      BY <1>2 DEF IInv, Known, Stage
    <3> DEFINE none == <<>>
    <3>2. Len(none) = 0
      OBVIOUS
    <3> HIDE DEF none
    <3>3. reply[q] # none
      BY <3>1, <3>2
    <3> QED BY <3>3 DEF none
  <2>2. Standing(q) = IF reply[q][Len(reply[q])] = "answer" THEN "answered" ELSE "apologised"
    BY <2>1 DEF Standing
  <2> QED BY <1>2, <2>2 DEF Stands, Open, InLoop
<1>3. CASE at[q] \notin {"done", "failed"}
  <2>1. reply[q] = <<>>
    BY <1>3 DEF IInv, Known, Stage
  <2>2. CASE at[q] \in Open
    <3>1. Standing(q) = "open"
      BY <2>1, <2>2 DEF Standing, Open, InLoop
    <3> QED BY <2>2, <3>1 DEF Stands, Open, InLoop
  <2>3. CASE at[q] \in {"idle", "queued"}
    BY <2>1, <2>3 DEF Standing, Stands, Open, InLoop
  <2>4. CASE at[q] \in {"closed", "refused", "lost"}
    BY <2>1, <2>4 DEF Standing, Stands, Open, InLoop
  <2> QED BY <1>1, <1>3, <2>2, <2>3, <2>4 DEF Ended
<1> QED BY <1>2, <1>3

LEMMA QuestionSeen ==
  ASSUME IInv, IInv', NEW q \in Questions, QuestionStep(q)
  PROVE  Seen(q)
PROOF
<1>1. \/ at[q] \in {"idle", "queued"} /\ at'[q] \in {"queued", "closed", "asking"}
      \/ at[q] \in Open /\ at'[q] \in Open \cup {"done", "failed", "refused"}
      \/ Same(q)
  <2>1. CASE slack_command(q)
    BY <2>1 DEF IInv, TypeOK, slack_command, TurnAway, Accept, Ask, Go, Open, InLoop
  <2>2. CASE ClaudeAsksForTools(q) \/ ClaudeAnswers(q) \/ ClaudeFails(q)
    BY <2>2 DEF IInv, TypeOK, ClaudeAsksForTools, ClaudeAnswers, ClaudeFails, Return, Go, Open, InLoop
  <2>3. CASE DispatchBlock(q) \/ EndRound(q)
    BY <2>3 DEF IInv, TypeOK, DispatchBlock, EndRound, Ask, Return, Go, Open, InLoop
  <2>4. CASE ToolReturns(q)
    BY <2>4, ReturnsKeeps DEF ToolReturns, Open, InLoop
  <2>5. CASE _resolve(q)
    BY <2>5 DEF IInv, TypeOK, _resolve, post_followup, Go, Open, InLoop
  <2>6. CASE SlackGivesUp(q)
    BY <2>6 DEF SlackGivesUp, Same, loopVars
  <2>7. CASE \E p \in Pods : Send(q, p)
    BY <2>7 DEF IInv, TypeOK, Send, Go
  <2> QED BY <2>1, <2>2, <2>3, <2>4, <2>5, <2>6, <2>7 DEF QuestionStep, LoopStep
<1>2. Stands(q) /\ Stands(q)'
  <2>1. AllStand /\ AllStand'
    BY StandingOf, PTL
  <2> QED BY <2>1 DEF AllStand
<1>3. CASE at[q] \in {"idle", "queued"} /\ at'[q] \in {"queued", "closed", "asking"}
  BY <1>2, <1>3 DEF Seen, Stands, Open, InLoop
<1>4. CASE at[q] \in Open /\ at'[q] \in Open \cup {"done", "failed", "refused"}
  BY <1>2, <1>4 DEF Seen, Stands
<1>5. CASE Same(q)
  BY <1>5, SameStands DEF Seen
<1> QED BY <1>1, <1>3, <1>4, <1>5

LEMMA DeskStep ==
  ASSUME IInv, IInv', [Next]_vars
  PROVE  [Desk!DeskNext]_(Desk!deskVars)
PROOF
<1> DEFINE view == [q \in Questions |-> Standing(q)]
<1>1. ASSUME NEW q \in Questions, QuestionStep(q)
      PROVE  [Desk!DeskNext]_(Desk!deskVars)
  <2>1. \A r \in Questions \ {q} : Standing(r)' = Standing(r)
    BY <1>1, OthersSame, SameStands DEF IInv
  <2>2. view' = [view EXCEPT ![q] = Standing(q)']
    BY <2>1
  <2>3. Seen(q)
    BY <1>1, QuestionSeen
  <2>4. CASE Standing(q)' = Standing(q)
    BY <2>2, <2>4 DEF Desk!deskVars
  <2>5. CASE Standing(q) = "new" /\ Standing(q)' = "turned away"
    BY <2>2, <2>5 DEF Desk!DeskNext, Desk!TurnAway, Desk!Move
  <2>6. CASE Standing(q) = "new" /\ Standing(q)' = "open"
    BY <2>2, <2>6 DEF Desk!DeskNext, Desk!Accept, Desk!Move
  <2>7. CASE Standing(q) = "open" /\ Standing(q)' \in {"answered", "apologised"}
    BY <2>2, <2>7 DEF Desk!DeskNext, Desk!Settle, Desk!Move, Desk!Settled
  <2>8. CASE Standing(q) \in {"new", "open"} /\ Standing(q)' = "abandoned"
    <3>1. Desk!Abandon({q})
      BY <2>1, <2>8 DEF Desk!Abandon
    <3> QED BY <3>1 DEF Desk!DeskNext
  <2> QED BY <2>3, <2>4, <2>5, <2>6, <2>7, <2>8 DEF Seen
<1>2. ASSUME NEW p \in Pods, Die(p)
      PROVE  [Desk!DeskNext]_(Desk!deskVars)
  <2> DEFINE some == {q \in Questions : Serves(p, q)}
  <2>1. AllStand /\ AllStand'
    BY StandingOf, PTL
  <2>2. ASSUME NEW q \in some PROVE Standing(q) \in {"new", "open"} /\ Standing(q)' = "abandoned"
    BY <1>2, <2>1, <2>2 DEF AllStand, Stands, Serves, Die
  <2>3. ASSUME NEW q \in Questions \ some PROVE Standing(q)' = Standing(q)
    <3>1. Same(q)
      BY <1>2, <2>3 DEF Same, Die, loopVars
    <3> QED BY <3>1, SameStands
  <2>4. Desk!Abandon(some)
    BY <2>2, <2>3 DEF Desk!Abandon
  <2> QED BY <2>4 DEF Desk!DeskNext
<1>3. ASSUME NEW p \in Pods, NEW state, Become(p, state)
      PROVE  [Desk!DeskNext]_(Desk!deskVars)
  <2>1. \A q \in Questions : Standing(q)' = Standing(q)
    BY <1>3, SameStands DEF Become, Same, loopVars
  <2> QED BY <2>1 DEF Desk!deskVars
<1>4. ASSUME NEW p \in Pods, PodStep(p)
      PROVE  [Desk!DeskNext]_(Desk!deskVars)
  BY <1>2, <1>3, <1>4
     DEF PodStep, Crash, LivenessKill, Start, Surge, Terminate, ShutDown
<1>5. CASE UNCHANGED vars
  <2>1. \A q \in Questions : Standing(q)' = Standing(q)
    BY <1>5, SameStands DEF vars, Same, loopVars
  <2> QED BY <2>1 DEF Desk!deskVars
<1> QED BY <1>1, <1>4, <1>5 DEF Next, QuestionStep

\* The bot implements the safety half of the question desk: a question is settled
\* once, and none that was turned away, settled or abandoned is settled later,
\* for all that Slack, Claude, the tools and the kubelet do.
THEOREM Implementation == Safety => Desk!DeskSafety
PROOF
<1>1. Init => Desk!DeskInit
  BY DEF Init, Desk!DeskInit, Standing, Open, InLoop
<1>2. IInv /\ IInv' /\ [Next]_vars => [Desk!DeskNext]_(Desk!deskVars)
  BY DeskStep
<1> QED BY <1>1, <1>2, Invariance, PTL DEF Safety, Desk!DeskSafety
-----------------------------------------------------------------------------
(***************************************************************************)
(* The line under an answer.  tools_used lists the calls of the rounds     *)
(* that have ended, and those of the running round that have begun.        *)
(***************************************************************************)
Listing(a, m, n, begun) ==
  \E ends \in [0..n -> 0..Len(a)] :
    /\ RoundsListed(a, m, n, ends)
    /\ Len(a) = ends[n] + begun
    /\ \A k \in 1..begun : a[ends[n] + k] = m[2*n + 2].uses[k].name

\* The running round: b are the calls yet to be dispatched, or in execution.
Remaining(b, calls) ==
  /\ Len(b) <= Len(calls)
  /\ \A k \in 1..Len(b) : b[k] = calls[Len(calls) - Len(b) + k]

LastCalls(q) == messages[q][2*iteration[q] + 2].uses

\* What has been listed for question q.
Listed(q) ==
  /\ at[q] \in {"idle", "queued"} => tools_used[q] = <<>>
  /\ at[q] = "asking" =>
       /\ Len(messages[q]) = 2*iteration[q] + 1
       /\ Listing(tools_used[q], messages[q], iteration[q], 0)
  /\ at[q] \in {"dispatch", "calling", "waiting"} =>
       /\ Len(messages[q]) = 2*iteration[q] + 2
       /\ Remaining(blocks[q], LastCalls(q))
  /\ at[q] = "dispatch" =>
       Listing(tools_used[q], messages[q], iteration[q], Len(LastCalls(q)) - Len(blocks[q]))
  /\ at[q] \in {"calling", "waiting"} =>
       Listing(tools_used[q], messages[q], iteration[q], Len(LastCalls(q)) - Len(blocks[q]) + 1)
  /\ answer[q] # NoAnswer => Consulted(answer[q].tools_used, messages[q])

\* Nothing is listed before the first round.
LEMMA ListNothing ==
  ASSUME NEW m
  PROVE  Listing(<<>>, m, 0, 0)
PROOF
<1> DEFINE ends == [i \in 0..0 |-> 0]
<1>1. ends \in [0..0 -> 0..Len(<<>>)] /\ ends[0] = 0 /\ Len(<<>>) = 0
  OBVIOUS
<1>2. RoundsListed(<<>>, m, 0, ends)
  BY DEF RoundsListed
<1> HIDE DEF ends
<1> QED BY <1>1, <1>2 DEF Listing

\* Another turn does not change what the earlier ones called.
LEMMA ListTurn ==
  ASSUME NEW a \in Seq(Tools), NEW m \in Seq(Turns), NEW n \in Nat, NEW t \in Turns,
         2*n <= Len(m), Listing(a, m, n, 0)
  PROVE  Listing(a, Append(m, t), n, 0)
PROOF
<1> DEFINE M == Append(m, t)
<1>1. \A i \in 1..n : M[2*i] = m[2*i]
  <2> SUFFICES ASSUME NEW i \in 1..n PROVE M[2*i] = m[2*i]
    OBVIOUS
  <2>1. 2*i \in 1..Len(m)
    OBVIOUS
  <2> QED BY <2>1, AppendProperties
<1> HIDE DEF M
<1>2. PICK ends \in [0..n -> 0..Len(a)] : RoundsListed(a, m, n, ends) /\ Len(a) = ends[n] + 0
  BY DEF Listing
<1>3. RoundsListed(a, M, n, ends)
  BY <1>1, <1>2 DEF RoundsListed
<1>4. \A k \in 1..0 : a[ends[n] + k] = M[2*n + 2].uses[k].name
  OBVIOUS
<1>5. Listing(a, M, n, 0)
  BY ONLY <1>2, <1>3, <1>4, ends \in [0..n -> 0..Len(a)] DEF Listing
<1> QED BY <1>5 DEF M

\* The calls of a round are a sequence of blocks.
LEMMA CallsOfRound ==
  ASSUME NEW m \in Seq(Turns), NEW i \in Nat \ {0}, 2*i <= Len(m)
  PROVE  m[2*i].uses \in Seq(Blocks) /\ Len(m[2*i].uses) \in Nat
PROOF
<1>1. 2*i \in 1..Len(m)
  OBVIOUS
<1>2. m[2*i] \in Turns
  BY <1>1, ElementOfSeq
<1>3. m[2*i].uses \in Seq(Blocks)
  BY <1>2 DEF Turns
<1> QED BY <1>3, LenProperties

\* DispatchBlock lists the next call.
LEMMA ListCall ==
  ASSUME NEW a \in Seq(Tools), NEW m \in Seq(Turns), NEW n \in Nat, NEW begun \in Nat,
         2*n + 2 <= Len(m), Listing(a, m, n, begun),
         NEW name \in Tools, name = m[2*n + 2].uses[begun + 1].name
  PROVE  Listing(Append(a, name), m, n, begun + 1)
PROOF
<1> DEFINE A == Append(a, name)
<1>1. PICK ends \in [0..n -> 0..Len(a)] :
        /\ RoundsListed(a, m, n, ends)
        /\ Len(a) = ends[n] + begun
        /\ \A k \in 1..begun : a[ends[n] + k] = m[2*n + 2].uses[k].name
  BY DEF Listing
<1>2. /\ A \in Seq(Tools) /\ Len(A) = Len(a) + 1 /\ A[Len(a) + 1] = name
      /\ \A i \in 1..Len(a) : A[i] = a[i]
      /\ Len(a) \in Nat
  BY AppendProperties
<1> HIDE DEF A
<1>3. \A i \in 0..n : ends[i] \in 0..Len(a)
  OBVIOUS
<1>4. ends \in [0..n -> 0..Len(A)]
  <2>1. \A i \in 0..n : ends[i] \in 0..Len(A)
    BY ONLY <1>2, <1>3
  <2> HIDE DEF A
  <2> QED BY <2>1
<1>5. RoundsListed(A, m, n, ends)
  <2> SUFFICES ASSUME NEW i \in 1..n, NEW k \in 1..Len(m[2*i].uses)
               PROVE  A[ends[i-1] + k] = m[2*i].uses[k].name
    BY <1>1 DEF RoundsListed
  <2>1. /\ ends[i] = ends[i-1] + Len(m[2*i].uses)
        /\ a[ends[i-1] + k] = m[2*i].uses[k].name
    BY <1>1 DEF RoundsListed
  <2>2. ends[i] \in 0..Len(a) /\ ends[i-1] \in 0..Len(a)
    BY <1>3
  <2>3. ends[i-1] + k \in 1..Len(a)
    <3> DEFINE l == Len(m[2*i].uses)
    <3>1. l \in Nat /\ k \in 1..l /\ ends[i] = ends[i-1] + l
      BY <2>1, CallsOfRound
    <3> HIDE DEF l
    <3> DEFINE e == ends[i-1]  f == ends[i]  w == Len(a)
    <3>2. e \in Nat /\ f <= w /\ f = e + l /\ w \in Nat
      BY <1>2, <2>2, <3>1
    <3> HIDE DEF e, f, w
    <3>3. e + k \in 1..w
      BY ONLY <3>1, <3>2
    <3> QED BY <3>3 DEF e, w
  <2> QED BY <1>2, <2>1, <2>3
<1>6. Len(A) = ends[n] + (begun + 1) /\ ends[n] \in Nat
  BY <1>1, <1>2, <1>3
<1>7. ASSUME NEW k \in 1..begun + 1 PROVE A[ends[n] + k] = m[2*n + 2].uses[k].name
  <2>1. CASE k \in 1..begun
    <3>1. ends[n] + k \in 1..Len(a)
      BY <1>1, <1>6, <2>1
    <3> QED BY <1>1, <1>2, <2>1, <3>1
  <2>2. CASE k = begun + 1
    BY <1>1, <1>2, <1>6, <2>2
  <2> QED BY <2>1, <2>2
<1> QED BY <1>5, <1>6, <1>7, <1>4 DEF Listing, A

\* A round whose calls are all listed counts as a round.
LEMMA ListRound ==
  ASSUME NEW a \in Seq(Tools), NEW m, NEW n \in Nat,
         Listing(a, m, n, Len(m[2*n + 2].uses))
  PROVE  Listing(a, m, n + 1, 0)
PROOF
<1> DEFINE calls == m[2*n + 2].uses
<1>1. PICK old \in [0..n -> 0..Len(a)] :
        /\ RoundsListed(a, m, n, old)
        /\ Len(a) = old[n] + Len(calls)
        /\ \A k \in 1..Len(calls) : a[old[n] + k] = calls[k].name
  BY DEF Listing
<1> DEFINE ends == [i \in 0..n+1 |-> IF i = n + 1 THEN Len(a) ELSE old[i]]
<1>2. Len(a) \in Nat /\ ends \in [0..n+1 -> 0..Len(a)]
  OBVIOUS
<1>3. ends[n+1] = Len(a) /\ \A i \in 0..n : ends[i] = old[i]
  OBVIOUS
<1> HIDE DEF ends
<1>4. ends[0] = 0
  BY <1>1, <1>3 DEF RoundsListed
<1>5. ASSUME NEW i \in 1..n+1
      PROVE  /\ ends[i] = ends[i-1] + Len(m[2*i].uses)
             /\ \A k \in 1..Len(m[2*i].uses) : a[ends[i-1] + k] = m[2*i].uses[k].name
  <2>1. CASE i \in 1..n
    <3>1. ends[i] = old[i] /\ ends[i-1] = old[i-1]
      BY <1>3, <2>1
    <3> QED BY <1>1, <2>1, <3>1 DEF RoundsListed
  <2>2. CASE i = n + 1
    <3>1. 2*i = 2*n + 2 /\ ends[i] = Len(a) /\ ends[i-1] = old[n]
      BY <1>3, <2>2
    <3>2. m[2*i].uses = calls
      BY <3>1
    <3> HIDE DEF calls
    <3> QED BY ONLY <1>1, <3>1, <3>2
  <2> QED BY <2>1, <2>2
<1>6. RoundsListed(a, m, n + 1, ends)
  BY <1>4, <1>5 DEF RoundsListed
<1>7. Len(a) = ends[n + 1] + 0 /\ \A k \in 1..0 : FALSE
  BY <1>2, <1>3
<1> QED BY <1>2, <1>6, <1>7 DEF Listing

\* The list of an answer, whether Claude gave it or the limit did.
LEMMA ListAnswer ==
  ASSUME NEW a \in Seq(Tools), NEW m \in Seq(Turns), NEW n \in Nat, Listing(a, m, n, 0),
         Len(m) \in {2*n + 1, 2*n + 2}
  PROVE  Consulted(a, m)
PROOF
<1>1. (Len(m) - 1) \div 2 = n
  OBVIOUS
<1>2. PICK ends \in [0..n -> 0..Len(a)] : RoundsListed(a, m, n, ends) /\ Len(a) = ends[n] + 0
  BY DEF Listing
<1>3. ends[n] = Len(a)
  BY <1>2
<1> QED BY <1>1, <1>2, <1>3 DEF Consulted, Rounds

\* How the calls of a message are worked off.
LEMMA RemainingSteps ==
  ASSUME NEW calls \in Seq(Blocks)
  PROVE  /\ Remaining(calls, calls)
         /\ \A b \in Seq(Blocks) : Remaining(b, calls) /\ b # <<>> =>
              /\ Remaining(Tail(b), calls) /\ Len(Tail(b)) = Len(b) - 1
              /\ Len(b) \in Nat /\ Len(calls) \in Nat /\ Len(b) > 0
              /\ Len(b) <= Len(calls)
              /\ Head(b) = calls[Len(calls) - Len(b) + 1]
PROOF
<1>1. Len(calls) \in Nat /\ Remaining(calls, calls)
  BY LenProperties DEF Remaining
<1>2. ASSUME NEW b \in Seq(Blocks), Remaining(b, calls), b # <<>>
      PROVE  /\ Remaining(Tail(b), calls) /\ Len(Tail(b)) = Len(b) - 1
             /\ Len(b) \in Nat /\ Len(b) > 0 /\ Len(b) <= Len(calls)
             /\ Head(b) = calls[Len(calls) - Len(b) + 1]
  <2> DEFINE rest == Tail(b)
  <2>1. /\ Len(b) \in Nat \ {0} /\ Len(rest) = Len(b) - 1 /\ Head(b) = b[1]
        /\ \A k \in 1..Len(b)-1 : rest[k] = b[k+1]
    BY <1>2, HeadTailProperties, EmptySeq, SMT
  <2> HIDE DEF rest
  <2>2. /\ Len(b) <= Len(calls)
        /\ \A k \in 1..Len(b) : b[k] = calls[Len(calls) - Len(b) + k]
    BY <1>2 DEF Remaining
  <2>3. ASSUME NEW k \in 1..Len(rest)
        PROVE  rest[k] = calls[Len(calls) - Len(rest) + k]
    <3>1. k + 1 \in 1..Len(b) /\ k \in 1..Len(b)-1
      BY <2>1
    <3>2. Len(calls) - Len(b) + (k + 1) = Len(calls) - Len(rest) + k
      BY <1>1, <2>1
    <3> QED BY <2>1, <2>2, <3>1, <3>2
  <2>4. Len(rest) <= Len(calls)
    BY <1>1, <2>1, <2>2
  <2>5. Remaining(rest, calls)
    BY <2>3, <2>4 DEF Remaining
  <2> QED BY <2>1, <2>2, <2>5 DEF rest
<1> QED BY <1>1, <1>2

LEMMA SameListed == ASSUME NEW r \in Questions, Listed(r), Same(r) PROVE Listed(r)'
BY DEF Same, Listed, LastCalls

LEMMA CommandListed ==
  ASSUME IInv, NEW q \in Questions, Listed(q), slack_command(q) \/ \E p \in Pods : Send(q, p)
  PROVE  Listed(q)'
PROOF
<1>1. /\ at[q] \in {"idle", "queued"} /\ tools_used'[q] = <<>> /\ iteration'[q] = 0
      /\ answer'[q] = NoAnswer
  BY DEF IInv, TypeOK, Known, Stage, Listed, slack_command, TurnAway, Accept, Send, loopVars
<1>2. \/ at'[q] \in {"queued", "closed"}
      \/ at'[q] = "asking" /\ messages'[q] = <<Question>>
  BY DEF IInv, TypeOK, slack_command, TurnAway, Accept, Ask, Send, Go
<1>3. CASE at'[q] \in {"queued", "closed"}
  BY <1>1, <1>3 DEF Listed
<1>4. CASE at'[q] = "asking" /\ messages'[q] = <<Question>>
  <2>1. Len(messages'[q]) = 2*0 + 1
    BY <1>4
  <2>2. Listing(<<>>, messages'[q], 0, 0)
    BY ListNothing
  <2> QED BY <1>1, <1>4, <2>1, <2>2 DEF Listed
<1> QED BY <1>2, <1>3, <1>4

LEMMA AskingListed ==
  ASSUME IInv, IInv', NEW q \in Questions, Listed(q),
         ClaudeAsksForTools(q) \/ ClaudeAnswers(q) \/ ClaudeFails(q)
  PROVE  Listed(q)'
PROOF
<1> DEFINE n == iteration[q]  a == tools_used[q]
<1>0. at[q] = "asking" /\ answer[q] = NoAnswer
  BY DEF IInv, Known, Stage, InLoop, ClaudeAsksForTools, ClaudeAnswers, ClaudeFails
<1>1. /\ at[q] = "asking" /\ messages[q] \in Seq(Turns) /\ a \in Seq(Tools) /\ n \in Nat
      /\ Len(messages[q]) = 2*n + 1 /\ Listing(a, messages[q], n, 0)
      /\ iteration'[q] = n /\ tools_used'[q] = a /\ answer[q] = NoAnswer
  <2>1. messages[q] \in Seq(Turns) /\ a \in Seq(Tools) /\ n \in Nat
    BY BotAssumption DEF IInv, TypeOK
  <2>2. Len(messages[q]) = 2*n + 1 /\ Listing(a, messages[q], n, 0)
    BY <1>0 DEF Listed
  <2>3. iteration'[q] = n /\ tools_used'[q] = a
    BY DEF ClaudeAsksForTools, ClaudeAnswers, ClaudeFails, loopVars
  <2> QED BY <1>0, <2>1, <2>2, <2>3
<1> HIDE DEF n, a
<1>2. CASE ClaudeFails(q)
  <2>1. at'[q] = "apologising" /\ answer'[q] = answer[q]
    BY <1>2 DEF IInv, TypeOK, ClaudeFails, Go, loopVars
  <2> QED BY <1>1, <2>1 DEF Listed
<1>3. ASSUME NEW names \in MessagesOfClaude, Append_(q, Said(q, names))
      PROVE  /\ messages'[q] \in Seq(Turns) /\ Len(messages'[q]) = 2*n + 2
             /\ messages'[q][2*n + 2].uses = Numbered(q, names)
             /\ Listing(a, messages'[q], n, 0)
             /\ Numbered(q, names) \in Seq(Blocks)
  <2> DEFINE t == Said(q, names)  m == messages[q]
  <2>1. t \in Turns /\ t.uses = Numbered(q, names) /\ Numbered(q, names) \in Seq(Blocks)
    BY SaidIsATurn DEF IInv
  <2>2. messages'[q] = Append(m, t)
    BY <1>3 DEF IInv, TypeOK, Append_
  <2> HIDE DEF t, m
  <2>3. /\ Append(m, t) \in Seq(Turns) /\ Len(Append(m, t)) = 2*n + 2
        /\ Append(m, t)[2*n + 2] = t
    <3>1. m \in Seq(Turns) /\ Len(m) = 2*n + 1 /\ n \in Nat
      BY <1>1 DEF m
    <3>2. t \in Turns
      BY <2>1
    <3>3. /\ Append(m, t) \in Seq(Turns) /\ Len(Append(m, t)) = Len(m) + 1
          /\ Append(m, t)[Len(m) + 1] = t
      BY ONLY <3>1, <3>2, AppendProperties
    <3>4. Len(m) + 1 = 2*n + 2
      BY ONLY <3>1
    <3> QED BY <3>3, <3>4
  <2>4. Listing(a, Append(m, t), n, 0)
    BY <1>1, <2>1, ListTurn DEF m
  <2> QED BY <2>1, <2>2, <2>3, <2>4
<1>4. CASE ClaudeAnswers(q)
  <2>1. PICK names \in MessagesOfClaude : Append_(q, Said(q, names))
    BY <1>4 DEF ClaudeAnswers
  <2>2. at'[q] = "posting" /\ answer'[q].tools_used = a
    BY <1>4 DEF IInv, TypeOK, ClaudeAnswers, Return, Go, a
  <2>3. Consulted(a, messages'[q])
    BY <1>1, <1>3, <2>1, ListAnswer
  <2> QED BY <2>2, <2>3 DEF Listed
<1>5. CASE ClaudeAsksForTools(q)
  <2>1. PICK names \in MessagesOfClaude :
          /\ Append_(q, Said(q, names))
          /\ blocks' = [blocks EXCEPT ![q] = Numbered(q, names)]
    BY <1>5 DEF ClaudeAsksForTools
  <2> DEFINE calls == Numbered(q, names)
  <2>2. at'[q] = "dispatch" /\ blocks'[q] = calls /\ answer'[q] = NoAnswer
    BY <1>1, <1>5, <2>1 DEF IInv, TypeOK, ClaudeAsksForTools, Go
  <2>3. LastCalls(q)' = calls /\ Remaining(calls, calls)
    BY <1>1, <1>3, <2>1, RemainingSteps DEF LastCalls
  <2>4. Len(calls) - Len(calls) = 0
    BY <1>3, <2>1, LenProperties
  <2> HIDE DEF calls
  <2>5. Len(LastCalls(q)') - Len(blocks'[q]) = 0
    BY <2>2, <2>3, <2>4
  <2>6. Listing(a, messages'[q], n, 0) /\ Len(messages'[q]) = 2*n + 2
    BY <1>3, <2>1
  <2> QED BY <1>1, <2>2, <2>3, <2>5, <2>6 DEF Listed
<1> QED BY <1>2, <1>4, <1>5
\* In the running round: its calls, and that of the first block.
LEMMA RunningRound ==
  ASSUME IInv, NEW q \in Questions, Listed(q), at[q] \in {"dispatch", "calling", "waiting"}
  PROVE  /\ messages[q] \in Seq(Turns) /\ tools_used[q] \in Seq(Tools) /\ iteration[q] \in Nat
         /\ Len(messages[q]) = 2*iteration[q] + 2 /\ answer[q] = NoAnswer
         /\ LastCalls(q) \in Seq(Blocks) /\ Len(LastCalls(q)) \in Nat
         /\ blocks[q] \in Seq(Blocks) /\ Remaining(blocks[q], LastCalls(q))
PROOF
<1>1. /\ messages[q] \in Seq(Turns) /\ tools_used[q] \in Seq(Tools) /\ iteration[q] \in Nat
      /\ blocks[q] \in Seq(Blocks)
  BY BotAssumption DEF IInv, TypeOK
<1>2. answer[q] = NoAnswer
  BY DEF IInv, Known, Stage, InLoop
<1>3. Len(messages[q]) = 2*iteration[q] + 2 /\ Remaining(blocks[q], LastCalls(q))
  BY DEF Listed
<1> DEFINE i == iteration[q] + 1
<1>4. i \in Nat \ {0} /\ 2*i = 2*iteration[q] + 2
  BY <1>1
<1>5. messages[q][2*i].uses \in Seq(Blocks) /\ Len(messages[q][2*i].uses) \in Nat
  <2>1. 2*i <= Len(messages[q])
    BY <1>1, <1>3, <1>4
  <2> HIDE DEF i
  <2> QED BY <1>1, <1>4, <2>1, CallsOfRound
<1>6. LastCalls(q) = messages[q][2*i].uses
  BY <1>4 DEF LastCalls
<1> HIDE DEF i
<1>7. LastCalls(q) \in Seq(Blocks) /\ Len(LastCalls(q)) \in Nat
  BY <1>5, <1>6
<1> QED BY <1>1, <1>2, <1>3, <1>7

LEMMA DispatchListed ==
  ASSUME IInv, NEW q \in Questions, Listed(q), DispatchBlock(q)
  PROVE  Listed(q)'
PROOF
<1> DEFINE n == iteration[q]  a == tools_used[q]  m == messages[q]
           b == blocks[q]  calls == LastCalls(q)  begun == Len(calls) - Len(b)
           name == Head(b).name
<1>1. at[q] = "dispatch" /\ b # <<>>
  BY DEF DispatchBlock
<1>2. /\ m \in Seq(Turns) /\ a \in Seq(Tools) /\ n \in Nat /\ Len(m) = 2*n + 2
      /\ calls \in Seq(Blocks) /\ b \in Seq(Blocks) /\ Remaining(b, calls)
      /\ answer[q] = NoAnswer
  BY <1>1, RunningRound
<1>3. Listing(a, m, n, begun)
  BY <1>1 DEF Listed
<1>4. calls = m[2*n + 2].uses
  BY DEF LastCalls
<1>5. /\ tools_used'[q] = Append(a, name) /\ at'[q] \in {"calling", "waiting"}
      /\ messages'[q] = m /\ iteration'[q] = n /\ blocks'[q] = b /\ answer'[q] = NoAnswer
      /\ LastCalls(q)' = calls
  BY <1>2 DEF IInv, TypeOK, DispatchBlock, Go, LastCalls
<1>6. Head(b) \in Blocks
  BY <1>1, <1>2, IdsSplit
<1> HIDE DEF n, a, m, b, calls
<1>7. Len(calls) \in Nat /\ Len(b) \in Nat /\ Len(b) <= Len(calls) /\ Head(b) = calls[begun + 1]
  BY <1>1, <1>2, RemainingSteps
<1>8. name \in Tools /\ name = m[2*n + 2].uses[begun + 1].name /\ begun \in Nat
  <2>1. begun \in Nat
    BY ONLY <1>7
  <2> QED BY <1>4, <1>6, <1>7, <2>1 DEF Blocks
<1> HIDE DEF name
<1>9. Listing(Append(a, name), m, n, begun + 1)
  <2>1. 2*n + 2 <= Len(m)
    BY <1>2
  <2> HIDE DEF begun
  <2> QED BY <1>2, <1>3, <1>8, <2>1, ListCall
<1> QED BY <1>2, <1>5, <1>9 DEF Listed

LEMMA ReturnsListed ==
  ASSUME IInv, NEW q \in Questions, Listed(q), ToolReturns(q)
  PROVE  Listed(q)'
PROOF
<1> DEFINE n == iteration[q]  a == tools_used[q]  m == messages[q]
           b == blocks[q]  calls == LastCalls(q)
<1>1. at[q] \in {"calling", "waiting"} /\ at'[q] = "dispatch"
  BY ReturnsKeeps DEF ToolReturns
<1>2. /\ m \in Seq(Turns) /\ a \in Seq(Tools) /\ n \in Nat /\ Len(m) = 2*n + 2
      /\ calls \in Seq(Blocks) /\ b \in Seq(Blocks) /\ Remaining(b, calls)
      /\ answer[q] = NoAnswer
  BY <1>1, RunningRound
<1>3. Listing(a, m, n, Len(calls) - Len(b) + 1) /\ b # <<>>
  BY <1>1 DEF Listed, IInv, Known, Stage
<1>4. blocks'[q] = Tail(b)
  <2>1. blocks' = [blocks EXCEPT ![q] = Tail(blocks[q])] \/ at'[q] = "apologising"
    BY DEF ToolReturns, Go, IInv, TypeOK
  <2> QED BY <1>1, <2>1 DEF IInv, TypeOK
<1>5. /\ tools_used'[q] = a /\ messages'[q] = m /\ iteration'[q] = n /\ answer'[q] = NoAnswer
      /\ LastCalls(q)' = calls
  BY <1>2 DEF ToolReturns, LastCalls
<1> HIDE DEF n, a, m, b, calls
<1>6. /\ Remaining(Tail(b), calls) /\ Len(Tail(b)) = Len(b) - 1
      /\ Len(b) \in Nat /\ Len(calls) \in Nat
  BY <1>2, <1>3, RemainingSteps
<1>7. Len(calls) - Len(Tail(b)) = Len(calls) - Len(b) + 1
  <2> DEFINE w == Len(calls)  u == Len(b)  v == Len(Tail(b))
  <2>1. v = u - 1 /\ u \in Nat /\ w \in Nat
    BY <1>6
  <2> HIDE DEF u, v, w
  <2>2. w - v = w - u + 1
    BY ONLY <2>1
  <2> QED BY <2>2 DEF u, v, w
<1>8. Listing(a, m, n, Len(calls) - Len(Tail(b)))
  <2> DEFINE x == Len(calls) - Len(b) + 1  y == Len(calls) - Len(Tail(b))
  <2>1. x = y /\ Listing(a, m, n, x)
    BY <1>3, <1>7
  <2> HIDE DEF x, y
  <2>2. Listing(a, m, n, y)
    BY ONLY <2>1
  <2> QED BY <2>2 DEF y
<1> QED BY <1>1, <1>2, <1>4, <1>5, <1>6, <1>8 DEF Listed

LEMMA EndRoundListed ==
  ASSUME IInv, NEW q \in Questions, Listed(q), EndRound(q)
  PROVE  Listed(q)'
PROOF
<1> DEFINE n == iteration[q]  a == tools_used[q]  m == messages[q]
           calls == LastCalls(q)
           t == [role |-> "user", uses |-> <<>>, results |-> results[q]]
           M == Append(m, t)
<1>1. at[q] = "dispatch" /\ blocks[q] = <<>>
  BY DEF EndRound
<1>2. /\ m \in Seq(Turns) /\ a \in Seq(Tools) /\ n \in Nat /\ Len(m) = 2*n + 2
      /\ calls \in Seq(Blocks) /\ Len(calls) \in Nat /\ answer[q] = NoAnswer
  BY <1>1, RunningRound
<1>3. Listing(a, m, n, Len(calls))
  <2>1. Listing(a, m, n, Len(calls) - Len(<<>>))
    BY <1>1 DEF Listed
  <2>2. Len(calls) - Len(<<>>) = Len(calls)
    BY <1>2
  <2> HIDE DEF calls
  <2> QED BY <2>1, <2>2
<1>4. calls = m[2*n + 2].uses
  BY DEF LastCalls
<1>5. /\ messages'[q] = M /\ iteration'[q] = n + 1 /\ tools_used'[q] = a
      /\ \/ at'[q] = "asking" /\ answer'[q] = NoAnswer
         \/ at'[q] = "posting" /\ answer'[q].tools_used = a
  BY <1>2 DEF IInv, TypeOK, EndRound, Append_, Ask, Return, Go
<1>6. t \in Turns
  BY EmptySeq DEF IInv, TypeOK, Turns
<1> HIDE DEF n, a, m, calls, t
<1> DEFINE k == n + 1
<1>7. Listing(a, m, k, 0)
  BY <1>2, <1>3, <1>4, ListRound
<1>8. M \in Seq(Turns) /\ Len(M) = 2*k + 1
  BY <1>2, <1>6, AppendProperties
<1>9. k \in Nat /\ 2*k <= Len(m)
  BY <1>2
<1>10. Listing(a, M, k, 0)
  <2> HIDE DEF k
  <2> QED BY <1>2, <1>6, <1>7, <1>9, ListTurn
<1>11. Consulted(a, M)
  <2> HIDE DEF M, k
  <2> QED BY <1>2, <1>8, <1>9, <1>10, ListAnswer
<1> QED BY <1>5, <1>8, <1>10, <1>11 DEF Listed

\* Nothing is listed in a step of Slack, of the follow-up or of a pod.
LEMMA QuietListed ==
  ASSUME NEW q \in Questions, IInv, Listed(q), UNCHANGED loopVars,
         at'[q] \in {at[q]} \cup Ended
  PROVE  Listed(q)'
PROOF
<1>1. /\ messages'[q] = messages[q] /\ iteration'[q] = iteration[q] /\ blocks'[q] = blocks[q]
      /\ tools_used'[q] = tools_used[q] /\ answer'[q] = answer[q]
  BY DEF loopVars
<1>2. CASE at'[q] = at[q]
  BY <1>1, <1>2 DEF Listed, LastCalls
<1>3. CASE at'[q] \in Ended
  BY <1>1, <1>3 DEF Listed, Ended
<1> QED BY <1>2, <1>3

LEMMA StepListed ==
  ASSUME IInv, IInv', \A q \in Questions : Listed(q), [Next]_vars
  PROVE  (\A q \in Questions : Listed(q))'
PROOF
<1>1. ASSUME NEW q \in Questions, QuestionStep(q) PROVE Listed(q)'
  <2>1. CASE slack_command(q) \/ \E p \in Pods : Send(q, p)
    BY <2>1, CommandListed
  <2>2. CASE ClaudeAsksForTools(q) \/ ClaudeAnswers(q) \/ ClaudeFails(q)
    BY <2>2, AskingListed
  <2>3. CASE DispatchBlock(q)
    BY <2>3, DispatchListed
  <2>4. CASE ToolReturns(q)
    BY <2>4, ReturnsListed
  <2>5. CASE EndRound(q)
    BY <2>5, EndRoundListed
  <2>6. CASE _resolve(q)
    <3>1. UNCHANGED loopVars
      BY <2>6 DEF _resolve
    <3>2. at'[q] \in Ended
      BY <2>6 DEF _resolve, post_followup, Go, Ended, IInv, TypeOK
    <3> QED BY <3>1, <3>2, QuietListed
  <2>7. CASE SlackGivesUp(q)
    <3>1. UNCHANGED loopVars /\ at'[q] = at[q]
      BY <2>7 DEF SlackGivesUp
    <3> QED BY <3>1, QuietListed
  <2> QED BY <1>1, <2>1, <2>2, <2>3, <2>4, <2>5, <2>6, <2>7 DEF QuestionStep, LoopStep
<1>2. ASSUME NEW q \in Questions, QuestionStep(q), NEW r \in Questions PROVE Listed(r)'
  <2>1. CASE r = q
    BY <1>1, <1>2, <2>1
  <2>2. CASE r # q
    BY <1>2, <2>2, OthersSame, SameListed DEF IInv
  <2> QED BY <2>1, <2>2
<1>3. ASSUME NEW p \in Pods, PodStep(p), NEW q \in Questions PROVE Listed(q)'
  <2>1. UNCHANGED loopVars
    BY <1>3 DEF PodStep, Crash, LivenessKill, Start, Surge, Terminate, ShutDown, Die, Become
  <2>2. at'[q] \in {at[q]} \cup Ended
    BY <1>3 DEF PodStep, Crash, LivenessKill, Start, Surge, Terminate, ShutDown, Die, Become, Ended
  <2> QED BY <2>1, <2>2, QuietListed
<1>4. CASE UNCHANGED vars
  BY <1>4, SameListed DEF vars, loopVars, Same
<1> QED BY <1>2, <1>3, <1>4 DEF Next, QuestionStep

-----------------------------------------------------------------------------
(***************************************************************************)
(* What Claude was told of the calls.                                      *)
(***************************************************************************)
\* A request carries the conversation up to the results of the round before.
Told(q) ==
  /\ at[q] \in InLoop => sent[q] = 2*iteration[q] + 1
  /\ answer[q] # NoAnswer =>
       /\ answer[q].tool_calls_made = Rounds(Len(messages[q]))
       /\ RoundsTold(answer[q], sent[q])

LEMMA SameTold == ASSUME NEW r \in Questions, Told(r), Same(r) PROVE Told(r)'
BY DEF Same, Told

\* The rounds in a conversation: before the message of Claude, and after it.
LEMMA RoundsOf ==
  ASSUME NEW n \in Nat
  PROVE  Rounds(2*n + 1) = n /\ Rounds(2*n + 2) = n
BY DEF Rounds

LEMMA CommandTold ==
  ASSUME IInv, NEW q \in Questions, slack_command(q) \/ \E p \in Pods : Send(q, p)
  PROVE  Told(q)'
PROOF
<1>1. iteration'[q] = 0 /\ answer'[q] = NoAnswer
  BY DEF IInv, Known, Stage, InLoop, slack_command, TurnAway, Accept, Send, loopVars
<1>2. \/ at'[q] \in {"queued", "closed"}
      \/ at'[q] = "asking" /\ messages'[q] = <<Question>> /\ sent'[q] = Len(messages'[q])
  BY DEF IInv, TypeOK, slack_command, TurnAway, Accept, Ask, Send, Go
<1>3. CASE at'[q] \in {"queued", "closed"}
  BY <1>1, <1>3 DEF Told, InLoop
<1>4. CASE at'[q] = "asking" /\ messages'[q] = <<Question>> /\ sent'[q] = Len(messages'[q])
  <2>1. Len(<<Question>>) = 2*0 + 1
    OBVIOUS
  <2> QED BY <1>1, <1>4, <2>1 DEF Told
<1> QED BY <1>2, <1>3, <1>4

LEMMA LoopTold ==
  ASSUME IInv, NEW q \in Questions, Told(q),
         ClaudeAsksForTools(q) \/ ClaudeFails(q) \/ DispatchBlock(q) \/ ToolReturns(q)
  PROVE  Told(q)'
PROOF
<1>1. at[q] \in InLoop /\ answer[q] = NoAnswer
  BY DEF IInv, Known, Stage, InLoop, ClaudeAsksForTools, ClaudeFails, DispatchBlock, ToolReturns
<1>2. sent'[q] = sent[q] /\ iteration'[q] = iteration[q] /\ answer'[q] = NoAnswer
  BY <1>1 DEF ClaudeAsksForTools, ClaudeFails, DispatchBlock, ToolReturns, loopVars
<1> QED BY <1>1, <1>2 DEF Told

\* Claude ends the loop: it was told of every round.
LEMMA AnswerTold ==
  ASSUME IInv, NEW q \in Questions, Listed(q), Told(q), ClaudeAnswers(q)
  PROVE  Told(q)'
PROOF
<1> DEFINE n == iteration[q]
<1>1. /\ at[q] = "asking" /\ n \in Nat /\ n < max_tool_iterations
      /\ Len(messages[q]) = 2*n + 1 /\ sent[q] = 2*n + 1
  BY BotAssumption DEF IInv, TypeOK, Known, Stage, InLoop, Listed, Told, ClaudeAnswers
<1>2. PICK names \in MessagesOfClaude : messages'[q] = Append(messages[q], Said(q, names))
  BY DEF IInv, TypeOK, ClaudeAnswers, Append_
<1>3. Len(messages'[q]) = 2*n + 2
  <2>1. messages[q] \in Seq(Turns) /\ Said(q, names) \in Turns
    BY SaidIsATurn DEF IInv, TypeOK
  <2>2. Len(Append(messages[q], Said(q, names))) = Len(messages[q]) + 1
    BY <2>1, AppendProperties
  <2> HIDE DEF n
  <2> QED BY <1>1, <1>2, <2>2
<1>4. /\ at'[q] = "posting" /\ sent'[q] = sent[q]
      /\ answer'[q].tool_calls_made = n
  BY DEF IInv, TypeOK, ClaudeAnswers, Return, Go
<1> HIDE DEF n
<1>5. Rounds(Len(messages'[q])) = n /\ Rounds(sent'[q]) = n
  BY <1>1, <1>3, <1>4, RoundsOf
<1>6. RoundsTold(answer[q], sent[q])'
  BY <1>1, <1>4, <1>5, BotAssumption DEF RoundsTold
<1> QED BY <1>4, <1>5, <1>6 DEF Told, InLoop

\* A round ends: its results go out with the next request, if there is one.
LEMMA EndRoundTold ==
  ASSUME IInv, NEW q \in Questions, Listed(q), Told(q), EndRound(q)
  PROVE  Told(q)'
PROOF
<1> DEFINE n == iteration[q]  k == n + 1
           t == [role |-> "user", uses |-> <<>>, results |-> results[q]]
<1>1. /\ at[q] = "dispatch" /\ n \in Nat /\ answer[q] = NoAnswer
      /\ Len(messages[q]) = 2*n + 2 /\ sent[q] = 2*n + 1
  BY BotAssumption DEF IInv, TypeOK, Known, Stage, InLoop, Listed, Told, EndRound
<1>2. /\ messages'[q] = Append(messages[q], t) /\ iteration'[q] = k
      /\ \/ at'[q] = "asking" /\ sent'[q] = Len(messages'[q]) /\ answer'[q] = answer[q]
         \/ /\ at'[q] = "posting" /\ sent'[q] = sent[q] /\ k = max_tool_iterations
            /\ answer'[q].tool_calls_made = max_tool_iterations
  BY DEF IInv, TypeOK, EndRound, Append_, Ask, Return, Go
<1>3. Len(messages'[q]) = 2*k + 1
  <2>1. messages[q] \in Seq(Turns) /\ t \in Turns
    BY EmptySeq DEF IInv, TypeOK, Turns
  <2>2. Len(Append(messages[q], t)) = Len(messages[q]) + 1
    BY <2>1, AppendProperties
  <2>3. Len(messages'[q]) = (2*n + 2) + 1
    BY <1>1, <1>2, <2>2
  <2> HIDE DEF n
  <2> QED BY <1>1, <2>3
<1>4. k \in Nat /\ k - 1 = n
  BY <1>1
<1> HIDE DEF n, k, t
<1>5. CASE at'[q] = "asking" /\ sent'[q] = Len(messages'[q]) /\ answer'[q] = answer[q]
  BY <1>1, <1>2, <1>3, <1>5 DEF Told
<1>6. CASE /\ at'[q] = "posting" /\ sent'[q] = sent[q] /\ k = max_tool_iterations
           /\ answer'[q].tool_calls_made = max_tool_iterations
  <2>1. Rounds(Len(messages'[q])) = k /\ Rounds(sent'[q]) = n
    BY <1>1, <1>3, <1>4, <1>6, RoundsOf
  <2>2. RoundsTold(answer[q], sent[q])'
    BY <1>4, <1>6, <2>1 DEF RoundsTold
  <2> QED BY <1>6, <2>1, <2>2 DEF Told, InLoop
<1> QED BY <1>2, <1>5, <1>6

LEMMA QuietTold ==
  ASSUME NEW q \in Questions, Told(q), UNCHANGED loopVars, at'[q] \in {at[q]} \cup Ended
  PROVE  Told(q)'
BY DEF Told, loopVars, Ended, InLoop

LEMMA StepTold ==
  ASSUME IInv, \A q \in Questions : Listed(q), \A q \in Questions : Told(q), [Next]_vars
  PROVE  (\A q \in Questions : Told(q))'
PROOF
<1>1. ASSUME NEW q \in Questions, QuestionStep(q) PROVE Told(q)'
  <2>1. CASE slack_command(q) \/ \E p \in Pods : Send(q, p)
    BY <2>1, CommandTold
  <2>2. CASE ClaudeAsksForTools(q) \/ ClaudeFails(q) \/ DispatchBlock(q) \/ ToolReturns(q)
    BY <2>2, LoopTold
  <2>3. CASE ClaudeAnswers(q)
    BY <2>3, AnswerTold
  <2>4. CASE EndRound(q)
    BY <2>4, EndRoundTold
  <2>5. CASE _resolve(q)
    <3>1. UNCHANGED loopVars
      BY <2>5 DEF _resolve
    <3>2. at'[q] \in Ended
      BY <2>5 DEF _resolve, post_followup, Go, Ended, IInv, TypeOK
    <3> QED BY <3>1, <3>2, QuietTold
  <2>6. CASE SlackGivesUp(q)
    <3>1. UNCHANGED loopVars /\ at'[q] = at[q]
      BY <2>6 DEF SlackGivesUp
    <3> QED BY <3>1, QuietTold
  <2> QED BY <1>1, <2>1, <2>2, <2>3, <2>4, <2>5, <2>6 DEF QuestionStep, LoopStep
<1>2. ASSUME NEW q \in Questions, QuestionStep(q), NEW r \in Questions PROVE Told(r)'
  <2>1. CASE r = q
    BY <1>1, <1>2, <2>1
  <2>2. CASE r # q
    BY <1>2, <2>2, OthersSame, SameTold DEF IInv
  <2> QED BY <2>1, <2>2
<1>3. ASSUME NEW p \in Pods, PodStep(p), NEW q \in Questions PROVE Told(q)'
  <2>1. UNCHANGED loopVars
    BY <1>3 DEF PodStep, Crash, LivenessKill, Start, Surge, Terminate, ShutDown, Die, Become
  <2>2. at'[q] \in {at[q]} \cup Ended
    BY <1>3 DEF PodStep, Crash, LivenessKill, Start, Surge, Terminate, ShutDown, Die, Become, Ended
  <2> QED BY <2>1, <2>2, QuietTold
<1>4. CASE UNCHANGED vars
  BY <1>4, SameTold DEF vars, loopVars, Same
<1> QED BY <1>2, <1>3, <1>4 DEF Next, QuestionStep

\* The line under an answer lists the calls made for it, in order and no others,
\* and speaks of none exactly if there are none.  A text of Claude was written
\* with the results of all of them; at the limit, where the bot writes the text
\* itself, those of the last round are the ones Claude was never sent.
THEOREM SummaryTrue == Safety => []SummaryIsTrue
PROOF
<1> DEFINE AllListed == \A q \in Questions : Listed(q)
           AllTold   == \A q \in Questions : Told(q)
<1>1. Init => AllListed /\ AllTold
  BY DEF Init, Listed, Told, InLoop
<1>2. IInv /\ IInv' /\ AllListed /\ [Next]_vars => AllListed'
  BY StepListed
<1>3. IInv /\ AllListed /\ AllTold /\ [Next]_vars => AllTold'
  BY StepTold
<1>4. IInv /\ AllListed /\ AllTold => SummaryIsTrue
  BY DEF IInv, Known, Counted, Listed, Told, SummaryIsTrue
<1> HIDE DEF AllListed, AllTold
<1> QED BY <1>1, <1>2, <1>3, <1>4, Invariance, PTL DEF Safety
==============================================================================
