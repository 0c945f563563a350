---------------------------- MODULE BotTools_proofs ----------------------------
(***************************************************************************)
(* Proofs about BotTools, for any number of calls, commits, tags, pods and *)
(* failures: what a write tool reports is true when it reports it and      *)
(* stays true while other calls, people and controllers go on.  What the   *)
(* read tools leave out is older than what they show.                      *)
(***************************************************************************)
EXTENDS BotTools, FiniteSetTheorems, TLAPS

Fields == {"tool", "at", "target", "tag", "start", "sha", "listed", "left", "deleted", "errors"}

Open == {"idle", "resolving", "tagging", "deleting"}

\* The commit a call has found, or been given, for its tag.
ShaKnown(q) ==
  /\ q.tag \in Tags /\ q.sha \in 1..main
  /\ IF q.target # None THEN q.sha = q.target ELSE q.start <= q.sha

\* The pod of this name is gone for good, or terminating.
Stopped(n) == n \notin fresh /\ Pod(n) \notin Running

\* The pods listed are accounted for, but for those still to come.
Accounted(q) ==
  /\ q.deleted \cup q.errors \cup q.left = q.listed
  /\ q.left \cap (q.deleted \cup q.errors) = {}

\* What a call knows at each point, and what follows from its outcome.
Known(c) ==
  LET q == call[c]
  IN /\ q = [f \in Fields |-> q[f]]
     /\ q.at \in Open \cup Ends
     /\ q.at = "idle" => q = Idle
     /\ q.at \in {"resolving", "tagging"} => q.tool = "create_release_tag"
     /\ q.at = "deleting" => q.tool = "restart_pods"
     /\ q.at = "resolving" => q.tag \in Tags /\ q.target = None /\ q.start \in 1..main
     /\ q.at = "tagging" => ShaKnown(q)
     /\ q.tool = "create_release_tag" /\ q.at = "ok" => ShaKnown(q) /\ tags[q.tag] = q.sha
     /\ q.at = "deleting" => Accounted(q)
     /\ q.tool = "restart_pods" /\ q.at = "ok" => q.deleted \cup q.errors = q.listed
     /\ q.deleted \cap q.errors = {}
     /\ \A n \in q.deleted : Stopped(n)

\* The names not used yet name no pod.
PodsKnown == \A n \in fresh : Pod(n) \notin objects

IInv ==
  /\ main \in Nat \ {0} /\ tags = [t \in Tags |-> tags[t]]
  /\ call = [c \in Calls |-> call[c]]
  /\ PodsKnown
  /\ \A c \in Calls : Known(c)
-----------------------------------------------------------------------------
\* What no step undoes.
World ==
  /\ main' \in Nat \ {0} /\ main <= main' /\ tags' = [t \in Tags |-> tags'[t]]
  /\ \A t \in Tags : tags[t] # 0 => tags'[t] = tags[t]
  /\ PodsKnown'
  /\ \A n : Stopped(n) => Stopped(n)'

LEMMA KnownOn ==
  ASSUME IInv, NEW c \in Calls, World, call'[c] = call[c]
  PROVE  Known(c)'
PROOF
<1> DEFINE q == call[c]
<1>1. Known(c) /\ main \in Nat /\ main' \in Nat /\ main <= main'
  BY DEF IInv, World
<1>2. ASSUME ShaKnown(q) PROVE ShaKnown(q)'
  BY <1>1, <1>2 DEF ShaKnown
<1>3. q.tool = "create_release_tag" /\ q.at = "ok" => ShaKnown(q)' /\ tags'[q.tag] = q.sha
  <2> SUFFICES ASSUME q.tool = "create_release_tag", q.at = "ok"
               PROVE  ShaKnown(q)' /\ tags'[q.tag] = q.sha
    OBVIOUS
  <2>1. ShaKnown(q) /\ tags[q.tag] = q.sha /\ q.tag \in Tags /\ q.sha # 0
    BY <1>1 DEF Known, ShaKnown
  <2> QED BY <1>2, <2>1 DEF World
<1> QED BY <1>1, <1>2, <1>3 DEF Known, World, Accounted

LEMMA OneCall ==
  ASSUME IInv, World, NEW c \in Calls, NEW q, call' = [call EXCEPT ![c] = q], Known(c)'
  PROVE  IInv'
PROOF
<1>1. ASSUME NEW d \in Calls, d # c PROVE Known(d)'
  <2>1. call'[d] = call[d]
    BY <1>1 DEF IInv
  <2> QED BY <2>1, KnownOn
<1>2. call' = [d \in Calls |-> call'[d]]
  BY DEF IInv
<1> QED BY <1>1, <1>2 DEF IInv, World

LEMMA NoCall ==
  ASSUME IInv, World, call' = call
  PROVE  IInv'
BY KnownOn DEF IInv, World

\* The pods as they were.
LEMMA SamePods ==
  ASSUME IInv, UNCHANGED <<fresh, objects, terminating>>
  PROVE  PodsKnown' /\ \A n : Stopped(n) => Stopped(n)'
BY DEF IInv, PodsKnown, Stopped, Running, Pods

LEMMA Quiet ==
  ASSUME IInv, UNCHANGED <<fresh, objects, terminating, main, tags>>
  PROVE  World
BY SamePods DEF IInv, World
-----------------------------------------------------------------------------
(***************************************************************************)
(* The tools.                                                              *)
(***************************************************************************)
\* Failing tells nothing.
LEMMA FailsKnown ==
  ASSUME IInv, NEW c \in Calls, NEW tool, call[c].at \in Open,
         Fails(c, tool) \/ Refuses(c, tool),
         UNCHANGED <<fresh, objects, terminating, main, tags>>
  PROVE  IInv'
PROOF
<1> DEFINE q == call[c]
<1>1. PICK how \in {"error", "raised"} :
        call' = [call EXCEPT ![c] = [q EXCEPT !.tool = tool, !.at = how]]
  BY DEF Fails, Refuses, Becomes
<1> DEFINE new == [q EXCEPT !.tool = tool, !.at = how]
<1>2. Known(c) /\ q = [f \in Fields |-> q[f]]
  BY DEF IInv, Known
<1>3. World
  BY Quiet DEF github
<1>4. call'[c] = new
  BY <1>1 DEF IInv
<1> HIDE DEF q
<1>5. /\ new = [f \in Fields |-> new[f]] /\ new.at = how
      /\ new.deleted = q.deleted /\ new.errors = q.errors
  BY <1>2 DEF Fields
<1>6. call' = [call EXCEPT ![c] = new]
  BY <1>1 DEF q
<1>7. q.deleted \cap q.errors = {} /\ \A n \in q.deleted : Stopped(n)
  BY <1>2 DEF Known, q
<1> HIDE DEF new
<1>8. Known(c)'
  BY <1>2, <1>3, <1>4, <1>5, <1>7 DEF Known, World, Open, Ends, github
<1> QED BY <1>3, <1>6, <1>8, OneCall DEF github

LEMMA DispatchKeeps ==
  ASSUME IInv, NEW c \in Calls, trigger_workflow_dispatch(c)
  PROVE  IInv'
PROOF
<1> DEFINE tool == "trigger_workflow_dispatch"  q == call[c]
<1>1. q.at = "idle" /\ UNCHANGED <<fresh, objects, terminating, operation, main, tags>>
  BY DEF trigger_workflow_dispatch, cluster
<1>2. CASE (Refuses(c, tool) \/ Fails(c, tool)) /\ UNCHANGED runs
  BY <1>1, <1>2, FailsKnown DEF github, Open
<1>3. CASE Done(c, tool) /\ runs' = runs \cup {c}
  <2> DEFINE tried(how) == [q EXCEPT !.tool = tool, !.at = how]
  <2>1. PICK how \in Ends : call' = [call EXCEPT ![c] = tried(how)]
    BY <1>3 DEF Done, Becomes, Ends
  <2> DEFINE new == tried(how)
  <2>2. call'[c] = new
    BY <2>1 DEF IInv
  <2>3. q = Idle
    BY <1>1 DEF IInv, Known
  <2> HIDE DEF q
  <2>4. /\ new = [f \in Fields |-> new[f]] /\ new.at = how /\ new.tool = tool
        /\ new.deleted = {} /\ new.errors = {}
    BY <2>3 DEF Fields, Idle
  <2> HIDE DEF new
  <2>5. Known(c)'
    BY <1>3, <2>2, <2>4 DEF Known, Open, Ends
  <2> QED BY <1>1, <1>3, <2>1, <2>5, Quiet, OneCall
<1> QED BY <1>2, <1>3 DEF trigger_workflow_dispatch

LEMMA CreateKeeps ==
  ASSUME IInv, NEW c \in Calls, create_release_tag(c)
  PROVE  IInv'
PROOF
<1> DEFINE q == call[c]  tool == "create_release_tag"
<1>1. q.at = "idle" /\ UNCHANGED <<fresh, objects, terminating, operation, github>>
  BY DEF create_release_tag, cluster
<1>2. CASE Refuses(c, tool)
  BY <1>1, <1>2, FailsKnown DEF Open, github
<1>3. ASSUME NEW t \in Tags, NEW target \in 1..main \cup {None},
             Becomes(c, [Idle EXCEPT !.tool = tool, !.tag = t, !.target = target,
                           !.start = main, !.sha = IF target = None THEN 0 ELSE target,
                           !.at = IF target = None THEN "resolving" ELSE "tagging"])
      PROVE  IInv'
  <2> DEFINE sha == IF target = None THEN 0 ELSE target
             at  == IF target = None THEN "resolving" ELSE "tagging"
             new == [Idle EXCEPT !.tool = tool, !.tag = t, !.target = target,
                       !.start = main, !.sha = sha, !.at = at]
  <2>1. call' = [call EXCEPT ![c] = new] /\ call'[c] = new
    BY <1>3 DEF Becomes, IInv
  <2>2. target # None => sha \in 1..main /\ sha = target
    BY <1>3
  <2>3. at \in {"resolving", "tagging"} /\ (at = "tagging" => target # None)
        /\ (at = "resolving" => target = None)
    OBVIOUS
  <2> HIDE DEF sha, at
  <2>4. /\ new = [f \in Fields |-> new[f]] /\ new.at = at /\ new.tool = tool /\ new.tag = t
        /\ new.target = target /\ new.start = main /\ new.sha = sha
        /\ new.deleted = {} /\ new.errors = {}
    BY DEF Fields, Idle
  <2> HIDE DEF new
  <2>5. World /\ main' = main /\ main \in Nat \ {0}
    BY <1>1, Quiet DEF github, IInv
  <2>7. Known(c)'
    BY <2>1, <2>2, <2>3, <2>4, <2>5 DEF Known, ShaKnown, Open, Ends
  <2> QED BY <1>1, <2>1, <2>5, <2>7, OneCall DEF github
<1> QED BY <1>2, <1>3 DEF create_release_tag

LEMMA ResolveKeeps ==
  ASSUME IInv, NEW c \in Calls, ResolveMain(c)
  PROVE  IInv'
PROOF
<1> DEFINE q == call[c]
<1>1. q.at = "resolving" /\ UNCHANGED <<fresh, objects, terminating, operation, github>>
  BY DEF ResolveMain, cluster
<1>2. CASE Fails(c, "create_release_tag")
  BY <1>1, <1>2, FailsKnown DEF Open, github
<1>3. CASE Becomes(c, [q EXCEPT !.sha = main, !.at = "tagging"])
  <2> DEFINE new == [q EXCEPT !.sha = main, !.at = "tagging"]
  <2>1. call' = [call EXCEPT ![c] = new] /\ call'[c] = new
    BY <1>3 DEF Becomes, IInv
  <2>2. World /\ main' = main /\ main \in Nat \ {0}
    BY <1>1, Quiet DEF github, IInv
  <2>3. /\ q = [f \in Fields |-> q[f]] /\ q.tool = "create_release_tag" /\ q.tag \in Tags
        /\ q.target = None /\ q.start \in 1..main /\ q.deleted \cap q.errors = {}
        /\ \A n \in q.deleted : Stopped(n)
    BY <1>1 DEF IInv, Known
  <2> HIDE DEF q
  <2>4. /\ new = [f \in Fields |-> new[f]] /\ new.at = "tagging" /\ new.tool = q.tool
        /\ new.tag = q.tag /\ new.target = q.target /\ new.start = q.start /\ new.sha = main
        /\ new.deleted = q.deleted /\ new.errors = q.errors
    BY <2>3 DEF Fields
  <2> HIDE DEF new
  <2>7. Known(c)'
    BY <2>1, <2>2, <2>3, <2>4 DEF Known, ShaKnown, World, Open, Ends
  <2> QED BY <1>1, <2>1, <2>2, <2>7, OneCall DEF github
<1> QED BY <1>2, <1>3 DEF ResolveMain

\* GitHub does not move a tag, and the call's tag is on the commit it has found.
LEMMA PostTagKeeps ==
  ASSUME IInv, NEW c \in Calls, PostTag(c)
  PROVE  IInv'
PROOF
<1> DEFINE q == call[c]  t == q.tag  tool == "create_release_tag"
<1>1. q.at = "tagging" /\ UNCHANGED <<fresh, objects, terminating, operation, main, runs>>
  BY DEF PostTag, cluster
<1>2. CASE (Refuses(c, tool) \/ Fails(c, tool)) /\ UNCHANGED tags
  BY <1>1, <1>2, FailsKnown DEF Open, github
<1>3. ASSUME tags[t] = 0, Done(c, tool), tags' = [tags EXCEPT ![t] = q.sha] PROVE IInv'
  <2>1. PICK how \in Ends : call' = [call EXCEPT ![c] = [q EXCEPT !.tool = tool, !.at = how]]
    BY <1>3 DEF Done, Becomes, Ends
  <2> DEFINE new == [q EXCEPT !.tool = tool, !.at = how]
  <2>2. call' = [call EXCEPT ![c] = new] /\ call'[c] = new
    BY <2>1 DEF IInv
  <2>3. /\ q = [f \in Fields |-> q[f]] /\ ShaKnown(q) /\ q.deleted \cap q.errors = {}
        /\ \A n \in q.deleted : Stopped(n)
    BY <1>1 DEF IInv, Known
  <2>4. /\ tags' = [x \in Tags |-> tags'[x]] /\ tags'[t] = q.sha
        /\ \A x \in Tags : tags[x] # 0 => tags'[x] = tags[x]
    BY <1>3, <2>3 DEF IInv, ShaKnown
  <2>5. World
    <3>1. PodsKnown' /\ \A n : Stopped(n) => Stopped(n)'
      BY <1>1, SamePods
    <3> QED BY <1>1, <2>4, <3>1 DEF World, IInv
  <2> HIDE DEF q
  <2>7. /\ new = [f \in Fields |-> new[f]] /\ new.at = how /\ new.tool = tool
        /\ new.tag = q.tag /\ new.target = q.target /\ new.start = q.start /\ new.sha = q.sha
        /\ new.deleted = q.deleted /\ new.errors = q.errors
    BY <2>3 DEF Fields
  <2> HIDE DEF new
  <2>8. Known(c)'
    BY <1>1, <2>2, <2>3, <2>4, <2>5, <2>7 DEF Known, ShaKnown, World, Open, Ends
  <2> QED BY <1>1, <2>2, <2>5, <2>8, OneCall
<1> QED BY <1>2, <1>3 DEF PostTag

LEMMA SyncKeeps ==
  ASSUME IInv, NEW c \in Calls, force_argocd_sync(c)
  PROVE  IInv'
PROOF
<1> DEFINE q == call[c]  tool == "force_argocd_sync"
<1>1. q.at = "idle" /\ UNCHANGED <<fresh, objects, terminating, github>>
  BY DEF force_argocd_sync
<1>2. CASE (Refuses(c, tool) \/ Fails(c, tool)) /\ UNCHANGED operation
  BY <1>1, <1>2, FailsKnown DEF Open, github
<1>3. ASSUME Done(c, tool), operation' = c PROVE IInv'
  <2>1. PICK how \in Ends : call' = [call EXCEPT ![c] = [q EXCEPT !.tool = tool, !.at = how]]
    BY <1>3 DEF Done, Becomes, Ends
  <2> DEFINE new == [q EXCEPT !.tool = tool, !.at = how]
  <2>2. call' = [call EXCEPT ![c] = new] /\ call'[c] = new
    BY <2>1 DEF IInv
  <2>3. q = Idle
    BY <1>1 DEF IInv, Known
  <2>4. World
    BY <1>1, Quiet DEF github
  <2> HIDE DEF q
  <2>5. /\ new = [f \in Fields |-> new[f]] /\ new.at = how /\ new.tool = tool
        /\ new.deleted = {} /\ new.errors = {}
    BY <2>3 DEF Fields, Idle
  <2> HIDE DEF new
  <2>6. Known(c)'
    BY <2>2, <2>5 DEF Known, Open, Ends
  <2> QED BY <1>1, <1>3, <2>2, <2>4, <2>6, OneCall DEF github
<1> QED BY <1>2, <1>3 DEF force_argocd_sync

LEMMA RestartKeeps ==
  ASSUME IInv, NEW c \in Calls, restart_pods(c)
  PROVE  IInv'
PROOF
<1> DEFINE q == call[c]  tool == "restart_pods"
<1>1. q.at = "idle" /\ UNCHANGED <<fresh, objects, terminating, operation, github>>
  BY DEF restart_pods, cluster
<1>2. CASE Refuses(c, tool) \/ Fails(c, tool)
  BY <1>1, <1>2, FailsKnown DEF Open, github
<1>3. ASSUME NEW names,
             Becomes(c, [Idle EXCEPT !.tool = tool, !.listed = names, !.left = names,
                           !.at = IF names = {} THEN "ok" ELSE "deleting"])
      PROVE  IInv'
  <2> DEFINE at  == IF names = {} THEN "ok" ELSE "deleting"
             new == [Idle EXCEPT !.tool = tool, !.listed = names, !.left = names, !.at = at]
  <2>1. call' = [call EXCEPT ![c] = new] /\ call'[c] = new
    BY <1>3 DEF Becomes, IInv
  <2>2. at \in {"ok", "deleting"} /\ (at = "ok" => names = {})
    OBVIOUS
  <2> HIDE DEF at
  <2>3. /\ new = [f \in Fields |-> new[f]] /\ new.at = at /\ new.tool = tool
        /\ new.listed = names /\ new.left = names /\ new.deleted = {} /\ new.errors = {}
    BY DEF Fields, Idle
  <2> HIDE DEF new
  <2>4. World
    BY <1>1, Quiet DEF github
  <2>6. Known(c)'
    BY <2>1, <2>2, <2>3 DEF Known, Accounted, Open, Ends
  <2> QED BY <1>1, <2>1, <2>4, <2>6, OneCall DEF github
<1> QED BY <1>2, <1>3 DEF restart_pods

\* One pod more is accounted for.
LEMMA ReportedKnown ==
  ASSUME IInv, World, NEW c \in Calls, call[c].at = "deleting", NEW n \in call[c].left,
         NEW where \in {"deleted", "errors"}, Reported(c, n, where),
         where = "deleted" => Stopped(n)'
  PROVE  IInv'
PROOF
<1> DEFINE q == call[c]  left == q.left \ {n}
           at   == IF left = {} THEN "ok" ELSE "deleting"
           next == [q EXCEPT !.left = left, !.at = at]
           del  == [next EXCEPT !.deleted = @ \cup {n}]
           err  == [next EXCEPT !.errors = @ \cup {n}]
           new  == IF where = "deleted" THEN del ELSE err
<1>1. call' = [call EXCEPT ![c] = new] /\ call'[c] = new
  BY DEF Reported, Becomes, IInv
<1>2. /\ q = [f \in Fields |-> q[f]] /\ q.tool = "restart_pods" /\ Accounted(q)
      /\ q.deleted \cap q.errors = {} /\ n \in q.left /\ \A m \in q.deleted : Stopped(m)
  BY DEF IInv, Known
<1>4. left = q.left \ {n} /\ at \in {"ok", "deleting"} /\ (at = "ok" => left = {})
  OBVIOUS
<1> HIDE DEF q, left, at
<1>5. /\ next = [f \in Fields |-> next[f]] /\ next.left = left /\ next.at = at
      /\ next.tool = q.tool /\ next.listed = q.listed
      /\ next.deleted = q.deleted /\ next.errors = q.errors
  BY <1>2 DEF Fields
<1> HIDE DEF next
<1>6. /\ del = [f \in Fields |-> del[f]] /\ del.left = left /\ del.at = at
      /\ del.tool = q.tool /\ del.listed = q.listed
      /\ del.deleted = q.deleted \cup {n} /\ del.errors = q.errors
  BY <1>5 DEF Fields
<1>7. /\ err = [f \in Fields |-> err[f]] /\ err.left = left /\ err.at = at
      /\ err.tool = q.tool /\ err.listed = q.listed
      /\ err.deleted = q.deleted /\ err.errors = q.errors \cup {n}
  BY <1>5 DEF Fields
<1> HIDE DEF del, err
<1>8. /\ new = [f \in Fields |-> new[f]] /\ new.left = left /\ new.at = at
      /\ new.tool = "restart_pods" /\ new.listed = q.listed
      /\ \/ where = "deleted" /\ new.deleted = q.deleted \cup {n} /\ new.errors = q.errors
         \/ new.deleted = q.deleted /\ new.errors = q.errors \cup {n}
  BY <1>2, <1>6, <1>7
<1> HIDE DEF new
<1>9. /\ new.deleted \cup new.errors \cup left = new.listed
      /\ left \cap (new.deleted \cup new.errors) = {}
      /\ new.deleted \cap new.errors = {}
  BY <1>2, <1>4, <1>8 DEF Accounted
<1>10. \A m \in new.deleted : Stopped(m)'
  BY <1>2, <1>8 DEF World
<1>11. Known(c)'
  BY <1>1, <1>4, <1>8, <1>9, <1>10 DEF Known, Accounted, Open, Ends
<1> QED BY <1>1, <1>11, OneCall

LEMMA DeleteKeeps ==
  ASSUME IInv, NEW c \in Calls, NEW n \in PodNames, DeletePod(c, n)
  PROVE  IInv'
PROOF
<1> DEFINE q == call[c]
<1>1. /\ q.at = "deleting" /\ n \in q.left
      /\ UNCHANGED <<fresh, objects, operation, main, tags, runs>>
  BY DEF DeletePod, github, IInv, Known, Open
<1>2. terminating' = terminating \/ (Pod(n) \in objects /\ terminating' = terminating \cup {Pod(n)})
  BY DEF DeletePod
<1>3. World
  <2>1. PodsKnown' /\ \A m : Stopped(m) => Stopped(m)'
    BY <1>1, <1>2 DEF IInv, PodsKnown, Stopped, Running, Pods
  <2> QED BY <1>1, <2>1 DEF World, IInv
<1>4. CASE End(c, "raised")
  <2> DEFINE new == [q EXCEPT !.at = "raised"]
  <2>1. call' = [call EXCEPT ![c] = new] /\ call'[c] = new
    BY <1>4 DEF End, Becomes, IInv
  <2>2. /\ q = [f \in Fields |-> q[f]] /\ q.tool = "restart_pods"
        /\ q.deleted \cap q.errors = {} /\ \A m \in q.deleted : Stopped(m)
    BY <1>1 DEF IInv, Known
  <2> HIDE DEF q
  <2>3. /\ new = [f \in Fields |-> new[f]] /\ new.at = "raised" /\ new.tool = q.tool
        /\ new.deleted = q.deleted /\ new.errors = q.errors
    BY <2>2 DEF Fields
  <2> HIDE DEF new
  <2>4. Known(c)'
    BY <1>1, <1>3, <2>1, <2>2, <2>3 DEF Known, World, Open, Ends
  <2> QED BY <1>1, <1>3, <2>1, <2>4, OneCall
<1>5. CASE Reported(c, n, "errors")
  BY <1>1, <1>3, <1>5, ReportedKnown
<1>6. CASE Pod(n) \in objects /\ terminating' = terminating \cup {Pod(n)} /\ Reported(c, n, "deleted")
  <2>1. Stopped(n)'
    BY <1>1, <1>6 DEF Stopped, Running, Pods, IInv, PodsKnown
  <2> QED BY <1>1, <1>3, <1>6, <2>1, ReportedKnown
<1> QED BY <1>4, <1>5, <1>6 DEF DeletePod
-----------------------------------------------------------------------------
(***************************************************************************)
(* The others, and the invariant.                                          *)
(***************************************************************************)
LEMMA OthersKeep ==
  ASSUME IInv, Others
  PROVE  IInv'
PROOF
<1>1. call' = call /\ runs' = runs /\ operation' \in {operation, None}
  BY DEF Others, Merge, SyncStarts, TagByHand, PodGone, PodCreated, cluster, github
<1>2. CASE Merge \/ SyncStarts \/ \E t \in Tags : TagByHand(t)
  <2>1. UNCHANGED <<fresh, objects, terminating>>
    BY <1>2 DEF Merge, SyncStarts, TagByHand, cluster
  <2>2. /\ main' \in Nat \ {0} /\ main <= main' /\ tags' = [t \in Tags |-> tags'[t]]
        /\ \A t \in Tags : tags[t] # 0 => tags'[t] = tags[t]
    BY <1>2 DEF IInv, Merge, SyncStarts, TagByHand, github
  <2>3. World
    BY <2>1, <2>2, SamePods DEF World
  <2> QED BY <1>1, <2>3, NoCall
<1>3. ASSUME NEW n \in PodNames, PodGone(Pod(n)) PROVE IInv'
  <2>1. /\ objects' = objects \ {Pod(n)} /\ terminating' = terminating \ {Pod(n)}
        /\ fresh' = fresh /\ UNCHANGED <<main, tags>>
    BY <1>3 DEF PodGone, github
  <2>2. PodsKnown' /\ \A m : Stopped(m) => Stopped(m)'
    BY <2>1 DEF IInv, PodsKnown, Stopped, Running, Pods
  <2>3. World
    BY <2>1, <2>2 DEF World, IInv
  <2> QED BY <1>1, <2>3, NoCall
<1>4. ASSUME NEW n \in PodNames, PodCreated(n) PROVE IInv'
  <2>1. /\ objects' = objects \cup {Pod(n)} /\ fresh' = fresh \ {n} /\ n \in fresh
        /\ UNCHANGED <<main, tags, terminating>>
    BY <1>4 DEF PodCreated, github
  <2>2. \A m : m # n => Pod(m) # Pod(n)
    BY DEF Pod
  <2>3. PodsKnown' /\ \A m : Stopped(m) => Stopped(m)'
    BY <2>1, <2>2 DEF IInv, PodsKnown, Stopped, Running, Pods
  <2>4. World
    BY <2>1, <2>3 DEF World, IInv
  <2> QED BY <1>1, <2>4, NoCall
<1> QED BY <1>2, <1>3, <1>4 DEF Others

LEMMA InitKnown == Init => IInv
PROOF
<1> SUFFICES ASSUME Init PROVE IInv
  OBVIOUS
<1>1. \A n : n \notin FirstPods => Pod(n) \notin objects
  <2>1. \A n, m : Pod(n) = Pod(m) => n = m
    BY DEF Pod
  <2>2. \A n : Pod(n) \notin Fixtures
    BY ToolsAssumption DEF Pod
  <2> QED BY <2>1, <2>2 DEF Init
<1>2. PodsKnown
  BY <1>1 DEF Init, PodsKnown
<1>3. ASSUME NEW c \in Calls PROVE Known(c)
  <2>1. call[c] = Idle /\ c # None /\ runs = {} /\ operation = None
    BY ToolsAssumption DEF Init
  <2>2. /\ Idle = [f \in Fields |-> Idle[f]] /\ Idle.at = "idle" /\ Idle.tool = "none"
        /\ Idle.deleted = {} /\ Idle.errors = {}
    BY DEF Idle, Fields
  <2> QED BY <2>1, <2>2 DEF Known, Open
<1> QED BY <1>2, <1>3 DEF Init, IInv

LEMMA StepKnown == IInv /\ [Next]_vars => IInv'
PROOF
<1> SUFFICES ASSUME IInv, [Next]_vars PROVE IInv'
  OBVIOUS
<1>1. ASSUME NEW c \in Calls, Tool(c) PROVE IInv'
  BY <1>1, DispatchKeeps, CreateKeeps, ResolveKeeps, PostTagKeeps, SyncKeeps, RestartKeeps,
     DeleteKeeps DEF Tool
<1>2. CASE Others
  BY <1>2, OthersKeep
<1>3. CASE UNCHANGED vars
  BY <1>3, Quiet, NoCall DEF vars, cluster, github
<1> QED BY <1>1, <1>2, <1>3 DEF Next

LEMMA Invariance == Spec => []IInv
BY InitKnown, StepKnown, PTL DEF Spec
-----------------------------------------------------------------------------
(***************************************************************************)
(* Theorems.                                                               *)
(***************************************************************************)
\* restart_pods accounts for each pod it has listed, and none that it reports
\* as deleted is running, however many calls, evictions and new pods interfere.
THEOREM Restarts == Spec => []RestartAccounts
PROOF
<1>1. IInv => RestartAccounts
  BY DEF IInv, Known, Stopped, RestartAccounts
<1> QED BY <1>1, Invariance, PTL

\* A tag that create_release_tag reports stays where it was reported to be,
\* although main moves and others create tags.
THEOREM TagsAsReported == Spec => []TagIsAsReported
PROOF
<1>1. IInv => TagIsAsReported
  BY DEF IInv, Known, ShaKnown, TagIsAsReported
<1> QED BY <1>1, Invariance, PTL
-----------------------------------------------------------------------------
(***************************************************************************)
(* The read tools are functions of the state: what is shown of them holds  *)
(* in all states, not just in those that can be reached.                   *)
(***************************************************************************)
\* Where and what an item is, is what its object is.
Placed(items, os) == {<<i.namespace, i.name>> : i \in items} = {<<o.namespace, o.name>> : o \in os}

LEMMA TrimPlaces ==
  ASSUME NEW os
  PROVE  /\ Placed({trim(o) : o \in os}, os)
         /\ Placed({_trim_custom(o) : o \in os}, os)
PROOF
<1>1. /\ \A o : trim(o).name = o.name /\ trim(o).namespace = o.namespace
      /\ \A o : _trim_custom(o).name = o.name /\ _trim_custom(o).namespace = o.namespace
  BY DEF trim, _trim_custom, Item
<1>2. {<<i.namespace, i.name>> : i \in {trim(o) : o \in os}} = {<<o.namespace, o.name>> : o \in os}
  BY <1>1
<1>3. {<<i.namespace, i.name>> : i \in {_trim_custom(o) : o \in os}} = {<<o.namespace, o.name>> : o \in os}
  BY <1>1
<1> QED BY <1>2, <1>3 DEF Placed

\* A read or a list of one kind finds what is meant, if it is allowed.
Finds(found, kind, namespace, name, label_selector) ==
  LET meant == {o \in objects :
                  /\ o.kind = kind /\ o.namespace = namespace
                  /\ IF name # None THEN o.name = name
                     ELSE label_selector = None \/ o.app = label_selector}
  IN IF kind \notin rights.read \/ namespace = None \/ (name # None /\ meant = {})
     THEN found = Failed
     ELSE found = Found(meant)

LEMMA ReadOrListFinds ==
  ASSUME NEW kind, NEW namespace, NEW name, NEW label_selector
  PROVE  Finds(ReadOrList(kind, namespace, name, label_selector), kind, namespace, name, label_selector)
PROOF
<1>1. CASE name # None
  BY <1>1 DEF Finds, ReadOrList, Read
<1>2. CASE name = None
  <2>1. {o \in Selected(kind, label_selector) : o.namespace = namespace}
          = {o \in objects :
               /\ o.kind = kind /\ o.namespace = namespace
               /\ IF name # None THEN o.name = name
                  ELSE label_selector = None \/ o.app = label_selector}
    BY <1>2 DEF Selected
  <2> QED BY <1>2, <2>1 DEF Finds, ReadOrList, List
<1> QED BY <1>1, <1>2

LEMMA FetchFinds ==
  ASSUME NEW resource \in Native \cup Custom, NEW namespace \in Namespaces \cup {None},
         NEW name \in Names \cup {None}, NEW label_selector \in Selectors \cup {None}
  PROVE  LET got   == _fetch(resource, namespace, name, label_selector)
             meant == Meant(resource, namespace, name, label_selector)
         IN IF got.ok THEN Placed(got.items, meant)
            ELSE \/ resource \notin rights.read
                 \/ name # None /\ meant = {}
                 \/ namespace = None /\ resource # "applications"
PROOF
<1> DEFINE place == IF resource = "applications" /\ namespace = None THEN "argocd" ELSE namespace
           found == ReadOrList(resource, place, name, label_selector)
           meant == Meant(resource, namespace, name, label_selector)
           got   == _fetch(resource, namespace, name, label_selector)
<1>1. IF resource \notin rights.read \/ place = None \/ (name # None /\ meant = {})
      THEN found = Failed
      ELSE found = Found(meant)
  <2>1. meant = {o \in objects :
                    /\ o.kind = resource /\ o.namespace = place
                    /\ IF name # None THEN o.name = name
                       ELSE label_selector = None \/ o.app = label_selector}
    BY Zenon DEF Meant
  <2>2. Finds(found, resource, place, name, label_selector)
    BY ReadOrListFinds
  <2> HIDE DEF place, found, meant
  <2> QED BY <2>1, <2>2 DEF Finds
<1>2. place = None => namespace = None /\ resource # "applications"
  BY ToolsAssumption
<1>3. got = [found EXCEPT !.items = {trim(o) : o \in @}]
      \/ got = [found EXCEPT !.items = {_trim_custom(o) : o \in @}]
  BY DEF _fetch, _list_custom, Trimmed, Native, Custom
<1> HIDE DEF place, found, meant, got
<1>4. CASE found = Failed
  <2>1. ~got.ok
    BY <1>3, <1>4 DEF Failed
  <2> QED BY <1>1, <1>2, <1>4, <2>1 DEF got, meant, Failed, Found
<1>5. CASE found = Found(meant)
  <2>1. got.ok /\ (got.items = {trim(o) : o \in meant} \/ got.items = {_trim_custom(o) : o \in meant})
    BY <1>3, <1>5 DEF Found
  <2>2. Placed(got.items, meant)
    BY <2>1, TrimPlaces
  <2> QED BY <2>1, <2>2 DEF got, meant
<1> QED BY <1>1, <1>4, <1>5

\* kubectl_get returns exactly what its arguments mean, or an error for one of
\* the three reasons there are, whatever the cluster holds.
THEOREM GetExact == Spec => []GetIsExact
PROOF
<1>1. GetIsExact
  BY FetchFinds DEF GetIsExact, Placed
<1> QED BY <1>1, PTL
-----------------------------------------------------------------------------
(***************************************************************************)
(* The pods and the lines they write.                                      *)
(***************************************************************************)
\* The pods of the workload that are not terminating, by name.
Alive == {n \in PodNames : Pod(n) \in Running}

\* What a step may do to the pods.
PodStart(n) ==
  /\ n \in fresh /\ fresh' = fresh \ {n}
  /\ objects' = objects \cup {Pod(n)} /\ terminating' = terminating /\ Writes(n)

PodStop(n) ==
  /\ Pod(n) \in Running /\ terminating' = terminating \cup {Pod(n)}
  /\ UNCHANGED <<fresh, objects>> /\ Writes(n)

PodEnd(n) ==
  /\ Pod(n) \in terminating
  /\ objects' = objects \ {Pod(n)} /\ terminating' = terminating \ {Pod(n)}
  /\ UNCHANGED <<fresh, log>>

PodChange == \E n \in PodNames : PodStart(n) \/ PodStop(n) \/ PodEnd(n)

LEMMA PodSteps ==
  ASSUME [Next]_vars
  PROVE  PodChange \/ UNCHANGED <<fresh, log, objects, terminating>>
PROOF
<1>1. ASSUME NEW c \in Calls, NEW n \in PodNames, DeletePod(c, n)
      PROVE  PodStop(n) \/ UNCHANGED <<fresh, log, objects, terminating>>
  <2>1. UNCHANGED <<fresh, objects>>
    BY <1>1 DEF DeletePod
  <2>2. CASE UNCHANGED <<terminating, log>>
    BY <2>1, <2>2
  <2>3. CASE /\ Pod(n) \in objects /\ terminating' = terminating \cup {Pod(n)}
             /\ IF Pod(n) \in terminating THEN UNCHANGED log ELSE Writes(n)
    BY <2>1, <2>3 DEF PodStop, Running, Pods, Pod
  <2> QED BY <1>1, <2>2, <2>3 DEF DeletePod
<1>2. ASSUME NEW c \in Calls, Tool(c)
      PROVE  PodChange \/ UNCHANGED <<fresh, log, objects, terminating>>
  BY <1>1, <1>2
     DEF Tool, PodChange, trigger_workflow_dispatch, create_release_tag, ResolveMain, PostTag,
         force_argocd_sync, restart_pods, cluster
<1>3. CASE Others
  BY <1>3
     DEF Others, Merge, SyncStarts, TagByHand, PodGone, PodCreated, PodChange, PodStart, PodEnd, cluster
<1>4. CASE UNCHANGED vars
  BY <1>4 DEF vars, cluster
<1> QED BY <1>2, <1>3, <1>4 DEF Next

\* The lines have the times 1 to Cardinality(log), each once.
LogInv ==
  /\ IsFiniteSet(log)
  /\ \A l \in log : l.time \in 1..Cardinality(log) /\ l.stream \in PodNames
                    /\ l = [stream |-> l.stream, time |-> l.time]
  /\ \A l, k \in log : l.time = k.time => l = k
  /\ \A t \in 1..Cardinality(log) : \E l \in log : l.time = t

\* A pod writes twice at most: when it starts and when it is told to stop.
LinesLeft == Cardinality(log) + 2 * Cardinality(fresh) + Cardinality(Alive) <= 2 * Cardinality(PodNames)

\* What the pods are.
PodsInv ==
  /\ fresh \subseteq PodNames
  /\ Fixtures \subseteq objects /\ objects \ Fixtures \subseteq {Pod(n) : n \in PodNames \ fresh}
  /\ terminating \subseteq Pods

LEMMA PodFacts ==
  /\ \A n, m : Pod(n) = Pod(m) => n = m
  /\ \A n : Pod(n) \notin Fixtures /\ Pod(n).kind = "pods" /\ Pod(n).name = n
BY ToolsAssumption DEF Pod

\* One line more.
LEMMA WritesKeeps ==
  ASSUME LogInv, NEW n \in PodNames, Writes(n)
  PROVE  LogInv' /\ Cardinality(log') = Cardinality(log) + 1
PROOF
<1> DEFINE N == Cardinality(log)  new == [stream |-> n, time |-> N + 1]
<1>1. IsFiniteSet(log) /\ N \in Nat
  BY FS_CardinalityType DEF LogInv
<1>2. log' = log \cup {new}
  BY DEF Writes, Now
<1>3. new \notin log
  BY <1>1 DEF LogInv
<1>4. IsFiniteSet(log') /\ Cardinality(log') = N + 1
  <2> HIDE DEF new, N
  <2> QED BY <1>1, <1>2, <1>3, FS_AddElement DEF N
<1>5. new.time = N + 1 /\ new.stream = n /\ new = [stream |-> new.stream, time |-> new.time]
  OBVIOUS
<1> HIDE DEF new
<1>6. /\ \A l \in log : l.time \in 1..N /\ l.stream \in PodNames
                        /\ l = [stream |-> l.stream, time |-> l.time]
      /\ \A l, k \in log : l.time = k.time => l = k
      /\ \A t \in 1..N : \E l \in log : l.time = t
  BY DEF LogInv
<1> HIDE DEF N
<1>7. \A l \in log' : l.time \in 1..N+1 /\ l.stream \in PodNames
                      /\ l = [stream |-> l.stream, time |-> l.time]
  BY <1>1, <1>2, <1>5, <1>6
<1>8. \A l, k \in log' : l.time = k.time => l = k
  BY <1>1, <1>2, <1>5, <1>6
<1>9. \A t \in 1..N+1 : \E l \in log' : l.time = t
  <2> SUFFICES ASSUME NEW t \in 1..N+1 PROVE \E l \in log' : l.time = t
    OBVIOUS
  <2>1. CASE t \in 1..N
    BY <1>2, <1>6, <2>1
  <2>2. CASE t = N + 1
    BY <1>2, <1>5, <2>2
  <2> QED BY <1>1, <2>1, <2>2
<1>10. LogInv'
  BY <1>4, <1>7, <1>8, <1>9 DEF LogInv
<1> QED BY <1>4, <1>10 DEF N

LEMMA LogKeeps == ASSUME LogInv, [Next]_vars PROVE LogInv'
PROOF
<1>1. CASE UNCHANGED log
  BY <1>1 DEF LogInv
<1>2. CASE \E n \in PodNames : Writes(n)
  BY <1>2, WritesKeeps
<1> QED BY <1>1, <1>2, PodSteps DEF PodChange, PodStart, PodStop, PodEnd
LEMMA PodsKeep == ASSUME IInv, PodsInv, [Next]_vars PROVE PodsInv'
PROOF
<1>1. CASE UNCHANGED <<fresh, log, objects, terminating>>
  BY <1>1 DEF PodsInv, Pods
<1>2. ASSUME NEW n \in PodNames, PodStart(n) PROVE PodsInv'
  <2>1. /\ fresh' \subseteq PodNames /\ Fixtures \subseteq objects'
    BY <1>2 DEF PodsInv, PodStart
  <2>2. objects' \ Fixtures \subseteq {Pod(m) : m \in PodNames \ fresh'}
    BY <1>2 DEF PodsInv, PodStart
  <2>3. terminating' \subseteq Pods'
    BY <1>2 DEF PodsInv, PodStart, Pods
  <2> QED BY <2>1, <2>2, <2>3 DEF PodsInv
<1>3. ASSUME NEW n \in PodNames, PodStop(n) PROVE PodsInv'
  BY <1>3 DEF PodsInv, PodStop, Pods, Running
<1>4. ASSUME NEW n \in PodNames, PodEnd(n) PROVE PodsInv'
  <2>1. /\ fresh' \subseteq PodNames /\ Fixtures \subseteq objects'
    BY <1>4, PodFacts DEF PodsInv, PodEnd
  <2>2. objects' \ Fixtures \subseteq {Pod(m) : m \in PodNames \ fresh'}
    BY <1>4 DEF PodsInv, PodEnd
  <2>3. terminating' \subseteq Pods'
    BY <1>4 DEF PodsInv, PodEnd, Pods
  <2> QED BY <2>1, <2>2, <2>3 DEF PodsInv
<1> QED BY <1>1, <1>2, <1>3, <1>4, PodSteps DEF PodChange

\* The names of any of the pods can be counted.
LEMMA NamesFinite ==
  ASSUME NEW S \in SUBSET PodNames
  PROVE  IsFiniteSet(S) /\ Cardinality(S) \in Nat
BY ToolsAssumption, FS_Subset, FS_CardinalityType

LEMMA LinesKeep ==
  ASSUME IInv, PodsInv, PodsInv', LogInv, LinesLeft, [Next]_vars
  PROVE  LinesLeft'
PROOF
<1> DEFINE total == Cardinality(PodNames)  lines == Cardinality(log)
           unused == Cardinality(fresh)  alive == Cardinality(Alive)
<1>1. Alive \subseteq PodNames /\ Alive' \subseteq PodNames /\ fresh \subseteq PodNames
      /\ fresh' \subseteq PodNames
  BY DEF Alive, PodsInv
<1>2. /\ IsFiniteSet(Alive) /\ IsFiniteSet(Alive') /\ IsFiniteSet(fresh)
      /\ alive \in Nat /\ Cardinality(Alive') \in Nat /\ unused \in Nat /\ Cardinality(fresh') \in Nat
      /\ total \in Nat
  BY <1>1, NamesFinite
<1>3. lines \in Nat /\ lines + 2 * unused + alive <= 2 * total
  BY FS_CardinalityType DEF LogInv, LinesLeft
<1> HIDE DEF total, lines, unused, alive
<1>4. CASE UNCHANGED <<fresh, log, objects, terminating>>
  BY <1>4 DEF LinesLeft, Alive, Running, Pods
<1>5. ASSUME NEW n \in PodNames, PodStart(n) PROVE LinesLeft'
  <2>1. Cardinality(log') = lines + 1
    BY <1>5, WritesKeeps DEF PodStart, lines
  <2>2. Cardinality(fresh') = unused - 1
    <3>1. fresh' = fresh \ {n} /\ n \in fresh
      BY <1>5 DEF PodStart
    <3> QED BY <1>2, <3>1, FS_RemoveElement DEF unused
  <2>3. Alive' \subseteq Alive \cup {n}
    BY <1>5, PodFacts DEF PodStart, Alive, Running, Pods
  <2>4. IsFiniteSet(Alive \cup {n}) /\ Cardinality(Alive \cup {n}) <= alive + 1
    <3>1. /\ IsFiniteSet(Alive \cup {n})
          /\ Cardinality(Alive \cup {n}) = IF n \in Alive THEN alive ELSE alive + 1
      BY <1>2, FS_AddElement DEF alive
    <3> QED BY <1>2, <3>1
  <2>5. Cardinality(Alive') <= alive + 1
    <3>1. Cardinality(Alive') <= Cardinality(Alive \cup {n}) /\ Cardinality(Alive \cup {n}) \in Nat
      BY <2>3, <2>4, FS_Subset, FS_CardinalityType
    <3> QED BY <1>2, <2>4, <3>1
  <2>6. (lines + 1) + 2 * (unused - 1) + Cardinality(Alive') <= 2 * total
    BY ONLY <1>2, <1>3, <2>5
  <2> QED BY <2>1, <2>2, <2>6 DEF LinesLeft, total
<1>6. ASSUME NEW n \in PodNames, PodStop(n) PROVE LinesLeft'
  <2>1. Cardinality(log') = lines + 1
    BY <1>6, WritesKeeps DEF PodStop, lines
  <2>2. Alive' = Alive \ {n} /\ n \in Alive
    BY <1>6, PodFacts DEF PodStop, Alive, Running, Pods
  <2>3. Cardinality(Alive') = alive - 1
    BY <1>2, <2>2, FS_RemoveElement DEF alive
  <2>4. Cardinality(fresh') = unused
    BY <1>6 DEF PodStop, unused
  <2>5. (lines + 1) + 2 * unused + (alive - 1) <= 2 * total
    BY ONLY <1>2, <1>3
  <2> QED BY <2>1, <2>3, <2>4, <2>5 DEF LinesLeft, total
<1>7. ASSUME NEW n \in PodNames, PodEnd(n) PROVE LinesLeft'
  <2>1. Alive' \subseteq Alive
    BY <1>7 DEF PodEnd, Alive, Running, Pods
  <2>2. Cardinality(Alive') <= alive
    BY <1>2, <2>1, FS_Subset DEF alive
  <2>3. lines + 2 * unused + Cardinality(Alive') <= 2 * total
    BY ONLY <1>2, <1>3, <2>2
  <2> QED BY <1>7, <2>3 DEF LinesLeft, PodEnd, lines, unused, total
<1> QED BY <1>4, <1>5, <1>6, <1>7, PodSteps DEF PodChange

LEMMA PodsInit == Init => PodsInv /\ LogInv /\ LinesLeft
PROOF
<1> SUFFICES ASSUME Init PROVE PodsInv /\ LogInv /\ LinesLeft
  OBVIOUS
<1>1. PodsInv
  BY ToolsAssumption DEF Init, PodsInv
<1>2. LogInv
  BY FS_EmptySet DEF Init, LogInv
<1>3. LinesLeft
  <2>1. Alive \subseteq FirstPods /\ fresh = PodNames \ FirstPods /\ log = {}
    BY PodFacts DEF Init, Alive, Running, Pods
  <2>2. /\ IsFiniteSet(PodNames) /\ FirstPods \subseteq PodNames
        /\ PodNames \cap FirstPods = FirstPods
    BY ToolsAssumption
  <2>3. IsFiniteSet(FirstPods) /\ Cardinality(FirstPods) \in Nat /\ Cardinality(PodNames) \in Nat
        /\ Cardinality(FirstPods) <= Cardinality(PodNames)
    BY <2>2, NamesFinite, FS_Subset
  <2>4. Cardinality(fresh) = Cardinality(PodNames) - Cardinality(FirstPods)
    BY <2>1, <2>2, FS_Difference
  <2>5. Cardinality(Alive) <= Cardinality(FirstPods) /\ Cardinality(Alive) \in Nat
    BY <2>1, <2>2, <2>3, FS_Subset, NamesFinite
  <2>6. Cardinality(log) = 0
    BY <2>1, FS_EmptySet
  <2> QED BY <2>3, <2>4, <2>5, <2>6 DEF LinesLeft
<1> QED BY <1>1, <1>2, <1>3

LEMMA PodsInvariance == Spec => [](PodsInv /\ LogInv /\ LinesLeft)
PROOF
<1>1. /\ IInv /\ IInv' /\ PodsInv /\ LogInv /\ LinesLeft /\ [Next]_vars
      => (PodsInv /\ LogInv /\ LinesLeft)'
  BY PodsKeep, LogKeeps, LinesKeep
<1> QED BY <1>1, PodsInit, Invariance, PTL DEF Spec
-----------------------------------------------------------------------------
(***************************************************************************)
(* loki_query.                                                             *)
(***************************************************************************)
\* The lines since time a.
Since(a) == {l \in log : a <= l.time}

LEMMA LinesSince ==
  ASSUME LogInv, NEW a \in Nat, 1 <= a, a <= Cardinality(log) + 1
  PROVE  IsFiniteSet(Since(a)) /\ Cardinality(Since(a)) = Cardinality(log) + 1 - a
PROOF
<1> DEFINE N == Cardinality(log)  f == [l \in Since(a) |-> l.time]
<1>1. IsFiniteSet(Since(a)) /\ N \in Nat
  BY FS_Subset, FS_CardinalityType DEF LogInv, Since
<1>2. f \in [Since(a) -> a..N]
  BY <1>1 DEF LogInv, Since
<1>3. \A l, k \in Since(a) : f[l] = f[k] => l = k
  BY DEF LogInv, Since
<1>4. \A t \in a..N : \E l \in Since(a) : f[l] = t
  <2> SUFFICES ASSUME NEW t \in a..N PROVE \E l \in Since(a) : f[l] = t
    OBVIOUS
  <2>1. PICK l \in log : l.time = t
    BY <1>1 DEF LogInv
  <2> QED BY <2>1 DEF Since
<1> HIDE DEF f
<1>5. f \in Bijection(Since(a), a..N)
  BY <1>2, <1>3, <1>4 DEF Bijection, Injection, Surjection, IsInjective
<1>6. Cardinality(a..N) = Cardinality(Since(a))
  BY <1>1, <1>5, FS_Bijection DEF ExistsBijection
<1>7. Cardinality(a..N) = N + 1 - a
  <2>1. N \in Int /\ a \in Int /\ a <= N + 1
    BY <1>1
  <2> HIDE DEF N
  <2>2. Cardinality(a..N) = IF a > N THEN 0 ELSE N - a + 1
    BY <2>1, FS_Interval
  <2> QED BY <2>1, <2>2
<1> QED BY <1>1, <1>6, <1>7

\* The order of the streams is one of numbers.
LEMMA PositionIsANumber == ASSUME NEW n \in PodNames PROVE Position(n) \in Nat
PROOF
<1> DEFINE N == Cardinality(PodNames)  s == SetToSeq(PodNames)
<1>1. IsFiniteSet(PodNames) /\ N \in Nat /\ ExistsBijection(1..N, PodNames)
  BY ToolsAssumption, FS_CardinalityType
<1>2. PICK b : b \in [1..N -> PodNames] /\ IsInjective(b)
  BY <1>1 DEF ExistsBijection, Bijection, Injection
<1>3. s \in [1..N -> PodNames] /\ IsInjective(s)
  BY <1>2 DEF SetToSeq
<1>4. IsFiniteSet(1..N) /\ Cardinality(1..N) = N
  BY <1>1, FS_Interval
<1> HIDE DEF s, N
<1>5. s \in Surjection(1..N, PodNames)
  <2>1. s \in Injection(1..N, PodNames)
    BY <1>3 DEF Injection
  <2> QED BY <1>1, <1>4, <2>1, FS_Injection DEF N
<1>6. \E i \in DOMAIN s : s[i] = n
  BY <1>3, <1>5 DEF Surjection
<1>7. Position(n) \in DOMAIN s
  BY <1>6 DEF Position, s
<1> QED BY <1>1, <1>3, <1>7

LEMMA LokiIsRight == ASSUME LogInv PROVE LokiShowsNewest
PROOF
<1> DEFINE N == Cardinality(log)
<1>0. N \in Nat /\ LineCap \in Nat
  BY FS_CardinalityType, ToolsAssumption DEF LogInv
<1> SUFFICES ASSUME NEW hours \in 1..Now
             PROVE  LET all   == Window(hours)
                        shown == loki_query(hours)
                    IN /\ Cardinality(shown) =
                            IF Cardinality(all) < LineCap THEN Cardinality(all) ELSE LineCap
                       /\ \A l \in shown, lost \in all \ shown : l.time >= lost.time
  BY DEF LokiShowsNewest
<1> DEFINE from == IF hours = Now THEN 1 ELSE Now - hours
           all == Window(hours)
           newest == First(Limit, all, Later)
           to == IF N + 1 - from < LineCap THEN from ELSE N + 1 - LineCap
<1>1. from \in 1..N \/ (from = 1 /\ N = 0)
  BY <1>0 DEF Now
<1>2. \A l \in log : l.time \in 1..N
  BY DEF LogInv
<1>3. all = Since(from)
  BY <1>0, <1>2 DEF Window, Since, Now
<1> HIDE DEF from, all
<1>4. from \in Nat /\ 1 <= from /\ from <= N + 1
  BY <1>0, <1>1
<1>5. Cardinality(all) = N + 1 - from
  BY <1>3, <1>4, LinesSince
<1>6. to \in Nat /\ 1 <= to /\ to <= N + 1 /\ from <= to
  BY <1>0, <1>4
<1>7. N + 1 - to = IF Cardinality(all) < LineCap THEN Cardinality(all) ELSE LineCap
  BY <1>0, <1>4, <1>5
<1>8. \A l \in all : Cardinality({m \in all : Later(m, l)}) = N - l.time
  <2> SUFFICES ASSUME NEW l \in all PROVE Cardinality({m \in all : Later(m, l)}) = N - l.time
    OBVIOUS
  <2> DEFINE a == l.time + 1
  <2>1. l \in log /\ from <= l.time /\ l.time \in 1..N
    BY <1>2, <1>3 DEF Since
  <2>2. {m \in all : Later(m, l)} = Since(a)
    BY <1>2, <1>3, <1>4, <2>1 DEF Since, Later
  <2>3. a \in Nat /\ 1 <= a /\ a <= N + 1
    BY <1>0, <2>1
  <2>4. Cardinality(Since(a)) = N + 1 - a
    <3> HIDE DEF a
    <3> QED BY <2>3, LinesSince
  <2>5. N + 1 - a = N - l.time
    BY <1>0, <2>1
  <2> QED BY <2>2, <2>4, <2>5
<1>9. newest = Since(to)
  <2>1. newest = {l \in all : N - l.time < LineCap}
    BY <1>8 DEF First, Limit
  <2>2. ASSUME NEW l \in log PROVE (l \in all /\ N - l.time < LineCap) <=> to <= l.time
    BY <1>0, <1>2, <1>3, <1>4 DEF Since
  <2>3. \A l \in all : l \in log
    BY <1>3 DEF Since
  <2> HIDE DEF newest, to
  <2> QED BY <2>1, <2>2, <2>3 DEF Since
<1> HIDE DEF newest, to
<1>10. IsFiniteSet(newest) /\ Cardinality(newest) = N + 1 - to
  BY <1>6, <1>9, LinesSince
<1>11. Cardinality(newest) <= LineCap /\ Cardinality(newest) \in Nat
  <2>1. N + 1 - from \in Int
    BY <1>0, <1>4
  <2> QED BY <1>0, <1>5, <1>6, <1>7, <1>10, <2>1
<1>12. ASSUME NEW l \in newest
       PROVE  Cardinality({m \in newest : InAnswer(m, l)}) < LineCap
  <2> DEFINE before == {m \in newest : InAnswer(m, l)}
  <2>1. l \in log /\ l.time \in Int /\ l.stream \in PodNames
    BY <1>2, <1>9 DEF Since, LogInv
  <2>2. ~InAnswer(l, l)
    BY <2>1, PositionIsANumber DEF InAnswer, Later
  <2>3. before \subseteq newest \ {l}
    BY <2>2
  <2>4. IsFiniteSet(newest \ {l}) /\ Cardinality(newest \ {l}) = Cardinality(newest) - 1
    BY <1>10, FS_RemoveElement
  <2>5. Cardinality(before) <= Cardinality(newest) - 1 /\ Cardinality(before) \in Nat
    <3> HIDE DEF before
    <3> QED BY <2>3, <2>4, FS_Subset, FS_CardinalityType
  <2> HIDE DEF before
  <2>6. Cardinality(before) < LineCap
    BY ONLY <1>0, <1>11, <2>5
  <2> QED BY <2>6 DEF before
<1>13. loki_query(hours) = newest
  BY <1>12 DEF loki_query, First, newest, all
<1>14. Cardinality(loki_query(hours)) =
         IF Cardinality(all) < LineCap THEN Cardinality(all) ELSE LineCap
  BY <1>7, <1>10, <1>13
<1>15. ASSUME NEW l \in newest, NEW lost \in all \ newest PROVE l.time >= lost.time
  BY <1>0, <1>2, <1>3, <1>6, <1>9 DEF Since
<1> QED BY <1>13, <1>14, <1>15 DEF all

\* loki_query shows the newest lines of its hours, as many as it may show,
\* from whatever streams: for any pods, lines and limit.
THEOREM LokiExact == Spec => []LokiShowsNewest
BY LokiIsRight, PodsInvariance, PTL
-----------------------------------------------------------------------------
(***************************************************************************)
(* Types.                                                                  *)
(***************************************************************************)
\* What a call can be while main is at m.
CallType(m) ==
  [tool : {"none", "trigger_workflow_dispatch", "create_release_tag", "force_argocd_sync",
           "restart_pods"},
   at : {"idle", "resolving", "tagging", "deleting"} \cup Ends,
   target : 1..m \cup {None}, tag : Tags \cup {None}, start : 0..m, sha : 0..m,
   listed : SUBSET PodNames, left : SUBSET PodNames, deleted : SUBSET PodNames,
   errors : SUBSET PodNames]

\* The part of TypeOK that is not about pods.
CallsTyped ==
  /\ rights \in Credentials /\ main \in 1..MaxCommits /\ tags \in [Tags -> 0..main]
  /\ runs \subseteq Calls /\ operation \in Calls \cup {None}
  /\ call \in [Calls -> CallType(main)]
  /\ faults \in 0..MaxFaults

LEMMA CallTypeGrows ==
  ASSUME NEW m \in Nat, NEW n \in Nat, m <= n, NEW q \in CallType(m) PROVE q \in CallType(n)
PROOF
<1>1. 1..m \cup {None} \subseteq 1..n \cup {None} /\ 0..m \subseteq 0..n
  OBVIOUS
<1> QED BY <1>1 DEF CallType

\* How a call ends.
LEMMA EndTyped ==
  ASSUME NEW m, NEW q \in CallType(m), NEW how \in Ends,
         NEW tool \in {"none", "trigger_workflow_dispatch", "create_release_tag",
                       "force_argocd_sync", "restart_pods"}
  PROVE  /\ [q EXCEPT !.tool = tool, !.at = how] \in CallType(m)
         /\ [q EXCEPT !.at = how] \in CallType(m)
BY DEF CallType

LEMMA IdleTyped == ASSUME NEW m \in Nat PROVE Idle \in CallType(m)
BY DEF Idle, CallType

LEMMA FaultsTyped ==
  ASSUME CallsTyped, [Next]_vars PROVE faults' \in 0..MaxFaults
PROOF
<1>1. faults' = faults \/ (faults < MaxFaults /\ faults' = faults + 1)
  BY DEF Next, vars, Tool, Others, trigger_workflow_dispatch, create_release_tag, ResolveMain,
         PostTag, force_argocd_sync, restart_pods, DeletePod, Merge, SyncStarts, TagByHand,
         PodGone, PodCreated, Fails, Done, Refuses, Fault, NoFault
<1> QED BY <1>1, ToolsAssumption DEF CallsTyped
\* The new value of a call is one.
LEMMA OneTyped ==
  ASSUME CallsTyped, NEW c \in Calls, NEW new \in CallType(main), Becomes(c, new)
  PROVE  call' \in [Calls -> CallType(main)]
BY DEF CallsTyped, Becomes

LEMMA NotFoundTyped ==
  ASSUME CallsTyped, NEW c \in Calls,
         NEW tool \in {"trigger_workflow_dispatch", "create_release_tag", "force_argocd_sync",
                       "restart_pods"},
         Fails(c, tool) \/ Done(c, tool) \/ Refuses(c, tool)
  PROVE  call' \in [Calls -> CallType(main)]
PROOF
<1>1. PICK how \in Ends : Becomes(c, [call[c] EXCEPT !.tool = tool, !.at = how])
  BY DEF Fails, Done, Refuses, Ends
<1>2. call[c] \in CallType(main)
  BY DEF CallsTyped
<1>3. [call[c] EXCEPT !.tool = tool, !.at = how] \in CallType(main)
  BY <1>2, EndTyped
<1> QED BY <1>1, <1>3, OneTyped

LEMMA CreateTyped ==
  ASSUME CallsTyped, NEW c \in Calls, create_release_tag(c)
  PROVE  call' \in [Calls -> CallType(main)]
PROOF
<1>1. CASE Refuses(c, "create_release_tag")
  BY <1>1, NotFoundTyped
<1>2. ASSUME NEW t \in Tags, NEW target \in 1..main \cup {None},
             Becomes(c, [Idle EXCEPT !.tool = "create_release_tag", !.tag = t, !.target = target,
                           !.start = main, !.sha = IF target = None THEN 0 ELSE target,
                           !.at = IF target = None THEN "resolving" ELSE "tagging"])
      PROVE  call' \in [Calls -> CallType(main)]
  <2> DEFINE sha == IF target = None THEN 0 ELSE target
             at  == IF target = None THEN "resolving" ELSE "tagging"
  <2>1. main \in Nat /\ sha \in 0..main /\ main \in 0..main /\ at \in {"resolving", "tagging"}
    BY ToolsAssumption DEF CallsTyped
  <2> HIDE DEF sha, at
  <2>2. [Idle EXCEPT !.tool = "create_release_tag", !.tag = t, !.target = target,
           !.start = main, !.sha = sha, !.at = at] \in CallType(main)
    BY <2>1, IdleTyped DEF CallType
  <2> QED BY <1>2, <2>2, OneTyped DEF sha, at
<1> QED BY <1>1, <1>2 DEF create_release_tag

LEMMA ResolveTyped ==
  ASSUME CallsTyped, NEW c \in Calls, ResolveMain(c)
  PROVE  call' \in [Calls -> CallType(main)]
PROOF
<1>1. CASE Fails(c, "create_release_tag")
  BY <1>1, NotFoundTyped
<1>2. CASE Becomes(c, [call[c] EXCEPT !.sha = main, !.at = "tagging"])
  <2>1. call[c] \in CallType(main) /\ main \in 0..main
    BY ToolsAssumption DEF CallsTyped
  <2>2. [call[c] EXCEPT !.sha = main, !.at = "tagging"] \in CallType(main)
    BY <2>1 DEF CallType
  <2> QED BY <1>2, <2>2, OneTyped
<1> QED BY <1>1, <1>2 DEF ResolveMain

LEMMA RestartTyped ==
  ASSUME CallsTyped, PodsInv, NEW c \in Calls, restart_pods(c)
  PROVE  call' \in [Calls -> CallType(main)]
PROOF
<1> DEFINE found == List("pods", "dev", "web")  names == {o.name : o \in found.items}
<1>1. CASE Refuses(c, "restart_pods") \/ Fails(c, "restart_pods")
  BY <1>1, NotFoundTyped
<1>2. names \subseteq PodNames
  <2> SUFFICES ASSUME NEW o \in found.items PROVE o.name \in PodNames
    OBVIOUS
  <2>1. o \in objects /\ o.kind = "pods"
    BY DEF List, Found, Failed, Selected
  <2>2. o \notin Fixtures
    BY <2>1, ToolsAssumption
  <2>3. PICK n \in PodNames : o = Pod(n)
    BY <2>1, <2>2 DEF PodsInv
  <2> QED BY <2>3, PodFacts
<1>3. CASE Becomes(c, [Idle EXCEPT !.tool = "restart_pods", !.listed = names, !.left = names,
                         !.at = IF names = {} THEN "ok" ELSE "deleting"])
  <2> DEFINE at == IF names = {} THEN "ok" ELSE "deleting"
  <2>1. at \in {"ok", "deleting"} /\ main \in Nat
    BY ToolsAssumption DEF CallsTyped
  <2> HIDE DEF at, names
  <2>2. [Idle EXCEPT !.tool = "restart_pods", !.listed = names, !.left = names, !.at = at]
          \in CallType(main)
    BY <1>2, <2>1, IdleTyped DEF CallType, Ends
  <2> QED BY <1>3, <2>2, OneTyped DEF at
<1> QED BY <1>1, <1>3 DEF restart_pods

LEMMA DeleteTyped ==
  ASSUME CallsTyped, NEW c \in Calls, NEW n \in PodNames, DeletePod(c, n)
  PROVE  call' \in [Calls -> CallType(main)]
PROOF
<1> DEFINE q == call[c]
<1>1. q \in CallType(main)
  BY DEF CallsTyped
<1>2. CASE End(c, "raised")
  <2>1. [q EXCEPT !.at = "raised"] \in CallType(main)
    BY <1>1, EndTyped DEF Ends
  <2> QED BY <1>2, <2>1, OneTyped DEF End
<1>3. ASSUME NEW where \in {"deleted", "errors"}, Reported(c, n, where)
      PROVE  call' \in [Calls -> CallType(main)]
  <2> DEFINE left == q.left \ {n}
             at   == IF left = {} THEN "ok" ELSE "deleting"
             next == [q EXCEPT !.left = left, !.at = at]
             del  == [next EXCEPT !.deleted = @ \cup {n}]
             err  == [next EXCEPT !.errors = @ \cup {n}]
  <2>1. left \subseteq PodNames /\ at \in {"ok", "deleting"}
    BY <1>1 DEF CallType
  <2>2. Becomes(c, IF where = "deleted" THEN del ELSE err)
    BY <1>3 DEF Reported
  <2> HIDE DEF q, left, at
  <2>3. next \in CallType(main)
    BY <1>1, <2>1 DEF CallType, Ends
  <2> HIDE DEF next
  <2>4. del \in CallType(main) /\ err \in CallType(main)
    BY <2>3 DEF CallType
  <2> HIDE DEF del, err
  <2> QED BY <2>2, <2>4, OneTyped
<1> QED BY <1>2, <1>3 DEF DeletePod

LEMMA ToolTyped ==
  ASSUME IInv, CallsTyped, PodsInv, faults' \in 0..MaxFaults, NEW c \in Calls, Tool(c)
  PROVE  CallsTyped'
PROOF
<1>1. main' = main /\ rights' = rights
  BY DEF Tool, trigger_workflow_dispatch, create_release_tag, ResolveMain, PostTag,
         force_argocd_sync, restart_pods, DeletePod, github
<1>2. runs' \subseteq Calls /\ operation' \in Calls \cup {None}
  BY DEF CallsTyped, Tool, trigger_workflow_dispatch, create_release_tag, ResolveMain, PostTag,
         force_argocd_sync, restart_pods, DeletePod, github, cluster
<1>3. tags' \in [Tags -> 0..main]
  <2>1. CASE tags' = tags
    BY <2>1 DEF CallsTyped
  <2>2. CASE tags' = [tags EXCEPT ![call[c].tag] = call[c].sha]
    <3>1. call[c].sha \in 0..main
      BY DEF CallsTyped, CallType
    <3> QED BY <2>2, <3>1 DEF CallsTyped
  <2> QED BY <2>1, <2>2
          DEF Tool, trigger_workflow_dispatch, create_release_tag, ResolveMain, PostTag,
              force_argocd_sync, restart_pods, DeletePod, github
<1>4. call' \in [Calls -> CallType(main)]
  <2>1. CASE trigger_workflow_dispatch(c) \/ force_argocd_sync(c)
    BY <2>1, NotFoundTyped DEF trigger_workflow_dispatch, force_argocd_sync
  <2>2. CASE PostTag(c)
    BY <2>2, NotFoundTyped DEF PostTag
  <2> QED BY <2>1, <2>2, CreateTyped, ResolveTyped, RestartTyped, DeleteTyped DEF Tool
<1> QED BY <1>1, <1>2, <1>3, <1>4 DEF CallsTyped

LEMMA OthersTyped ==
  ASSUME CallsTyped, faults' \in 0..MaxFaults, Others
  PROVE  CallsTyped'
PROOF
<1>1. /\ rights' = rights /\ runs' = runs /\ call' = call /\ operation' \in {operation, None}
      /\ main' = main \/ (main < MaxCommits /\ main' = main + 1)
  BY DEF Others, Merge, SyncStarts, TagByHand, PodGone, PodCreated, cluster, github
<1>2. main \in Nat /\ main' \in Nat /\ main <= main' /\ main' \in 1..MaxCommits
  BY <1>1, ToolsAssumption DEF CallsTyped
<1>3. tags' \in [Tags -> 0..main']
  <2>1. tags' = tags \/ \E t \in Tags : tags' = [tags EXCEPT ![t] = main]
    BY DEF Others, Merge, SyncStarts, TagByHand, PodGone, PodCreated, github
  <2>2. 0..main \subseteq 0..main' /\ main \in 0..main'
    BY <1>2
  <2> QED BY <2>1, <2>2 DEF CallsTyped
<1>4. call' \in [Calls -> CallType(main')]
  BY <1>1, <1>2, CallTypeGrows DEF CallsTyped
<1> QED BY <1>1, <1>2, <1>3, <1>4 DEF CallsTyped

LEMMA CallsTypedInit == Init => CallsTyped
BY ToolsAssumption, IdleTyped DEF Init, CallsTyped

\* Every variable keeps its type: a call is at a point of its tool, a tag points
\* at a commit there is, and Loki's lines fit in what the names allow.
THEOREM TypeCorrect == Spec => []TypeOK
PROOF
<1>1. IInv /\ CallsTyped /\ PodsInv /\ [Next]_vars => CallsTyped'
  <2> SUFFICES ASSUME IInv, CallsTyped, PodsInv, [Next]_vars PROVE CallsTyped'
    OBVIOUS
  <2>1. faults' \in 0..MaxFaults
    BY FaultsTyped
  <2>2. CASE UNCHANGED vars
    BY <2>2 DEF vars, cluster, github, CallsTyped
  <2> QED BY <2>1, <2>2, ToolTyped, OthersTyped DEF Next
<1>2. CallsTyped /\ PodsInv /\ LogInv /\ LinesLeft => TypeOK
  <2> SUFFICES ASSUME CallsTyped, PodsInv, LogInv, LinesLeft PROVE TypeOK
    OBVIOUS
  <2>1. Cardinality(log) <= 2 * Cardinality(PodNames)
    <3>1. Cardinality(fresh) \in Nat /\ Cardinality(Alive) \in Nat /\ Cardinality(PodNames) \in Nat
      BY NamesFinite DEF PodsInv, Alive
    <3>2. Cardinality(log) \in Nat
      BY FS_CardinalityType DEF LogInv
    <3> QED BY <3>1, <3>2 DEF LinesLeft
  <2>2. Cardinality(log) \in Nat /\ Cardinality(PodNames) \in Nat
    BY NamesFinite, FS_CardinalityType DEF LogInv
  <2>3. ASSUME NEW l \in log PROVE l \in [stream : PodNames, time : 1..2 * Cardinality(PodNames)]
    <3>1. /\ l.time \in 1..Cardinality(log) /\ l.stream \in PodNames
          /\ l = [stream |-> l.stream, time |-> l.time]
      BY DEF LogInv
    <3>2. l.time \in 1..2 * Cardinality(PodNames)
      BY <2>1, <2>2, <3>1
    <3> QED BY <3>1, <3>2
  <2> QED BY <2>3 DEF CallsTyped, CallType, PodsInv, TypeOK
<1> QED BY <1>1, <1>2, CallsTypedInit, Invariance, PodsInvariance, PTL DEF Spec
-----------------------------------------------------------------------------
(***************************************************************************)
(* The events of kubectl_get.                                              *)
(***************************************************************************)
\* s lists S, in the order of the times.
Descends(s, S) ==
  /\ s \in [1..Cardinality(S) -> S] /\ IsInjective(s)
  /\ \A i, j \in 1..Cardinality(S) : i < j => s[i].time >= s[j].time

\* There is such a list, whatever ties: the place of an event is given by the
\* number of those before it.
LEMMA DescendingExists ==
  ASSUME NEW S, IsFiniteSet(S), \A e \in S : e.time \in Int
  PROVE  \E s : Descends(s, S)
PROOF
<1> DEFINE N == Cardinality(S)
<1>1. N \in Nat /\ ExistsBijection(1..N, S)
  BY FS_CardinalityType
<1>2. PICK f : f \in [1..N -> S] /\ IsInjective(f) /\ \A e \in S : \E i \in 1..N : f[i] = e
  BY <1>1 DEF ExistsBijection, Bijection, Injection, Surjection
<1> DEFINE index(e) == CHOOSE i \in 1..N : f[i] = e
<1>3. \A e \in S : index(e) \in 1..N /\ f[index(e)] = e
  BY <1>2
<1>4. \A e, g \in S : index(e) = index(g) => e = g
  BY <1>3
<1>5. \A e \in S : index(e) \in Int
  BY <1>1, <1>3
<1> HIDE DEF index, N
<1> DEFINE Precedes(e, g) == e.time > g.time \/ (e.time = g.time /\ index(e) < index(g))
<1>6. \A e, g \in S : e # g => Precedes(e, g) \/ Precedes(g, e)
  BY <1>4, <1>5
<1>7. \A e, g, h \in S : Precedes(e, g) /\ Precedes(g, h) => Precedes(e, h)
  BY <1>5
<1>8. \A e \in S : ~Precedes(e, e)
  BY <1>5
<1>9. \A e, g \in S : Precedes(e, g) => e.time >= g.time
  OBVIOUS
<1> HIDE DEF Precedes
<1> DEFINE Before(e) == {g \in S : Precedes(g, e)}
           rank == [e \in S |-> Cardinality(Before(e)) + 1]
<1>10. \A e \in S : IsFiniteSet(Before(e)) /\ Cardinality(Before(e)) \in Nat
  <2> SUFFICES ASSUME NEW e \in S PROVE IsFiniteSet(Before(e)) /\ Cardinality(Before(e)) \in Nat
    OBVIOUS
  <2> DEFINE b == Before(e)
  <2>1. b \subseteq S
    OBVIOUS
  <2> HIDE DEF b
  <2>2. IsFiniteSet(b) /\ Cardinality(b) \in Nat
    BY <2>1, FS_Subset, FS_CardinalityType
  <2> QED BY <2>2 DEF b
<1>11. \A e \in S : rank[e] \in 1..N
  <2> SUFFICES ASSUME NEW e \in S PROVE rank[e] \in 1..N
    OBVIOUS
  <2> DEFINE b == Before(e)
  <2>1. b \subseteq S \ {e}
    BY <1>8
  <2>2. IsFiniteSet(S \ {e}) /\ Cardinality(S \ {e}) = N - 1
    BY FS_RemoveElement DEF N
  <2>3. rank[e] = Cardinality(b) + 1 /\ Cardinality(b) \in Nat
    BY <1>10
  <2> HIDE DEF b, rank
  <2>4. Cardinality(b) <= N - 1
    BY <2>1, <2>2, FS_Subset
  <2> QED BY <1>1, <2>3, <2>4
<1>12. \A e, g \in S : Precedes(e, g) => rank[e] < rank[g]
  <2> SUFFICES ASSUME NEW e \in S, NEW g \in S, Precedes(e, g) PROVE rank[e] < rank[g]
    OBVIOUS
  <2> DEFINE b == Before(e)  c == Before(g)
  <2>1. b \subseteq c /\ e \in c /\ e \notin b
    BY <1>7, <1>8
  <2>2. rank[e] = Cardinality(b) + 1 /\ rank[g] = Cardinality(c) + 1
    OBVIOUS
  <2>3. IsFiniteSet(c) /\ Cardinality(b) \in Nat /\ Cardinality(c) \in Nat
    BY <1>10
  <2> HIDE DEF b, c, rank
  <2>4. Cardinality(b) <= Cardinality(c) /\ Cardinality(b) # Cardinality(c)
    BY <2>1, <2>3, FS_Subset
  <2> QED BY <2>2, <2>3, <2>4
<1>13. rank \in [S -> 1..N]
  <2>1. DOMAIN rank = S /\ rank = [e \in S |-> rank[e]]
    OBVIOUS
  <2> HIDE DEF rank
  <2> QED BY <1>11, <2>1
<1> HIDE DEF rank
<1>14. \A e, g \in S : rank[e] = rank[g] => e = g
  <2>1. \A e \in S : rank[e] \in Int
    BY <1>1, <1>11
  <2> QED BY <1>6, <1>12, <2>1
<1>15. IsFiniteSet(1..N) /\ Cardinality(1..N) = N
  BY <1>1, FS_Interval
<1>16. \A i \in 1..N : \E e \in S : rank[e] = i
  <2>1. rank \in Injection(S, 1..N)
    BY <1>13, <1>14 DEF Injection, IsInjective
  <2>2. rank \in Surjection(S, 1..N)
    BY <1>15, <2>1, FS_Injection DEF N
  <2> QED BY <2>2 DEF Surjection
<1> DEFINE s == [i \in 1..N |-> CHOOSE e \in S : rank[e] = i]
<1>17. \A i \in 1..N : s[i] \in S /\ rank[s[i]] = i
  BY <1>16
<1>18. s \in [1..N -> S] /\ DOMAIN s = 1..N
  BY <1>17
<1> HIDE DEF s
<1>19. IsInjective(s)
  BY <1>17, <1>18 DEF IsInjective
<1>20. ASSUME NEW i \in 1..N, NEW j \in 1..N, i < j PROVE s[i].time >= s[j].time
  <2>1. s[i] \in S /\ s[j] \in S /\ rank[s[i]] = i /\ rank[s[j]] = j /\ i \in Int /\ j \in Int
    BY <1>1, <1>17
  <2>2. s[i] # s[j] /\ ~Precedes(s[j], s[i])
    BY <1>12, <1>20, <2>1
  <2>3. Precedes(s[i], s[j])
    BY <1>6, <2>1, <2>2
  <2> QED BY <1>9, <2>1, <2>3
<1>21. Descends(s, S)
  BY <1>18, <1>19, <1>20 DEF Descends, N
<1> QED BY <1>21

\* What Newest keeps.
LEMMA NewestKeeps ==
  ASSUME NEW S, IsFiniteSet(S), \A e \in S : e.time \in Int
  PROVE  /\ Newest(S) \subseteq S
         /\ Cardinality(Newest(S)) = IF Cardinality(S) < EventCap THEN Cardinality(S) ELSE EventCap
         /\ \A o \in Newest(S), lost \in S \ Newest(S) : o.time >= lost.time
PROOF
<1> DEFINE N == Cardinality(S)  s == Sorted(S, LAMBDA a, b : a.time >= b.time)
           K == IF N < EventCap THEN N ELSE EventCap
<1>1. N \in Nat /\ EventCap \in Nat
  BY FS_CardinalityType, ToolsAssumption
<1>2. Descends(s, S)
  <2>1. PICK t : Descends(t, S)
    BY DescendingExists
  <2>2. /\ t \in [1..N -> S] /\ IsInjective(t)
        /\ \A i, j \in DOMAIN t : i < j => t[i].time >= t[j].time
    BY <2>1 DEF Descends
  <2>3. /\ s \in [1..N -> S] /\ IsInjective(s)
        /\ \A i, j \in DOMAIN s : i < j => s[i].time >= s[j].time
    BY <2>2 DEF Sorted
  <2> HIDE DEF s
  <2> QED BY <2>3 DEF Descends
<1>3. Newest(S) = {s[i] : i \in {i \in DOMAIN s : i <= EventCap}}
  BY DEF Newest
<1> HIDE DEF s
<1>4. /\ s \in [1..N -> S] /\ DOMAIN s = 1..N /\ IsInjective(s)
      /\ \A i, j \in 1..N : i < j => s[i].time >= s[j].time
  BY <1>2 DEF Descends
<1>5. IsFiniteSet(1..N) /\ Cardinality(1..N) = N
  BY <1>1, FS_Interval
<1>6. \A e \in S : \E i \in 1..N : s[i] = e
  <2>1. s \in Injection(1..N, S)
    BY <1>4 DEF Injection
  <2>2. s \in Surjection(1..N, S)
    BY <1>5, <2>1, FS_Injection
  <2> QED BY <2>2 DEF Surjection
<1> HIDE DEF N
<1>7. K \in Nat /\ K <= N /\ K <= EventCap /\ 1..K \subseteq 1..N
      /\ \A i \in 1..N : i <= EventCap => i \in 1..K
  BY <1>1
<1> HIDE DEF K
<1>8. Newest(S) = {s[i] : i \in 1..K}
  <2>1. {i \in DOMAIN s : i <= EventCap} = 1..K
    BY <1>1, <1>4, <1>7
  <2> QED BY <1>3, <2>1
<1>9. Cardinality(Newest(S)) = K
  <2> DEFINE f == [i \in 1..K |-> s[i]]
  <2>1. f \in [1..K -> Newest(S)]
    BY <1>8
  <2>2. \A i, j \in 1..K : f[i] = f[j] => i = j
    BY <1>4, <1>7 DEF IsInjective
  <2>3. \A e \in Newest(S) : \E i \in 1..K : f[i] = e
    BY <1>8
  <2> HIDE DEF f
  <2>4. f \in Bijection(1..K, Newest(S))
    BY <2>1, <2>2, <2>3 DEF Bijection, Injection, Surjection, IsInjective
  <2>5. IsFiniteSet(1..K) /\ Cardinality(1..K) = K
    BY <1>7, FS_Interval
  <2> QED BY <2>4, <2>5, FS_Bijection DEF ExistsBijection
<1>10. ASSUME NEW o \in Newest(S), NEW lost \in S \ Newest(S) PROVE o.time >= lost.time
  <2>1. PICK i \in 1..K : s[i] = o
    BY <1>8
  <2>2. PICK j \in 1..N : s[j] = lost
    BY <1>6
  <2>3. j \notin 1..K
    BY <1>8, <2>2
  <2>4. i < j /\ i \in 1..N
    BY <1>1, <1>7, <2>3
  <2> QED BY <1>4, <2>1, <2>2, <2>4
<1> QED BY <1>4, <1>7, <1>8, <1>9, <1>10 DEF K, N

\* kubectl_get returns the newest events of those meant, as many as it may:
\* for any events and any limit.
THEOREM EventsExact == Spec => []EventsAreNewest
PROOF
<1>1. ASSUME PodsInv PROVE EventsAreNewest
  <2> SUFFICES ASSUME NEW namespace \in Namespaces, NEW label_selector \in Selectors \cup {None}
               PROVE
      LET all  == Meant("events", namespace, None, label_selector)
          got  == _fetch("events", namespace, None, label_selector)
          kept == {o \in all : \E i \in got.items : i.name = o.name}
      IN got.ok => /\ Cardinality(kept) = IF Cardinality(all) < EventCap THEN Cardinality(all) ELSE EventCap
                   /\ \A o \in kept, lost \in all \ kept : o.time >= lost.time
    BY DEF EventsAreNewest
  <2> DEFINE all  == Meant("events", namespace, None, label_selector)
             got  == _fetch("events", namespace, None, label_selector)
             kept == {o \in all : \E i \in got.items : i.name = o.name}
             found == List("events", namespace, label_selector)
  <2>1. all = {o \in objects : /\ o.kind = "events" /\ o.namespace = namespace
                               /\ label_selector = None \/ o.app = label_selector}
    <3> DEFINE place == IF "events" = "applications" /\ namespace = None
                        THEN "argocd" ELSE namespace
               named(o) == IF None # None THEN o.name = None
                           ELSE label_selector = None \/ o.app = label_selector
    <3>1. place = namespace
      OBVIOUS
    <3>2. \A o : named(o) <=> label_selector = None \/ o.app = label_selector
      OBVIOUS
    <3>3. all = {o \in objects : /\ o.kind = "events" /\ o.namespace = place
                                 /\ named(o)}
      BY ONLY DEF Meant
    <3> HIDE DEF all, place, named
    <3> QED BY <3>1, <3>2, <3>3
  <2>2. all \subseteq Fixtures
    <3> SUFFICES ASSUME NEW o \in all PROVE o \in Fixtures
      OBVIOUS
    <3>1. o \in objects /\ o.kind = "events"
      BY <2>1
    <3> HIDE DEF all
    <3>2. ASSUME o \notin Fixtures PROVE FALSE
      <4>1. PICK n \in PodNames : o = Pod(n)
        BY <1>1, <3>1, <3>2 DEF PodsInv
      <4>2. Pod(n).kind = "pods"
        BY PodFacts
      <4> QED BY <3>1, <4>1, <4>2
    <3> QED BY <3>2
  <2>3. IsFiniteSet(all) /\ \A e \in all : e.time \in Int
    BY <2>2, ToolsAssumption, FS_Subset
  <2>4. \A o, p \in all : o.name = p.name => o = p
    BY <2>1, <2>2, ToolsAssumption
  <2>5. found = Failed \/ found = Found(all)
    BY <2>1 DEF List, Selected
  <2>6. got = Trimmed([found EXCEPT !.items = Newest(@)], trim)
    BY DEF _fetch, Native, Custom
  <2> HIDE DEF found, all
  <2>7. ~got.ok \/ got.items = {trim(o) : o \in Newest(all)}
    <3>1. CASE found = Failed
      BY <2>6, <3>1 DEF Failed, Trimmed
    <3>2. CASE found = Found(all)
      BY <2>6, <3>2 DEF Found, Trimmed
    <3> QED BY <2>5, <3>1, <3>2
  <2>8. /\ Newest(all) \subseteq all
        /\ Cardinality(Newest(all)) = IF Cardinality(all) < EventCap THEN Cardinality(all) ELSE EventCap
        /\ \A o \in Newest(all), lost \in all \ Newest(all) : o.time >= lost.time
    BY <2>3, NewestKeeps
  <2>9. \A o : trim(o).name = o.name
    BY DEF trim, Item
  <2> HIDE DEF got
  <2>10. got.ok => kept = Newest(all)
    BY <2>4, <2>7, <2>8, <2>9
  <2> QED BY <2>8, <2>10 DEF all, got
<1> QED BY <1>1, PodsInvariance, PTL
===============================================================================
