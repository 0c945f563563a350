------------------------------- MODULE BotTools -------------------------------
(***************************************************************************)
(* What the functions of tools.py do to the servers they call: the read    *)
(* tools as functions of what the Kubernetes API (and Loki) holds, the     *)
(* write tools as calls of several requests, between which others act.     *)
(*                                                                         *)
(* dispatch knows the read tools only.  The write tools have no caller in  *)
(* the repository, and the pod has neither the rights nor a GitHub token   *)
(* for them; they are modelled as their signatures offer them, run by      *)
(* somebody with a kubeconfig (the fallback of _init_k8s) and a token.     *)
(***************************************************************************)
EXTENDS Integers, SequencesExt

CONSTANTS
  Fixtures,   \* the API objects that stay as they are
  Namespaces, Names, Selectors,  \* what calls can name; None for an argument left out
  None,
  Credentials, \* what the process may have: kinds to read, whether it may delete
              \* and patch, whether it has a token for GitHub
  EventCap, LineCap,  \* 30 events and 50 log lines in the code
  Calls,      \* calls of write tools
  Tags, MaxCommits,  \* bound: the commits of main
  PodNames,   \* bound: the names of the pods of the workload that is restarted
  FirstPods,  \* those it starts with
  MaxFaults

Native == {"pods", "services", "deployments", "replicasets", "ingresses", "configmaps"}
Custom == {"rollouts", "applications", "prometheusrules"}
Kinds  == Native \cup Custom \cup {"events", "nodes", "secrets"}

ASSUME ToolsAssumption ==
  /\ EventCap \in Nat /\ LineCap \in Nat /\ MaxCommits \in Nat \ {0} /\ MaxFaults \in Nat
  /\ FirstPods \subseteq PodNames /\ IsFiniteSet(PodNames)
  /\ IsFiniteSet(Fixtures) /\ \A o \in Fixtures : o.kind # "pods" /\ o.time \in Int
  /\ \A o, p \in Fixtures :
       o.kind = p.kind /\ o.namespace = p.namespace /\ o.name = p.name => o = p
  /\ Credentials \subseteq [read : SUBSET Kinds, write : BOOLEAN, github_token : BOOLEAN]
  /\ "argocd" \in Namespaces
  /\ None \notin Namespaces \cup Names \cup Selectors \cup Tags \cup Calls

VARIABLES
  rights,      \* the credentials of this process
  fresh,       \* the pod names not used so far
  log,         \* what Loki holds: pods write a line when they start and are told to stop
  objects,     \* the objects of the Kubernetes API
  terminating, \* the pods that have been deleted and still exist
  main,        \* the HEAD of main: its commits are numbered
  tags,        \* tags[t]: the commit tag t points at
  runs,        \* the calls for which GitHub has started a workflow
  operation,   \* the sync that ArgoCD has been asked for on its Application
  call,        \* the write tools at work
  faults

cluster == <<fresh, log, objects, terminating, operation>>
github  == <<main, tags, runs>>
vars    == <<rights, cluster, github, call, faults>>
-----------------------------------------------------------------------------
(***************************************************************************)
(* The Kubernetes API.  An object is a kind, where it is, the value of the *)
(* label that selectors name, the fields of its spec and status, and for   *)
(* an event its time.                                                      *)
(***************************************************************************)
Failed    == [ok |-> FALSE, items |-> {}]
Found(os) == [ok |-> TRUE, items |-> os]

Read(kind, namespace, name) ==
  LET os == {o \in objects : o.kind = kind /\ o.namespace = namespace /\ o.name = name}
  IN IF kind \in rights.read /\ namespace # None /\ os # {} THEN Found(os) ELSE Failed

Selected(kind, label_selector) ==
  {o \in objects : o.kind = kind /\ (label_selector = None \/ o.app = label_selector)}

\* The client refuses a namespace that is None.
List(kind, namespace, label_selector) ==
  IF kind \in rights.read /\ namespace # None
  THEN Found({o \in Selected(kind, label_selector) : o.namespace = namespace})
  ELSE Failed

ListCluster(kind, label_selector) ==
  IF kind \in rights.read THEN Found(Selected(kind, label_selector)) ELSE Failed
-----------------------------------------------------------------------------
(***************************************************************************)
(* kubectl_get.                                                            *)
(***************************************************************************)
\* One object by its name, or all of the namespace.  With a name, the selector
\* is not looked at.
ReadOrList(kind, namespace, name, label_selector) ==
  IF name # None THEN Read(kind, namespace, name) ELSE List(kind, namespace, label_selector)

\* The client's classes call their attributes otherwise than the API.
SnakeCase ==
  [podIP |-> "pod_ip", hostIP |-> "host_ip", containerStatuses |-> "container_statuses",
   readyReplicas |-> "ready_replicas", availableReplicas |-> "available_replicas",
   updatedReplicas |-> "updated_replicas"]

to_dict(fields) == {IF f \in DOMAIN SnakeCase THEN SnakeCase[f] ELSE f : f \in fields}

_summarize_spec(spec) ==
  (spec \cap {"replicas", "selector", "strategy", "source", "sources", "destination"})
  \cup {f \in {"images"} : "template" \in spec}

_summarize_status(status) ==
  (status \cap {"phase", "podIP", "hostIP", "readyReplicas", "availableReplicas",
                "updatedReplicas", "currentStepIndex", "sync", "health"})
  \cup {f \in {"containers"} : "containerStatuses" \in status}
  \cup {f \in {"message"} : {"phase", "message"} \subseteq status}

Item(o, spec, status) ==
  [name |-> o.name, namespace |-> o.namespace,
   spec |-> _summarize_spec(spec), status |-> _summarize_status(status)]

trim(o)         == Item(o, to_dict(o.spec), to_dict(o.status))
_trim_custom(o) == Item(o, o.spec, o.status)
NameOnly(o)     == Item(o, {}, {})

\* The events in an order; which of two that tie comes first is left open.
Sorted(events, before(_, _)) ==
  CHOOSE s \in [1..Cardinality(events) -> events] :
    IsInjective(s) /\ \A i, j \in DOMAIN s : i < j => before(s[i], s[j])

\* Mutant of Newest: reverse=True is forgotten.
Newest_ascending(events) ==
  LET sorted == Sorted(events, LAMBDA a, b : a.time <= b.time)
  IN {sorted[i] : i \in {i \in DOMAIN sorted : i <= EventCap}}

\* evs.sort(reverse=True); evs[:30]
Newest(events) ==
  LET sorted == Sorted(events, LAMBDA a, b : a.time >= b.time)
  IN {sorted[i] : i \in {i \in DOMAIN sorted : i <= EventCap}}

Trimmed(found, Trim(_)) == [found EXCEPT !.items = {Trim(o) : o \in @}]

_list_custom(kind, namespace, name, label_selector) ==
  Trimmed(ReadOrList(kind, namespace, name, label_selector), _trim_custom)

\* Mutant of _fetch: applications are looked for where the others are.
_fetch_no_default(resource, namespace, name, label_selector) ==
  CASE resource \in Native ->
         Trimmed(ReadOrList(resource, namespace, name, label_selector), trim)
    [] resource \in Custom ->
         _list_custom(resource, namespace, name, label_selector)
    [] OTHER -> Failed

\* Nodes, events and secrets do not look at the name.
_fetch(resource, namespace, name, label_selector) ==
  CASE resource \in Native ->
         Trimmed(ReadOrList(resource, namespace, name, label_selector), trim)
    [] resource \in {"rollouts", "prometheusrules"} ->
         _list_custom(resource, namespace, name, label_selector)
    [] resource = "applications" ->
         _list_custom(resource, IF namespace = None THEN "argocd" ELSE namespace,
                      name, label_selector)
    [] resource = "events" ->
         LET found == List(resource, namespace, label_selector)
         IN Trimmed([found EXCEPT !.items = Newest(@)], trim)
    [] resource = "nodes" -> Trimmed(ListCluster(resource, label_selector), trim)
    [] resource = "secrets" -> Trimmed(List(resource, namespace, label_selector), NameOnly)
    [] OTHER -> Failed

\* The resources of the schema, and one that is not in it.
Resources == Kinds \cup {"something else"}
-----------------------------------------------------------------------------
(***************************************************************************)
(* loki_query.  A line is a stream, the pod that wrote it, and a time.     *)
(* Loki answers with the newest `limit` lines, stream by stream.           *)
(***************************************************************************)
First(n, lines, before(_, _)) ==
  {l \in lines : Cardinality({m \in lines : before(m, l)}) < n}

Later(a, b)    == a.time > b.time
Position(n)    == CHOOSE i \in DOMAIN SetToSeq(PodNames) : SetToSeq(PodNames)[i] = n
InAnswer(a, b) == \/ Position(a.stream) < Position(b.stream)
                  \/ a.stream = b.stream /\ Later(a, b)

Now           == Cardinality(log) + 1
Window(hours) == {l \in log : Now - hours <= l.time}

\* Mutant of Limit: the server is asked for more than is shown.
Limit_doubled == 2 * LineCap

\* "limit": 50
Limit == LineCap

\* lines[:50], over the streams one after the other.
loki_query(hours) == First(LineCap, First(Limit, Window(hours), Later), InAnswer)
-----------------------------------------------------------------------------
(***************************************************************************)
(* The write tools.  call[c] is one call: the tool, what it asks for, how  *)
(* far it is, what it has found out and what it reports.                   *)
(***************************************************************************)
Idle == [tool |-> "none", at |-> "idle", target |-> None, tag |-> None, start |-> 0, sha |-> 0,
         listed |-> {}, left |-> {}, deleted |-> {}, errors |-> {}]

Pods    == {o \in objects : o.kind = "pods"}
Running == Pods \ terminating

\* A pod of the workload that is restarted.
Pod(n) == [kind |-> "pods", namespace |-> "dev", name |-> n, app |-> "web", time |-> 0,
           spec |-> {"containers"},
           status |-> {"phase", "podIP", "hostIP", "containerStatuses"}]

Ends == {"ok", "error", "raised"}

\* The state has the right shape.
TypeOK ==
  /\ rights \in Credentials
  /\ fresh \subseteq PodNames
  /\ log \subseteq [stream : PodNames, time : 1..2 * Cardinality(PodNames)]
  /\ Fixtures \subseteq objects /\ objects \ Fixtures \subseteq {Pod(n) : n \in PodNames \ fresh}
  /\ terminating \subseteq Pods
  /\ main \in 1..MaxCommits
  /\ tags \in [Tags -> 0..main]
  /\ runs \subseteq Calls
  /\ operation \in Calls \cup {None}
  /\ call \in [Calls ->
       [tool : {"none", "trigger_workflow_dispatch", "create_release_tag", "force_argocd_sync",
                "restart_pods"},
        at : {"idle", "resolving", "tagging", "deleting"} \cup Ends,
        target : 1..main \cup {None}, tag : Tags \cup {None}, start : 0..main, sha : 0..main,
        listed : SUBSET PodNames, left : SUBSET PodNames, deleted : SUBSET PodNames,
        errors : SUBSET PodNames]]
  /\ faults \in 0..MaxFaults

Init ==
  /\ rights \in Credentials
  /\ fresh = PodNames \ FirstPods
  /\ objects = Fixtures \cup {Pod(n) : n \in FirstPods}
  /\ log = {}
  /\ terminating = {}
  /\ main = 1
  /\ tags = [t \in Tags |-> 0]
  /\ runs = {}
  /\ operation = None
  /\ call = [c \in Calls |-> Idle]
  /\ faults = 0

Writes(n) == log' = log \cup {[stream |-> n, time |-> Now]}

Fault   == faults < MaxFaults /\ faults' = faults + 1
NoFault == UNCHANGED faults

Becomes(c, with) == call' = [call EXCEPT ![c] = with]
End(c, how)      == Becomes(c, [call[c] EXCEPT !.at = how])

\* A request has no effect: it is refused, or lost.  Of the two reports the
\* exception is the one that leaves the function.
Fails(c, tool) ==
  /\ \E how \in {"error", "raised"} : Becomes(c, [call[c] EXCEPT !.tool = tool, !.at = how])
  /\ Fault

\* It has its effect, and the answer says so, or has an error status all the
\* same (5xx: reported as an error like a refusal), or is lost.
Done(c, tool) ==
  \/ Becomes(c, [call[c] EXCEPT !.tool = tool, !.at = "ok"]) /\ NoFault
  \/ /\ \E how \in {"error", "raised"} : Becomes(c, [call[c] EXCEPT !.tool = tool, !.at = how])
     /\ Fault

Refuses(c, tool) == Becomes(c, [call[c] EXCEPT !.tool = tool, !.at = "error"]) /\ NoFault

trigger_workflow_dispatch(c) ==
  LET tool == "trigger_workflow_dispatch"
  IN /\ call[c].at = "idle"
     /\ \/ ~rights.github_token /\ Refuses(c, tool) /\ UNCHANGED runs
        \/ rights.github_token /\ Fails(c, tool) /\ UNCHANGED runs
        \/ rights.github_token /\ Done(c, tool) /\ runs' = runs \cup {c}
     /\ UNCHANGED <<rights, cluster, main, tags>>

\* Mutant of create_release_tag: main is not resolved.
create_release_tag_unresolved(c) ==
  /\ call[c].at = "idle"
  /\ \E t \in Tags, target \in 1..main \cup {None} :
       Becomes(c, [Idle EXCEPT !.tool = "create_release_tag", !.tag = t, !.target = target,
                     !.start = main, !.sha = target, !.at = "tagging"])
  /\ NoFault /\ UNCHANGED <<rights, cluster, github>>

\* create_release_tag up to its first request.
create_release_tag(c) ==
  /\ call[c].at = "idle"
  /\ \E t \in Tags, target \in 1..main \cup {None} :
       IF rights.github_token
       THEN Becomes(c, [Idle EXCEPT !.tool = "create_release_tag", !.tag = t, !.target = target,
                          !.start = main, !.sha = IF target = None THEN 0 ELSE target,
                          !.at = IF target = None THEN "resolving" ELSE "tagging"])
       ELSE Refuses(c, "create_release_tag")
  /\ NoFault /\ UNCHANGED <<rights, cluster, github>>

\* Mutant of ResolveMain: main as the process found it when it started.
ResolveMain_cached(c) ==
  /\ call[c].at = "resolving"
  /\ Becomes(c, [call[c] EXCEPT !.sha = 1, !.at = "tagging"]) /\ NoFault
  /\ UNCHANGED <<rights, cluster, github>>

\* GET refs/heads/main
ResolveMain(c) ==
  /\ call[c].at = "resolving"
  /\ \/ Becomes(c, [call[c] EXCEPT !.sha = main, !.at = "tagging"]) /\ NoFault
     \/ Fails(c, "create_release_tag")
  /\ UNCHANGED <<rights, cluster, github>>

\* POST refs: GitHub does not move a tag that exists.
PostTag(c) ==
  LET t == call[c].tag
  IN /\ call[c].at = "tagging"
     /\ \/ tags[t] # 0 /\ Refuses(c, "create_release_tag") /\ UNCHANGED tags
        \/ tags[t] = 0 /\ Done(c, "create_release_tag")
           /\ tags' = [tags EXCEPT ![t] = call[c].sha]
        \/ Fails(c, "create_release_tag") /\ UNCHANGED tags
     /\ UNCHANGED <<rights, cluster, main, runs>>

\* PATCH .operation of the Application: the last one stands.
force_argocd_sync(c) ==
  LET tool == "force_argocd_sync"
  IN /\ call[c].at = "idle"
     /\ \/ ~rights.write /\ Refuses(c, tool) /\ UNCHANGED operation
        \/ Fails(c, tool) /\ UNCHANGED operation
        \/ rights.write /\ Done(c, tool) /\ operation' = c
     /\ UNCHANGED <<rights, fresh, log, objects, terminating, github>>

\* restart_pods up to its list.
restart_pods(c) ==
  /\ call[c].at = "idle"
  /\ \/ LET found == List("pods", "dev", "web")
            names == {o.name : o \in found.items}
        IN IF found.ok
           THEN Becomes(c, [Idle EXCEPT !.tool = "restart_pods", !.listed = names, !.left = names,
                              !.at = IF names = {} THEN "ok" ELSE "deleting"]) /\ NoFault
           ELSE Refuses(c, "restart_pods")
     \/ Fails(c, "restart_pods")
  /\ UNCHANGED <<rights, cluster, github>>

\* Mutant of Reported: deleted.append comes before the request.
Reported_early(c, n, where) ==
  LET left == call[c].left \ {n}
      next == [call[c] EXCEPT !.left = left, !.at = IF left = {} THEN "ok" ELSE "deleting",
                 !.deleted = @ \cup {n}]
  IN Becomes(c, IF where = "deleted" THEN next ELSE [next EXCEPT !.errors = @ \cup {n}])

Reported(c, n, where) ==
  LET left == call[c].left \ {n}
      next == [call[c] EXCEPT !.left = left, !.at = IF left = {} THEN "ok" ELSE "deleting"]
  IN Becomes(c, IF where = "deleted" THEN [next EXCEPT !.deleted = @ \cup {n}]
                ELSE [next EXCEPT !.errors = @ \cup {n}])

\* One round of the loop: a DELETE by name.  It succeeds for a pod that is
\* already terminating; an ApiException is noted, even if the server has begun
\* to delete; any other exception ends the function.
DeletePod(c, n) ==
  /\ call[c].at = "deleting" /\ n \in call[c].left
  /\ \/ /\ rights.write /\ Pod(n) \in objects
        /\ terminating' = terminating \cup {Pod(n)}
        /\ IF Pod(n) \in terminating THEN UNCHANGED log ELSE Writes(n)
        /\ \/ Reported(c, n, "deleted") /\ NoFault
           \/ (Reported(c, n, "errors") \/ End(c, "raised")) /\ Fault
     \/ /\ ~rights.write \/ Pod(n) \notin objects
        /\ Reported(c, n, "errors") /\ NoFault /\ UNCHANGED <<terminating, log>>
     \/ /\ Reported(c, n, "errors") \/ End(c, "raised")
        /\ Fault /\ UNCHANGED <<terminating, log>>
  /\ UNCHANGED <<rights, fresh, objects, operation, github>>
-----------------------------------------------------------------------------
(***************************************************************************)
(* The others: people who merge and tag, ArgoCD, the controller and the    *)
(* kubelet.                                                                *)
(***************************************************************************)
Merge ==
  /\ main < MaxCommits /\ main' = main + 1
  /\ NoFault /\ UNCHANGED <<rights, cluster, tags, runs, call>>

TagByHand(t) ==
  /\ tags[t] = 0 /\ tags' = [tags EXCEPT ![t] = main]
  /\ NoFault /\ UNCHANGED <<rights, cluster, main, runs, call>>

SyncStarts ==
  /\ operation # None /\ operation' = None
  /\ NoFault /\ UNCHANGED <<rights, fresh, log, objects, terminating, github, call>>

PodGone(o) ==
  /\ o \in terminating
  /\ objects' = objects \ {o} /\ terminating' = terminating \ {o}
  /\ NoFault /\ UNCHANGED <<rights, fresh, log, operation, github, call>>

PodCreated(n) ==
  /\ n \in fresh /\ Cardinality(Running) < Cardinality(FirstPods)
  /\ objects' = objects \cup {Pod(n)} /\ fresh' = fresh \ {n}
  /\ Writes(n)
  /\ NoFault /\ UNCHANGED <<rights, terminating, operation, github, call>>

Tool(c) ==
  \/ trigger_workflow_dispatch(c) \/ create_release_tag(c) \/ ResolveMain(c) \/ PostTag(c)
  \/ force_argocd_sync(c) \/ restart_pods(c) \/ \E n \in PodNames : DeletePod(c, n)

Others ==
  \/ Merge \/ SyncStarts
  \/ \E t \in Tags : TagByHand(t)
  \/ \E n \in PodNames : PodGone(Pod(n)) \/ PodCreated(n)

Next == Others \/ \E c \in Calls : Tool(c)

Spec == Init /\ [][Next]_vars
-----------------------------------------------------------------------------
(***************************************************************************)
(* Properties.                                                             *)
(***************************************************************************)
\* What a caller of kubectl_get means, according to the schema: the object of
\* that name, or else all with that label, where the resource lives.
Meant(resource, namespace, name, label_selector) ==
  {o \in objects :
     /\ o.kind = resource
     /\ o.namespace = IF resource = "applications" /\ namespace = None THEN "argocd" ELSE namespace
     /\ IF name # None THEN o.name = name
        ELSE label_selector = None \/ o.app = label_selector}

\* kubectl_get returns what is meant, no more and no less, or an error: while
\* pods come and go, for all resources that honour a name and are not cut.
GetIsExact ==
  \A resource \in Native \cup Custom, namespace \in Namespaces \cup {None},
     name \in Names \cup {None}, label_selector \in Selectors \cup {None} :
    LET got   == _fetch(resource, namespace, name, label_selector)
        meant == Meant(resource, namespace, name, label_selector)
    IN IF got.ok THEN {<<i.namespace, i.name>> : i \in got.items} = {<<o.namespace, o.name>> : o \in meant}
       ELSE \/ resource \notin rights.read
            \/ name # None /\ meant = {}
            \/ namespace = None /\ resource # "applications"

\* The events returned are the newest, and all of them if they are few.
EventsAreNewest ==
  \A namespace \in Namespaces, label_selector \in Selectors \cup {None} :
    LET all  == Meant("events", namespace, None, label_selector)
        got  == _fetch("events", namespace, None, label_selector)
        kept == {o \in all : \E i \in got.items : i.name = o.name}
    IN got.ok => /\ Cardinality(kept) = IF Cardinality(all) < EventCap THEN Cardinality(all) ELSE EventCap
                 /\ \A o \in kept, lost \in all \ kept : o.time >= lost.time

\* loki_query shows the newest lines of its hours, of whatever stream: no line
\* it leaves out is newer than one it shows, and it leaves none out below the
\* limit.
LokiShowsNewest ==
  \A hours \in 1..Now :
    LET all   == Window(hours)
        shown == loki_query(hours)
    IN /\ Cardinality(shown) = IF Cardinality(all) < LineCap THEN Cardinality(all) ELSE LineCap
       /\ \A l \in shown, lost \in all \ shown : l.time >= lost.time

\* restart_pods accounts for every pod it has listed once, and a pod that it
\* calls deleted is not running, whoever else deletes or creates pods.
RestartAccounts ==
  \A c \in Calls : call[c].tool = "restart_pods" =>
    /\ call[c].at = "ok" => call[c].deleted \cup call[c].errors = call[c].listed
    /\ call[c].deleted \cap call[c].errors = {}
    /\ \A n \in call[c].deleted : Pod(n) \notin Running

\* A tag that create_release_tag reports is there, on the commit that was
\* asked for or else on one that was HEAD of main during the call.
TagIsAsReported ==
  \A c \in Calls : call[c].tool = "create_release_tag" /\ call[c].at = "ok" =>
    /\ tags[call[c].tag] = call[c].sha
    /\ IF call[c].target # None THEN call[c].sha = call[c].target
       ELSE call[c].start <= call[c].sha
=============================================================================
