------------------------------ MODULE MCBotTools ------------------------------
(***************************************************************************)
(* Small instances of BotTools for TLC.                                    *)
(***************************************************************************)
EXTENDS BotTools

CallSymmetry == Permutations(Calls)

Object(kind, namespace, name, app, time, spec, status) ==
  [kind |-> kind, namespace |-> namespace, name |-> name, app |-> app, time |-> time,
   spec |-> spec, status |-> status]

\* Namesakes of one pod, in other kinds and in another namespace; an
\* Application, which lives in argocd; more events than are shown, two of them
\* of the same time.
MCFixtures ==
  {Object("rollouts", "dev", "n1", "web", 0, {"replicas", "template"}, {"phase", "message", "readyReplicas"}),
   Object("deployments", "argocd", "n1", "web", 0, {"replicas", "template"}, {"readyReplicas"}),
   Object("configmaps", "dev", "n2", "db", 0, {}, {}),
   Object("applications", "argocd", "n2", "web", 0, {"source"}, {"sync", "health"}),
   Object("secrets", "dev", "n2", "db", 0, {}, {}),
   Object("nodes", None, "n1", "db", 0, {}, {"phase"})}
  \cup {Object("events", "dev", e, IF e = "e1" THEN "db" ELSE "web",
               IF e = "e1" THEN 3 ELSE IF e = "e2" THEN 2 ELSE 1, {}, {}) : e \in {"e1", "e2", "e3", "e4"}}

\* The ServiceAccount of the pod, which has no token; a developer's kubeconfig.
MCCredentials ==
  {[read |-> Kinds \ {"secrets"}, write |-> FALSE, github_token |-> FALSE],
   [read |-> Kinds, write |-> TRUE, github_token |-> TRUE]}
===============================================================================
