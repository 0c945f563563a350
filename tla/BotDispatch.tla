------------------------------ MODULE BotDispatch ------------------------------
(***************************************************************************)
(* The tools of the Slack bot as dispatch sees them (tools.py): which      *)
(* arguments a call binds, how each function ends when its server answers, *)
(* refuses or cannot be reached, and what dispatch makes of that.          *)
(***************************************************************************)

\* The tools Claude is told of, with the arguments they require and accept.
TOOL_SCHEMAS ==
  [list_namespaces |-> [required |-> {}, properties |-> {}],
   kubectl_get     |-> [required |-> {"resource"},
                        properties |-> {"resource", "namespace", "name", "label_selector"}],
   kubectl_logs    |-> [required |-> {"namespace", "pod"},
                        properties |-> {"namespace", "pod", "container", "tail_lines", "previous"}],
   argocd_app      |-> [required |-> {"name"}, properties |-> {"name"}],
   prom_query      |-> [required |-> {"query"}, properties |-> {"query"}],
   loki_query      |-> [required |-> {"logql"}, properties |-> {"logql", "hours"}]]

Registered == DOMAIN TOOL_SCHEMAS

\* The branches of dispatch that await their answer; the others run the
\* synchronous Kubernetes client on the event loop.
Awaited  == {"prom_query", "loki_query"}
Blocking == Registered \ Awaited

\* How the server of a tool can take a call: it answers; it answers with an
\* error (ApiException, another HTTP status, a status other than success); it
\* cannot be reached, or its answer cannot be read.
Servers == {"answers", "refuses", "unreachable"}

\* How a function of tools.py ends.
list_namespaces(server) == IF server = "answers" THEN "result" ELSE "raised"

\* Both except clauses.
kubectl_get(server) == IF server = "answers" THEN "result" ELSE "error"

\* An error is told, anything else leaves the function.
ToldOrRaised(server) ==
  CASE server = "answers" -> "result"
    [] server = "refuses" -> "error"
    [] server = "unreachable" -> "raised"

\* Both catch ApiException only.
kubectl_logs(server) == ToldOrRaised(server)
argocd_app(server)   == ToldOrRaised(server)

\* Both look at the HTTP status and the status of the answer.
prom_query(server) == ToldOrRaised(server)
loki_query(server) == ToldOrRaised(server)

\* list_namespaces() drops its input; prom_query and loki_query take what they
\* know out of it; the others get all of it as keyword arguments.
Binds(tool, given) ==
  \/ tool = "list_namespaces"
  \/ /\ TOOL_SCHEMAS[tool].required \subseteq given
     /\ tool \in Awaited \/ given \subseteq TOOL_SCHEMAS[tool].properties

Function(tool, server) ==
  CASE tool = "list_namespaces" -> list_namespaces(server)
    [] tool = "kubectl_get"     -> kubectl_get(server)
    [] tool = "kubectl_logs"    -> kubectl_logs(server)
    [] tool = "argocd_app"      -> argocd_app(server)
    [] tool = "prom_query"      -> prom_query(server)
    [] tool = "loki_query"      -> loki_query(server)

\* Mutant of dispatch: the coroutines are returned and awaited by the caller,
\* outside the try.
dispatch_await_outside(tool, given, server) ==
  IF tool \notin Registered \/ ~Binds(tool, given) THEN "error"
  ELSE IF tool \in Awaited THEN Function(tool, server)
  ELSE IF Function(tool, server) = "result" THEN "result" ELSE "error"

\* An unknown tool and every exception become an error for Claude.
dispatch(tool, given, server) ==
  IF /\ tool \in Registered
     /\ Binds(tool, given)
     /\ Function(tool, server) = "result"
  THEN "result" ELSE "error"
================================================================================
