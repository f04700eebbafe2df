----------------------------- MODULE Dispatcher -----------------------------
(***************************************************************************)
(* The top proxy handler of pkg/kubefed2/proxy/proxy_server.go             *)
(* (newTopProxyHandler) serving one request after another, with the        *)
(* per-backend proxy it builds (newDynamicProxyHandler), the fan-out of    *)
(* aggregateServer.ServeHTTP, and the central registry it reads            *)
(* (NamespacePlacement and FederatedCluster objects), which a federation   *)
(* operator edits while a request is in flight.                            *)
(*                                                                         *)
(* A request is handled as the sequence of steps that touch the registry:  *)
(* authentication, routing, the placement read, one config read per        *)
(* cluster, and the proxying, which runs the backends in one step since    *)
(* nothing else it reads can change meanwhile.                             *)
(***************************************************************************)
EXTENDS Naturals, Sequences, SequencesExt, FiniteSets, ProxyPaths, Aggregation

CONSTANTS
  Clusters,       \* member clusters named in the registry
  Local,          \* the proxy's own API server (rest config cfg)
  Namespaces,     \* tenant namespaces that may have a NamespacePlacement
  Users,          \* common names of verified client certificates
  MinikubeUser,   \* the user makeUpgradeTransport impersonates
  Requests,       \* [path, upgrade, table, host]: API path, Connection:
                  \* Upgrade, Table in Accept, Host header (see extractHost)
  Objs,           \* Objs[c]: the objects backend c lists, in its order
  TableClusters,  \* backends that answer a Table when one is accepted
  TableCols,      \* columns of a backend's Table
  FilterEnabled,  \* FALSE under --disable-filter (filter == nil)
  Failures,       \* per-call backend outcomes: "none", "forbidden", "transport"
  CAs,            \* client CA bundles the CA file may hold
  Unreadable,     \* the CA file while missing or half written
  MaxRotations,   \* bound on replacements of the CA file
  MaxEdits,       \* bound on registry edits
  FederatedTypes, \* path segments naming resources of the federation API
  NoPlacement, NoCluster, NoCfg

Backends == Clusters \cup {Local}

ASSUME Local \notin Clusters /\ MinikubeUser \notin Users
ASSUME Failures \subseteq {"none", "forbidden", "transport"} /\ "none" \in Failures

(***************************************************************************)
(* NamespacePlacementSpec: a master cluster and worker clusters (no        *)
(* duplicates).  A FederatedCluster is "absent", "ok", or present with a   *)
(* kubeconfig whose TLS material rest.TransportFor rejects ("badTLS").     *)
(***************************************************************************)
WorkerLists ==
  {s \in UNION {[1..n -> Clusters] : n \in 0..Cardinality(Clusters)} :
     \A i, j \in DOMAIN s : i # j => s[i] # s[j]}

Placements == [master : Clusters, workers : WorkerLists]

ClusterStates == {"absent", "ok", "badTLS"}

VARIABLES
  placement,     \* placement[ns]: the NamespacePlacement ns, or NoPlacement
  fedCluster,    \* fedCluster[c]: the FederatedCluster c and its secret
  edits,         \* registry edits so far
  req,           \* the request being served, with the caller's user
  pc,            \* the handler's next step
  strategy,      \* the branch the handler took
  clusterName,   \* the one cluster to proxy to
  clusterNames,  \* the worker clusters read from the placement
  idx,           \* next index of getRestConfigsForClusters' loop
  cfgs,          \* the configs that loop built
  proxyCfg,      \* the rest config of the single-backend proxy, or NoCfg
  sent,          \* backend calls of this request, with their responses
  resp,          \* what the client received
  caFile,        \* what /var/lib/minikube/certs/ca.crt holds now
  listenerCA,    \* the pool ServeOnListener loaded from it at start
  rotations      \* replacements of the CA file so far

vars == <<placement, fedCluster, edits, req, pc, strategy, clusterName,
          clusterNames, idx, cfgs, proxyCfg, sent, resp, caFile, listenerCA,
          rotations>>

caVars == <<caFile, listenerCA, rotations>>
registryVars == <<placement, fedCluster>>
\* what the handler's steps leave alone
envVars == <<placement, fedCluster, edits, caFile, listenerCA, rotations>>
handlerVars == <<req, pc, strategy, clusterName, clusterNames, idx, cfgs,
                 proxyCfg, sent, resp>>

PlacementOf(ns) == IF ns \in Namespaces THEN placement[ns] ELSE NoPlacement

\* Every cluster a placement names has a FederatedCluster (spec section 3).
RegistryConsistent ==
  \A ns \in Namespaces : placement[ns] # NoPlacement =>
    \A c \in {placement[ns].master} \cup Range(placement[ns].workers) :
      fedCluster[c] # "absent"

\* The URL path the handler sees: the API path under --api-prefix.
URLPath(r) == ApiPrefix \o r.path

-----------------------------------------------------------------------------
(***************************************************************************)
(* A backend API server.  It lists Objs[c] for a collection and finds one  *)
(* object by name; it may refuse the impersonated user (a JSON Status) or  *)
(* the call may fail in transport (the responder's plain-text 500).  An    *)
(* upgrade streams (101) if the writer can be hijacked; the aggregator's   *)
(* httptest.ResponseRecorder cannot, and the upgrade-aware handler then    *)
(* answers a plain-text 500 after it has already dialled the backend.      *)
(***************************************************************************)
ObjItems(c, os) == [j \in 1..Len(os) |-> [obj |-> os[j], src |-> c, cell |-> NoCell]]

BackendResponse(c, p, failure, hijackable) ==
  LET name == Classify(p).name
      asTable == req.table /\ c \in TableClusters
  IN CASE failure = "transport" -> Text(500)
       [] failure = "forbidden" -> Response(403, "Status", <<>>, 0)
       [] req.upgrade -> IF hijackable THEN Response(101, "Stream", <<>>, 0)
                                       ELSE Text(500)
       [] name = <<>> ->
            Response(200, IF asTable THEN "Table" ELSE "List", ObjItems(c, Objs[c]),
                     IF asTable THEN TableCols ELSE 0)
       [] name[1] \in Range(Objs[c]) ->
            Response(200, IF asTable THEN "Table" ELSE "Object",
                     ObjItems(c, <<name[1]>>), IF asTable THEN TableCols ELSE 0)
       [] OTHER -> Response(404, "Status", <<>>, 0)

(***************************************************************************)
(* The impersonation of a backend call: the verified user for the normal   *)
(* transport; the upgrade transport impersonates the fixed "minikube-user".*)
(***************************************************************************)
ImpersonatedUser == IF req.upgrade THEN MinikubeUser ELSE req.user

\* FilterServer.ServeHTTP: the delegate serves the request if accept holds
\* of the path and the extracted Host; otherwise 403.  A nil filter
\* (--disable-filter) is not installed.
FilterServe(p) == ~FilterEnabled \/ accept(p, extractHost(req.host))

\* Mutant: the filter is layered outside the prefix strip.
ServeDynamicFilterFirst(c, p, failure, hijackable) ==
  LET st == IF StripsPrefix THEN stripLeaveSlash(p) ELSE [found |-> TRUE, path |-> p]
      sp == st.path
  IN IF ~FilterServe(p)
       THEN [resp |-> Text(403), calls |-> <<>>, path |-> p]
     ELSE IF ~st.found
       THEN [resp |-> Text(404), calls |-> <<>>, path |-> p]
     ELSE LET r == BackendResponse(c, sp, failure, hijackable)
          IN [resp |-> r, path |-> sp,
              calls |-> <<[cluster |-> c, user |-> ImpersonatedUser, path |-> sp,
                           upgrade |-> req.upgrade, resp |-> r]>>]

(***************************************************************************)
(* The handler newDynamicProxyHandler builds for backend c, serving URL    *)
(* path p: stripLeaveSlash outermost, then the filter, then the            *)
(* upgrade-aware proxy.  Yields the response, the backend calls (none or   *)
(* one) and the request path afterwards, since stripLeaveSlash assigns     *)
(* req.URL.Path.                                                           *)
(***************************************************************************)
ServeDynamic(c, p, failure, hijackable) ==
  LET st == IF StripsPrefix THEN stripLeaveSlash(p) ELSE [found |-> TRUE, path |-> p]
      sp == st.path
  IN IF ~st.found
       THEN [resp |-> Text(404), calls |-> <<>>, path |-> p]
     ELSE IF ~FilterServe(sp)
       THEN [resp |-> Text(403), calls |-> <<>>, path |-> sp]
     ELSE LET r == BackendResponse(c, sp, failure, hijackable)
          IN [resp |-> r, path |-> sp,
              calls |-> <<[cluster |-> c, user |-> ImpersonatedUser, path |-> sp,
                           upgrade |-> req.upgrade, resp |-> r]>>]

(***************************************************************************)
(* aggregateServer.ServeHTTP's first loop: for each config in order build  *)
(* a dynamic proxy (a construction error writes 501 and returns) and serve *)
(* the one shared request into a recorder.                                 *)
(***************************************************************************)
\* newAggregateProxyHandler keeps the worker names and their configs side
\* by side (its keepalive field is never assigned).
newAggregateProxyHandler(names, cs) == [clusterNames |-> names, cfgs |-> cs]

RECURSIVE FanOut(_, _, _, _)
FanOut(cs, i, p, failures) ==
  IF i > Len(cs)
    THEN [calls |-> <<>>, responses |-> <<>>, constructErr |-> FALSE]
  ELSE IF cs[i].tls = "badTLS"
    THEN [calls |-> <<>>, responses |-> <<>>, constructErr |-> TRUE]
  ELSE LET h == ServeDynamic(cs[i].cluster, p, failures[i], FALSE)
           rest == FanOut(cs, i + 1, h.path, failures)
       IN [calls |-> h.calls \o rest.calls,
           responses |-> <<h.resp>> \o rest.responses,
           constructErr |-> rest.constructErr]

\* Mutant: the error of the FederatedCluster Get is not checked.
getRestConfigUnchecked(c) ==
  IF c \in Clusters THEN [cluster |-> c, tls |-> fedCluster[c]] ELSE NoCfg

\* getRestConfigForCluster: the FederatedCluster, then its kubeconfig secret.
getRestConfigForCluster(c) ==
  IF c \in Clusters /\ fedCluster[c] # "absent"
    THEN [cluster |-> c, tls |-> fedCluster[c]]
    ELSE NoCfg

\* clusterCache is declared and read but never written.
clusterCache == [key \in {} |-> NoCluster]

getClusterFromCache(ns, type, name) ==
  IF <<ns, type, name>> \in DOMAIN clusterCache
    THEN clusterCache[<<ns, type, name>>] ELSE NoCluster


-----------------------------------------------------------------------------
HandlerReset ==
  /\ pc = "auth"
  /\ strategy = "none"
  /\ clusterName = NoCluster
  /\ clusterNames = <<>>
  /\ idx = 1
  /\ cfgs = <<>>
  /\ proxyCfg = NoCfg
  /\ sent = <<>>
  /\ resp = Response(0, "pending", <<>>, 0)

Incoming ==
  {[path |-> r.path, upgrade |-> r.upgrade, table |-> r.table, host |-> r.host,
    user |-> u] : r \in Requests, u \in Users}

Init ==
  /\ placement \in [Namespaces -> Placements \cup {NoPlacement}]
  /\ fedCluster \in [Clusters -> ClusterStates]
  /\ RegistryConsistent
  /\ edits = 0
  /\ req \in Incoming
  /\ HandlerReset
  /\ listenerCA \in CAs
  /\ caFile = listenerCA
  /\ rotations = 0

(***************************************************************************)
(* Authentication: the handler re-reads the client CA file on every        *)
(* request and runs the x509 authenticator.  The TLS listener admitted     *)
(* only certificates that verify against listenerCA, the file as it was    *)
(* at start.  A file that cannot be read fails the authenticator's         *)
(* construction, and a certificate that does not verify against the        *)
(* current file is an error of AuthenticateRequest: both answer 501.  The  *)
(* 401 branch (no certificate) is unreachable behind the listener.         *)
(***************************************************************************)
CertVerifies == caFile = listenerCA

Authenticate ==
  /\ pc = "auth"
  /\ IF caFile = Unreadable \/ ~CertVerifies
       THEN pc' = "done" /\ resp' = Text(501)
       ELSE pc' = "route" /\ UNCHANGED resp
  /\ UNCHANGED <<envVars, req, strategy, clusterName, clusterNames,
                 idx, cfgs, proxyCfg, sent>>

(***************************************************************************)
(* Routing on the classified path: no namespace goes to the local API      *)
(* server, a Federated* type to the master, a cached name to its cluster,  *)
(* anything else to the workers.                                           *)
(***************************************************************************)
Route ==
  /\ pc = "route"
  /\ LET c == Classify(URLPath(req))
         cached == getClusterFromCache(c.namespace, c.type, c.name)
     IN CASE c.namespace = "" ->
               strategy' = "local" /\ pc' = "proxy"
               /\ proxyCfg' = [cluster |-> Local, tls |-> "ok"]
               /\ UNCHANGED clusterName
          [] needToGetFromMaster(c.type) ->
               strategy' = "master" /\ pc' = "getMaster"
               /\ UNCHANGED <<clusterName, proxyCfg>>
          [] c.name # <<>> /\ cached # NoCluster ->
               strategy' = "cache" /\ pc' = "clusterCfg"
               /\ clusterName' = cached /\ UNCHANGED proxyCfg
          [] OTHER ->
               strategy' = "workers" /\ pc' = "getWorkers"
               /\ UNCHANGED <<clusterName, proxyCfg>>
  /\ UNCHANGED <<envVars, req, clusterNames, idx, cfgs, sent, resp>>

\* getClusterFromNamespace: the placement's master, "" if the Get failed.
GetMasterCluster ==
  /\ pc = "getMaster"
  /\ LET p == PlacementOf(Classify(URLPath(req)).namespace)
     IN clusterName' = IF p = NoPlacement THEN NoCluster ELSE p.master
  /\ pc' = "clusterCfg"
  /\ UNCHANGED <<envVars, req, strategy, clusterNames, idx, cfgs,
                 proxyCfg, sent, resp>>

\* getRestConfigForCluster for the master, a cached or the only worker.
GetClusterConfig ==
  /\ pc = "clusterCfg"
  /\ proxyCfg' = getRestConfigForCluster(clusterName)
  /\ pc' = "proxy"
  /\ UNCHANGED <<envVars, req, strategy, clusterName, clusterNames,
                 idx, cfgs, sent, resp>>

\* len(clusterNames) == 1
SingleWorker(names) == Len(names) = 1

(***************************************************************************)
(* getWorkerClustersFromNamespace (nil if the Get failed); exactly one     *)
(* worker is proxied to alone, any other number is aggregated.             *)
(***************************************************************************)
GetWorkerClusters ==
  /\ pc = "getWorkers"
  /\ LET p == PlacementOf(Classify(URLPath(req)).namespace)
         names == IF p = NoPlacement THEN <<>> ELSE p.workers
     IN /\ clusterNames' = names
        /\ IF SingleWorker(names)
             THEN pc' = "clusterCfg" /\ clusterName' = names[1]
             ELSE /\ pc' = IF names = <<>> THEN "aggregate" ELSE "workerCfgs"
                  /\ UNCHANGED clusterName
  /\ UNCHANGED <<envVars, req, strategy, idx, cfgs, proxyCfg, sent,
                 resp>>

(***************************************************************************)
(* One iteration of getRestConfigsForClusters: a cluster whose             *)
(* FederatedCluster or config cannot be had is logged and skipped.         *)
(***************************************************************************)
GetWorkerConfig ==
  /\ pc = "workerCfgs"
  /\ LET cfg == getRestConfigForCluster(clusterNames[idx])
     IN cfgs' = IF cfg = NoCfg THEN cfgs ELSE Append(cfgs, cfg)
  /\ idx' = idx + 1
  /\ pc' = IF idx = Len(clusterNames) THEN "aggregate" ELSE "workerCfgs"
  /\ UNCHANGED <<envVars, req, strategy, clusterName, clusterNames,
                 proxyCfg, sent, resp>>

(***************************************************************************)
(* aggregateServer.ServeHTTP: fan the request out to the configs in order, *)
(* then merge, labelling the i-th response with clusterNames[i].           *)
(***************************************************************************)
Aggregate ==
  /\ pc = "aggregate"
  /\ LET agg == newAggregateProxyHandler(clusterNames, cfgs) IN
     \E f \in {FanOut(agg.cfgs, 1, URLPath(req), failures) :
                 failures \in [1..Len(agg.cfgs) -> Failures]} :
       /\ sent' = f.calls
       /\ resp' = IF f.constructErr THEN Text(501)
                  ELSE MergedResponse(f.responses, agg.clusterNames)
  /\ pc' = "done"
  /\ UNCHANGED <<envVars, req, strategy, clusterName, clusterNames,
                 idx, cfgs, proxyCfg>>

(***************************************************************************)
(* The single-backend proxy: nothing is written when no config was had, a  *)
(* construction error answers 501, otherwise the backend's response is     *)
(* streamed to the client as it is.                                        *)
(***************************************************************************)
ProxyToTarget ==
  /\ pc = "proxy"
  /\ CASE proxyCfg = NoCfg ->
            resp' = Response(200, "empty", <<>>, 0) /\ UNCHANGED sent
       [] proxyCfg.tls = "badTLS" ->
            resp' = Text(501) /\ UNCHANGED sent
       [] OTHER ->
            \E failure \in Failures :
              LET h == ServeDynamic(proxyCfg.cluster, URLPath(req), failure, TRUE)
              IN resp' = h.resp /\ sent' = h.calls
  /\ pc' = "done"
  /\ UNCHANGED <<envVars, req, strategy, clusterName, clusterNames,
                 idx, cfgs, proxyCfg>>

\* The server takes the next request once this one is answered.
NextRequest ==
  /\ pc = "done"
  /\ req' \in Incoming
  /\ pc' = "auth" /\ strategy' = "none" /\ clusterName' = NoCluster
  /\ clusterNames' = <<>> /\ idx' = 1 /\ cfgs' = <<>> /\ proxyCfg' = NoCfg
  /\ sent' = <<>> /\ resp' = Response(0, "pending", <<>>, 0)
  /\ UNCHANGED envVars

-----------------------------------------------------------------------------
(***************************************************************************)
(* The federation operator edits the registry, one object at a time, and   *)
(* keeps it consistent: a cluster joins a placement only once registered,  *)
(* and is deregistered only once no placement names it.                    *)
(***************************************************************************)
Edit(e) ==
  /\ edits < MaxEdits
  /\ e
  /\ edits' = edits + 1
  /\ UNCHANGED <<handlerVars, caVars>>

AddWorker(ns, c) == Edit(
  /\ placement[ns] # NoPlacement
  /\ c \notin Range(placement[ns].workers)
  /\ fedCluster[c] # "absent"
  /\ placement' = [placement EXCEPT ![ns].workers = Append(@, c)]
  /\ UNCHANGED fedCluster)

RemoveWorker(ns, c) == Edit(
  /\ placement[ns] # NoPlacement
  /\ c \in Range(placement[ns].workers)
  /\ placement' = [placement EXCEPT ![ns].workers = Remove(@, c)]
  /\ UNCHANGED fedCluster)

DeregisterCluster(c) == Edit(
  /\ fedCluster[c] # "absent"
  /\ \A ns \in Namespaces : placement[ns] # NoPlacement =>
        c # placement[ns].master /\ c \notin Range(placement[ns].workers)
  /\ fedCluster' = [fedCluster EXCEPT ![c] = "absent"]
  /\ UNCHANGED placement)

RegisterCluster(c) == Edit(
  /\ fedCluster[c] = "absent"
  /\ fedCluster' = [fedCluster EXCEPT ![c] = "ok"]
  /\ UNCHANGED placement)

(***************************************************************************)
(* The CA file is replaced (a rotated CA, or a file caught half written)   *)
(* while the listener keeps the pool it loaded at start.                   *)
(***************************************************************************)
RotateCA ==
  /\ rotations < MaxRotations
  /\ caFile' \in (CAs \cup {Unreadable}) \ {caFile}
  /\ rotations' = rotations + 1
  /\ UNCHANGED <<handlerVars, registryVars, edits, listenerCA>>

Next ==
  \/ Authenticate
  \/ Route
  \/ GetMasterCluster
  \/ GetClusterConfig
  \/ GetWorkerClusters
  \/ GetWorkerConfig
  \/ Aggregate
  \/ ProxyToTarget
  \/ NextRequest
  \/ \E ns \in Namespaces, c \in Clusters : AddWorker(ns, c) \/ RemoveWorker(ns, c)
  \/ \E c \in Clusters : DeregisterCluster(c) \/ RegisterCluster(c)
  \/ RotateCA

Spec == Init /\ [][Next]_vars

-----------------------------------------------------------------------------
Items == [obj : UNION {Range(Objs[b]) : b \in Backends},
          src : Backends, cell : Backends \cup {NoCell}]

Responses == [status : {0, 101, 200, 403, 404, 500, 501},
              kind : {"Table", "List", "Object", "Status", "Stream", "text",
                      "empty", "null", "reset", "pending"},
              items : Seq(Items), cols : Nat]

TypeOK ==
  /\ placement \in [Namespaces -> Placements \cup {NoPlacement}]
  /\ fedCluster \in [Clusters -> ClusterStates]
  /\ edits \in 0..MaxEdits
  /\ req \in Incoming
  /\ pc \in {"auth", "route", "getMaster", "clusterCfg", "getWorkers",
             "workerCfgs", "aggregate", "proxy", "done"}
  /\ strategy \in {"none", "local", "master", "cache", "workers"}
  /\ clusterName \in Clusters \cup {NoCluster}
  /\ clusterNames \in WorkerLists
  /\ idx \in 1..Cardinality(Clusters) + 1
  /\ cfgs \in Seq([cluster : Clusters, tls : ClusterStates \ {"absent"}])
  /\ proxyCfg \in [cluster : Backends, tls : ClusterStates \ {"absent"}] \cup {NoCfg}
  /\ sent \in Seq([cluster : Backends, user : Users \cup {MinikubeUser},
                   path : Seq(STRING), upgrade : BOOLEAN, resp : Responses])
  /\ resp \in Responses
  /\ listenerCA \in CAs /\ caFile \in CAs \cup {Unreadable}
  /\ rotations \in 0..MaxRotations

-----------------------------------------------------------------------------
Done == pc = "done"

ObjSrc(items) == [j \in 1..Len(items) |-> <<items[j].obj, items[j].src>>]

\* The request's path is rejected by the filter of the proxy it reaches.
FilterRejects(r) ==
  LET st == IF StripsPrefix THEN stripLeaveSlash(URLPath(r))
            ELSE [found |-> TRUE, path |-> URLPath(r)]
  IN FilterEnabled /\ st.found /\ ~accept(st.path, extractHost(r.host))

(***************************************************************************)
(* Aggregation order (spec section 8, property 4): a merged Table or List  *)
(* a fan-out answers holds exactly the items the backends returned, backend *)
(* by backend in the order of the placement's worker list, and each        *)
(* backend's items in its own order.                                       *)
(***************************************************************************)
MergedInBackendOrder ==
  Done /\ strategy = "workers" /\ resp.status = 200 /\ resp.kind \in {"Table", "List"}
    => ObjSrc(resp.items) = FlattenSeq([i \in 1..Len(sent) |-> ObjSrc(sent[i].resp.items)])

(***************************************************************************)
(* Table column invariant (spec section 8, property 5): a Table merged     *)
(* from several backends by aggregateServer has exactly one column more    *)
(* than a backend's (the synthetic Cluster column) and every row has a     *)
(* cell in it; any other Table reaches the client with the backend's       *)
(* columns and rows as they were.                                          *)
(***************************************************************************)
TableColumnAdded ==
  Done /\ resp.kind = "Table"
    => LET merged == strategy = "workers" /\ Len(clusterNames) # 1
       IN /\ resp.cols = TableCols + (IF merged THEN 1 ELSE 0)
          /\ \A j \in 1..Len(resp.items) : (resp.items[j].cell # NoCell) = merged

(***************************************************************************)
(* Filter soundness (spec section 8, property 1): no backend ever receives *)
(* a request path the filter rejects, whatever the --api-prefix, whether   *)
(* the request goes to one backend or is fanned out.                       *)
(***************************************************************************)
FilterGuardsBackends ==
  FilterEnabled =>
    \A i \in 1..Len(sent) : accept(sent[i].path, extractHost(req.host))

(***************************************************************************)
(* Identity forwarding (spec section 8, property 3): every backend call    *)
(* impersonates the user of the verified client certificate, upgraded      *)
(* (exec, attach) calls included.                                          *)
(***************************************************************************)
CallerIdentityForwarded ==
  \A i \in 1..Len(sent) : sent[i].user = req.user

(***************************************************************************)
(* Table cells name the source (spec section 8, property 5): every row of  *)
(* a merged Table carries, in its Cluster cell, the cluster it came from.  *)
(***************************************************************************)
ClusterCellIsSource ==
  Done /\ resp.kind = "Table"
    => \A j \in 1..Len(resp.items) : resp.items[j].cell \in {NoCell, resp.items[j].src}

(***************************************************************************)
(* Failures are reported (spec sections 7 and 9): a 200 always carries a   *)
(* response body; a missing placement or an unmergeable fan-out is not     *)
(* answered with an empty or "null" success.                               *)
(***************************************************************************)
SuccessHasBody ==
  Done /\ resp.status = 200 => resp.kind \notin {"empty", "null"}

(***************************************************************************)
(* Federated resources go to the master (spec section 4.8, section 8       *)
(* scenario 2): a request for a resource of the federation API is routed   *)
(* to the namespace's master cluster.                                      *)
(***************************************************************************)
FederatedToMaster ==
  pc \notin {"auth", "route"} /\ strategy # "none"
  /\ Classify(URLPath(req)).type \in FederatedTypes
    => strategy = "master"

(***************************************************************************)
(* Fan-out completeness: a request aggregateServer fans out (a worker list *)
(* of other than one cluster), that the filter accepts and that is not     *)
(* refused with 501, reaches every cluster whose config was built.         *)
(***************************************************************************)
FanOutReachesEveryConfig ==
  Done /\ strategy = "workers" /\ Len(clusterNames) # 1
  /\ resp.status # 501 /\ ~FilterRejects(req)
    => Len(sent) = Len(cfgs)

(***************************************************************************)
(* The handler never panics: every request gets an HTTP response rather    *)
(* than a dropped connection.                                              *)
(***************************************************************************)
NoConnectionReset ==
  Done => resp.kind # "reset"

(***************************************************************************)
(* The comment on stripLeaveSlash: "like http.StripPrefix, but always      *)
(* leaves an initial slash (so that our regexps will work.)".  Every path  *)
(* the stripped handler hands to the filter and to the backend proxy       *)
(* begins with "/", that is, is not the empty path (spec section 8,       *)
(* property 6).                                                            *)
(***************************************************************************)
StripLeavesSlash ==
  \A i \in 1..Len(sent) : sent[i].path # <<>>

(***************************************************************************)
(* A rejected certificate is an authentication failure (spec section 7:    *)
(* bad client certificate 401, CA load failure 501): when the CA file      *)
(* reads but no longer verifies the certificate the listener admitted, the *)
(* handler answers 401.                                                    *)
(***************************************************************************)
CertRejectionIs401 ==
  [][pc = "auth" /\ pc' = "done" /\ caFile # Unreadable /\ ~CertVerifies
       => resp'.status = 401]_vars
=============================================================================
