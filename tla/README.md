# TLA+ models of the kubefed2 federated API proxy

This directory holds TLA+ models of the request path of the federated proxy in
`src/pkg/kubefed2/proxy/`, and the TLC configurations that check them. The
proxy is an HTTP gateway: it authenticates a client, reads the tenant
namespace's `NamespacePlacement` from a central registry cluster, and sends the
request to the right backend cluster or clusters. When it sends a request to
several clusters, it merges their List or Table answers into one.

## The system and its parts

The source divides into the components of `spec.md` §2:

| # | Component | Code | Module |
|---|-----------|------|--------|
| C1 | Filter | `FilterServer`, `accept`, `DefaultPathRejectRE` (proxy_server.go 51–160) | `ProxyPaths` (`accept`, `RejectedPath`), `Dispatcher` (`ServeDynamic`) |
| C2 | Path classifier | `getNamespaceTypeNameFromPath` (474–482) | `ProxyPaths!Classify` |
| C3 | Placement resolver | `getClusterFromNamespace`, `getWorkerClustersFromNamespace` (484–492, 525–533) | `Dispatcher` (`GetMasterCluster`, `GetWorkerClusters`) |
| C4 | Cluster-config builder | `getRestConfigForCluster`, `getRestConfigsForClusters` (494–558) | `Dispatcher` (`GetClusterConfig`, `GetWorkerConfig`) |
| C5 | Route cache | `clusterCache`, `getClusterFromCache` (517–523); the empty save hooks in aggregate_server.go 146–150 | `Dispatcher` (`clusterCache`, `getClusterFromCache`) |
| C6 | Dynamic backend proxy | `newDynamicProxyHandler`, `makeUpgradeTransport`, `stripLeaveSlash` (181–210, 373–412, 459–472) | `Dispatcher!ServeDynamic`, `ProxyPaths!stripLeaveSlash` |
| C7 | Aggregator | `aggregateServer.ServeHTTP`, `addClusterToTable` (aggregate_server.go) | `Dispatcher!FanOut`, `Aggregation` |
| C8 | Top dispatcher | `newTopProxyHandler` (276–371) | `Dispatcher` (one action per step) |
| C9 | Server bootstrap and CLI | `NewServer`, `Listen*`, `ServeOnListener`, `kubefed2/proxy.go` `RunProxy` | `Startup`, which implements `Lifecycle` |

The generated clientset, informers, listers and deep copies, and the
`NamespacePlacement` controller (its `Reconcile` only logs), change no state
the proxy depends on. They are listed as not modelled in `PROJECT.json`.

How the parts interact on one request:
`client → C9 → C8 (authenticate, classify, C3/C5, C4) → {C6 | C7 → N × C6} → backend`.
C1 sits inside every C6, after the prefix strip. The registry is read by
C3 and C4 at different moments of the same request, and nothing stops the
operator from editing it in between.

## Modules

* **`ProxyPaths`** holds the pure path operators. A URL path is a sequence of
  segments: `"/a/b"` is `<<"a","b">>`, a trailing slash is a last segment `""`,
  and the empty string is `<<>>`.
  * `Classify` translates the greedy regexp
    `.*/namespaces/([^/]*)/([^/]*)/?(.*)`. It finds the last segment
    `namespaces` that has two more segments after it.
  * `stripLeaveSlash` returns `[found, path]`. When `found` is FALSE, the code
    answers `http.NotFound`.
  * `accept` and `RejectedPath` express the default filter regexps as
    predicates on segments.
  * The two string-prefix tests (`HasPrefix(s, "Federated")` and the `/api`
    test in `newDynamicProxyHandler`), and the prefix `attach` of the reject
    regexp, are given as the set of alphabet segments that pass them:
    `FederatedPrefixed`, `ApiPrefixed` and `AttachPrefixed`. The MC module
    lists those segments explicitly.
* **`TokenRegexp`** is a reference definition, not a model of code: what Go's
  regexp package returns for the path regexps, stated on strings. A string is
  a sequence of tokens, `"/"` or a word. A regexp is a sequence of items
  (literal, `[^/]*`, `x?`, `.*`, a word with a given prefix). `Splits`
  enumerates every way the items can consume the string. For these
  all-greedy regexps, RE2 reports the leftmost-first match, which is the split
  whose vector of item lengths is lexicographically largest (`Preferred`).
  `Group` is a submatch. `MCDispatcher` checks `ProxyPaths` against it.
* **`Aggregation`** models the merge loop of `aggregateServer.ServeHTTP` as a
  recursive fold (`MergeFrom` over `MergeOne`). The fold keeps the loop's
  exact control:
  * the first response sets the base Table (with the added "Cluster" column)
    or the base List;
  * a non-JSON body panics (the gvk returned by `Interpret` is nil);
  * a Table after a List, or a List after a Table, panics on the nil base;
  * any other kind is the early `return` ("oops"), which writes nothing.

  `MergedResponse` is what the client receives:
  * after a panic, net/http drops the connection: status 0, kind `"reset"`;
  * after the early return, an empty 200;
  * with zero responses, `json.Marshal(nil)`: a 200 with body `null`;
  * otherwise the merged list, or else the merged table.
* **`Dispatcher`** models one handler goroutine serving requests one after
  another, while a registry operator edits placements and FederatedCluster
  objects.
  * The handler's state is `req`, `pc`, `strategy`, `clusterName`,
    `clusterNames`, `idx`, `cfgs`, `proxyCfg`, `sent` and `resp`.
  * The registry is `placement` and `fedCluster`. A cluster's
    FederatedCluster is `absent`, `ok` or `badTLS`, where `badTLS` means its
    secret makes `rest.TransportFor` fail.
  * Each registry read of `newTopProxyHandler` is its own action, because the
    operator may act between any two of them: `Authenticate`, `Route`,
    `GetMasterCluster`, `GetClusterConfig`, `GetWorkerClusters`, one
    `GetWorkerConfig` per cluster, then `Aggregate` or `ProxyToTarget`.
  * `ServeDynamic` models a request passing through one backend proxy, in the
    order the handlers are wrapped: strip the prefix (404 if it is missing),
    then the filter (403), then the upgrade-aware reverse proxy, which
    impersonates `minikube-user` on upgrades and the caller otherwise.
  * `newAggregateProxyHandler` builds the aggregator from the worker names and
    their configs. These are two lists side by side, which is why a skipped
    config shifts the labels.
  * `FanOut` runs the aggregator's backend loop. It threads the request path
    from one backend to the next, because `stripLeaveSlash` assigns
    `req.URL.Path` on the request that every backend shares.
  * Backends answer through `BackendResponse`, the model of the environment:
    they may fail with a transport error or with a `Forbidden` Status.
  * `sent` records every backend call as `[cluster, user, path, upgrade, resp]`.
  * Registry edits keep the registry consistent (`RegistryConsistent`).
    `DeregisterCluster` only removes a cluster that no placement names at
    that moment. Edits are bounded by `MaxEdits`.
  * Client certificates. `listenerCA` is the CA pool that the TLS listener
    loaded at start: it admitted the client. `caFile` is what
    `/var/lib/minikube/certs/ca.crt` holds now. `RotateCA` replaces the file
    with another CA or with an unreadable file, at most `MaxRotations` times.
    `Authenticate` reads the file on every request
    (`newAuthenticatorFromClientCAFile`). An unreadable file gives 501. A
    file that no longer verifies the admitted certificate (`CertVerifies`)
    also gives 501, because x509 verification failure is an error, not a
    `!ok`.
  * The filter judges the host after `extractHost` (`net.SplitHostPort`). A
    Host header is `[name, ipv6, port]`.
  * `Aggregate` quantifies over the fan-out outcomes, one per choice of
    backend failures, rather than over the failures themselves. This binds
    the `FanOut` record once, so TLC does not re-evaluate it on every use
    inside the merge.
* **`Startup`** models `RunProxy` and the `Server` methods it calls as one
  sequential process. `Init` chooses the flags (`--port`, `--unix-socket`,
  `--disable-filter`, `--api-prefix`, `--www`, `--www-prefix`) and the environment as a record of
  booleans: the in-cluster config and the `~/.kube/config` file load (each
  on its own, since `getDefaultRESTConfig` falls back from one to the other),
  every part of the filter flags compiles (`RegexpsCompile` stands for
  `MakeRegexpArray`'s split-and-compile loop), each of the two
  `kubeconfig-central` secrets exists, the port binds, the CA and certificate
  load. `Init` also chooses the file found at the socket path: none, a
  socket, or a regular file. The actions follow the code in order:
  * `CheckFlags`: the port/socket exclusivity check and `getDefaultRESTConfig`;
  * `Configure`: coercion of both prefixes, `MakeRegexpArrayOrDie`,
    `--disable-filter` (the `--www` directory is only stat'ed for a warning);
  * `NewServer`: both secret reads, with the error RunProxy drops, then the
    mux. The API pattern is registered, then, with `--www`, the static one.
    `ServeMux.Handle` panics when the two coerced prefixes are equal;
  * `ListenTCP` (through `Listen`: the port binds, or is 0 and the OS picks
    one) or `ListenUnix`: stale-socket removal (`RemovesStaleSocket`), then
    `umask(0077)`, `net.Listen` and `umask(oldmask)`. `MaskAtListen` is the
    umask in force when the socket is created, given the order of the calls;
  * `Announce`: the "Starting to serve" line;
  * `ServeOnListener`: CA load, the nil-server dereference, `ServeTLS`.

  `WF_vars(Next)` is assumed: one goroutine runs these steps back to back.
  `ConflictingListeners` is the flag test `port != defaultPort && path != ""`.
* **`Lifecycle`** is the abstract specification of the process that spec §6
  describes. The process starts, binds one endpoint, announces it once, and
  then either serves or exits; it never stops half-way (`WF`). A Unix socket
  is bound only with the default port, only over no file or a stale socket,
  and is created owner-only. It has five actions: `Exit`, `BindTCP`,
  `BindUnix`, `AnnounceOnce` and `Serve`.

  `Startup` instantiates it as `Life`, mapping `pc` to `Phase`:
  * the steps before a listener exists are `"starting"`;
  * `announce` and `serve` are `"listening"`;
  * `serving` and `exited` keep their names.

  `listener` is mapped to the endpoint, `Len(out)` to the announcement count,
  and the flags to `port` and `unix`. `ImplementsLifecycle == Life!Spec` is
  checked as a property.
* **`MCDispatcher`** instantiates `Dispatcher` for TLC. It has two clusters
  `c1` and `c2` plus the local cluster, one namespace, and one user. Its request
  records are: a table of pods, a list of pods, a named pod, exec and attach of
  a pod, cluster-scoped nodes, a federated type written `FederatedServices` and
  `federatedservices`, and a request with a foreign Host.

## Runs

The "pass" runs:

* **`dispatch_default`** (`MCDispatcher.cfg`) uses every request kind, every
  failure, one replacement of the CA file (by another CA or an unreadable
  file), and two registry edits racing the handler. It
  checks these properties:
  * `TypeOK`;
  * `MergedInBackendOrder`: a merged body holds the objects of the clusters,
    in the worker-list order and in each backend's own order;
  * `TableColumnAdded`: a merged table has exactly one more column than a
    backend table, and every row has a Cluster cell. A table from one
    backend has neither;
  * `ClassifyMatchesRegexp`: `Classify` returns the three submatches of
    `.*/namespaces/([^/]*)/([^/]*)/?(.*)` (or the empty triple). This is
    checked on every path of up to four segments over `namespaces` and `x`,
    with and without a trailing slash, and on the path of the request the
    handler holds. Paths naming `namespaces` twice exercise the greedy `.*`;
  * `RejectMatchesRegexp`: `RejectedPath` holds exactly when
    `^/api/.*/pods/.*/attach` matches. This is checked on every path of up to
    five segments over `api`, `pods`, `attach` and `x`;
  * `HostMatchesSplitHostPort`: `extractHost` returns what `net.SplitHostPort`
    returns, or the whole header when that fails. `MCDispatcher` states
    SplitHostPort on token strings, branch by branch as in Go's source. It is
    checked for the names, addresses and bracketed IPv6 literals the requests
    use, each with and without a port.

  The three reference checks are sets of mismatches, which TLC computes once,
  plus the agreement on the current request's path. A mutant therefore fails
  them in the initial state.
* **`dispatch_custom_prefix`** (`MCDispatcher_prefix.cfg`) uses
  `--api-prefix=/custom/` with attach and list requests, two registry edits
  and one replacement of the CA file (one CA, so the file can become
  unreadable). It checks `FilterGuardsBackends`: no backend ever receives a
  path the filter rejects, whether the request goes to one cluster or is
  fanned out. This holds because the filter sees the path after the strip.

* **`startup`** (`MCStartup.cfg`) covers every flag and environment
  combination (329760 states). The two prefix flags range over `/`,
  `/custom` and `/static/`, so equal prefixes, and so the mux panic, occur.
  It checks these properties:
  * `TypeOK`, which includes that any mounted prefix ends with "/";
  * `ImplementsLifecycle`: `Startup` refines `Lifecycle` under the mapping
    above. This includes the following:
    * a regular file at the socket path is never replaced by the socket;
    * the socket is created under umask 0077 (a mutant that restores the
      old umask before `net.Listen` breaks it);
    * the panic of a duplicate mux pattern ends the process before anything
      is bound.

The "violation" runs each check one property that `spec.md` states, and TLC
finds a trace that breaks it:

| Run | Property | What the trace shows |
|-----|----------|----------------------|
| `upgrade_identity` | `CallerIdentityForwarded` (spec §8.3) | exec is forwarded impersonating `minikube-user`. |
| `cluster_cells_toctou` | `ClusterCellIsSource` (spec §8.5) | The operator removes c2 from the placement and deregisters it after the handler has read the worker list. `getRestConfigsForClusters` skips c2, so c1's rows are labelled `c2`. |
| `empty_success` | `SuccessHasBody` (spec §7) | With no placement, a 200 with body `null`. The same run also contains a pod fetched by name in a two-worker namespace. It fans out, because the route cache is never written, and the merge returns at the first Object or Status, giving an empty 200. Spec §4.5 says a cache miss costs only latency. |
| `federated_lowercase` | `FederatedToMaster` (spec §4.8) | `federatedservices` fails the case-sensitive `Federated` test and is fanned out. |
| `custom_prefix_fanout` | `FanOutReachesEveryConfig` | Under `/custom/`, a list goes to a placement with workers c1 and c2, and both configs are built. The first proxy strips the shared request's path, so the second finds no prefix and answers 404 without calling c2. The property applies only to a real fan-out (a worker list of other than one cluster). |
| `mixed_table_list` | `NoConnectionReset` | A Table from c1 and a List from the local cluster make the merge dereference nil. |
| `startup_announce` | `AnnouncedHasServer` (spec §6) | NewServer fails on a missing secret; RunProxy never reads the error, binds, prints "Starting to serve", then panics on the nil server. |
| `ca_rotation` | `CertRejectionIs401` (spec §7), an action property | The CA file is replaced by another CA's. The certificate the listener admitted no longer verifies, and the handler answers 501, the CA-load error, instead of 401. No request can succeed until a restart: new certificates are refused by the listener, and old ones by the handler. |
| `strip_empty_path` | `StripLeavesSlash` (spec §8.6, and the comment on `stripLeaveSlash`) | `kubectl get --raw /` under the default prefix `/`: `TrimPrefix` leaves `""`, the `len(p) > 0` test adds no slash, and the filter and the local backend's proxy receive the empty path. |

Each run's finding is recorded in `PROJECT.json` with the source line that
causes it.

Every property of a passing run has a mutant in `PROJECT.json`. The mutant is
a plausible bug in the mapped definition, and TLC finds the property violated
under the run's cfg:

| Mutant | Kills |
|--------|-------|
| rows prepended instead of appended | `MergedInBackendOrder` |
| no "Cluster" column | `TableColumnAdded` |
| the config builder not checking that the cluster exists | `TypeOK` (a nil config reaches the aggregator) |
| the filter wrapped outside the strip | `FilterGuardsBackends` |
| `--api-prefix` used without coercion | `TypeOK` of `startup` |
| `umask(oldmask)` restored before `net.Listen` | `ImplementsLifecycle` (the socket is created under 0022) |
| any file at the socket path removed | `ImplementsLifecycle` (a socket is bound over a regular file) |
| the first `namespaces` segment taken instead of the last (a lazy `.*?`) | `ClassifyMatchesRegexp` |
| `pods` directly followed by `attach` rejected (an off-by-one in `.*`) | `RejectMatchesRegexp` |
| IPv6 brackets kept when the port is split off | `HostMatchesSplitHostPort` |
| the `--unix-socket`/`--port` check dropped | `ImplementsLifecycle` (a Unix socket is bound with port 9000) |

## Bounds and why they are enough

* **Clusters.** Two worker clusters plus the local one are the fewest with
  which fan-out, ordering, the mislabelling shift and a mixed Table/List
  merge can occur.
* **Namespaces.** One namespace suffices: routing depends only on its
  placement, and the operator can move that placement through all shapes:
  * no placement;
  * zero, one or two workers;
  * either master.
* **Edits.** `MaxEdits = 2` allows the TOCTOU trace, which needs two edits
  (remove the worker, then deregister it). `Init` starts from any consistent
  registry, so the edits only need to happen during a request.
* **Objects.** Backends hold one or two objects, enough to tell order and
  source apart.
* **Users.** One user is enough to tell the caller from `minikube-user`.
* **CA rotations.** One replacement is enough for both cases. With two CAs
  (`ca_rotation`, `dispatch_default`) the file comes to hold another CA. With
  one CA (`dispatch_custom_prefix`) it becomes unreadable.
* **Requests.** `strip_empty_path` needs one request whose path is exactly
  the prefix (`kubectl get --raw /`), and `GetNodes` beside it for contrast.

## Fairness and liveness

* **`Dispatcher`.** `Dispatcher` has no fairness and no liveness property.
  A request is answered only if every backend answers, and the code sets
  no response timeout (see "Hung backends" below). So "every request is
  answered" would hold only because the model lets each backend answer in
  one step. The operator's edits, the CA file replacements and new requests
  come from actors that may stop, and every safety property must hold
  however they behave.
* **`Startup`.** `Startup` assumes weak fairness of its one process, because
  the bootstrap is straight-line code in one goroutine. The same holds for
  `Lifecycle`'s `WF_vars(Next)`: the refinement checks that the process
  reaches serving or exited. The startup runs set `CHECK_DEADLOCK FALSE`,
  because the process really stops: it exits, or it serves forever.

## What is not modelled, and why

* **Parts of the bootstrap.** The static handler is modelled only as a
  pattern on the mux. The files it serves, keep-alive and the bound address
  string are not modelled. Flags are in `Startup` only as far as they change
  control.
* **Custom filter flags.** The filter has the default regexp sets.
  `MakeRegexpArray` splits on commas, so an empty `--accept-hosts` (or a
  trailing comma) gives the empty regexp, which accepts every Host. That
  disables the XSRF guard without the warning `--disable-filter` prints.
  This is listed as a hazard; no run has the flag strings as inputs.
* **Hung backends.** `rest.TransportFor` sets no response timeout, so a
  backend that accepts a connection and never answers holds the request
  forever. In a fan-out, the later clusters are then never queried. Every
  backend answers in one step in this model (a transport failure included),
  so no property claims that a request is answered. The hazard is listed
  without a property.
* **The 501 after a partial fan-out.** When a later cluster's TLS material
  fails, the aggregator answers 501 after earlier clusters have already
  served the request. The model reproduces this sequence. Spec §7 leaves
  the response to a partial aggregation failure undefined, so no property
  is checked about it.
* **Watch requests.** A watch fanned out to several workers is served into
  recorders one backend at a time. The first stream ends only at its
  server-side timeout, and until then the client receives nothing. A backend
  answer is one step in this model, so watches are outside it (a hazard
  without a property).
* **Backends.** Transports, TLS handshakes and HTTP/2 are abstracted:
  * a backend is a function from the path to an answer, with failures chosen
    nondeterministically;
  * the flush interval and keep-alive do not change routing or merged content.
* **Concurrent handler goroutines.** Handlers share no mutable state except
  the route cache, which is never written, so one handler at a time loses no
  behaviour of the dispatcher.
* **Observed but not checked.**
  * `NewServer` also reads `default/kubeconfig-central` on the central
    cluster and fails without it, though it never uses the value. Spec §6
    names only the local `federation-system/kubeconfig-central` secret. This
    is visible in `Startup`'s `NewServer`, but no run checks it.
  * `extractHost("[::1]:8001")` is `::1`. The default host regexp
    `^\[::1\]$` only matches the bracketed form, so IPv6 loopback clients
    with a port are refused by the filter. `HostMatchesSplitHostPort`
    confirms the model's `extractHost` on this input; no run states that
    such a client should be accepted.
* **The generated client code and the controller.** They are out of scope in
  `spec.md` §1, and change no state the proxy reads.

## Further work

The run budget (twelve runs) is spent. Nine runs record disagreements between
the code and `spec.md`, and three are passing runs. The following would each
need a run of their own:

1. Custom filter flags as inputs. A check that an empty `--accept-hosts`
   part opens the filter without a warning would be a tenth violation run.
2. Composing `Startup` with `Dispatcher`, so that the coerced prefix and the
   filter setting are the handler's. `Dispatcher` takes them as constants,
   and TLA+ cannot instantiate a constant with a state variable. So the
   composition would mean rewriting them as variables fixed in `Init`.
3. An abstract specification of atomic request handling. `Dispatcher`
   refines it only when the registry is not edited; `cluster_cells_toctou`
   already shows the edited case.
4. A route cache with the write policy spec §9 asks for, as an alternative
   model, checked against `SuccessHasBody` for named requests.
