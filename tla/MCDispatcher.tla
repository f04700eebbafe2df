---------------------------- MODULE MCDispatcher ----------------------------
(***************************************************************************)
(* Model-checking instance of Dispatcher: two member clusters and the      *)
(* local API server, one tenant namespace, one user, and the requests      *)
(* kubectl sends through the proxy.                                        *)
(***************************************************************************)
EXTENDS Dispatcher, TokenRegexp, TLC

CONSTANTS c1, c2, local

\* Objects each backend lists: c1 two, c2 one, so order and origin show.
MCObjs == (c1 :> <<"p1", "p2">>) @@ (c2 :> <<"p3">>) @@ (local :> <<"n1">>)

\* --api-prefix values: the default "/", and "/custom/".
PrefixRoot == <<>>
PrefixCustom == <<"custom">>

PodsPath == <<"api", "v1", "namespaces", "ns", "pods">>

\* kubectl get pods -n ns (Table), and a client-go list of the same (JSON).
\* Host headers as kubectl sends them: "localhost:8001", and a foreign one.
LocalhostPort == [name |-> "localhost", ipv6 |-> FALSE, port |-> TRUE]
ForeignPort == [LocalhostPort EXCEPT !.name = "evil.example"]

GetPodsTable == [path |-> PodsPath, upgrade |-> FALSE, table |-> TRUE,
                 host |-> LocalhostPort]
ListPods == [GetPodsTable EXCEPT !.table = FALSE]
\* kubectl get pod p1 -n ns
GetPod == [GetPodsTable EXCEPT !.path = PodsPath \o <<"p1">>]
\* kubectl exec p1 -n ns (an upgrade)
ExecPod == [GetPodsTable EXCEPT !.path = PodsPath \o <<"p1", "exec">>,
                                !.upgrade = TRUE, !.table = FALSE]
\* kubectl attach p1 -n ns (an upgrade the default filter rejects)
AttachPod == [ExecPod EXCEPT !.path = PodsPath \o <<"p1", "attach">>]
\* kubectl get nodes (not namespaced)
GetNodes == [GetPodsTable EXCEPT !.path = <<"api", "v1", "nodes">>]
\* a Federated* type as the master test expects it, and as kubectl sends it
FedPathCap == <<"apis", "core.federation.k8s.io", "v1alpha1", "namespaces", "ns",
                "FederatedServices">>
GetFedCap == [GetPodsTable EXCEPT !.path = FedPathCap]
GetFedLower == [GetPodsTable EXCEPT !.path = <<"apis", "core.federation.k8s.io",
                 "v1alpha1", "namespaces", "ns", "federatedservices">>]
\* kubectl get --raw / : the path that is exactly the default --api-prefix
GetRoot == [GetPodsTable EXCEPT !.path = <<"">>, !.table = FALSE]
\* a request whose Host header the filter does not accept
ForeignHost == [ListPods EXCEPT !.host = ForeignPort]

MCRequestsAll == {GetPodsTable, ListPods, GetPod, ExecPod, AttachPod, GetNodes,
                  GetFedCap, ForeignHost}
MCRequestsReads == {GetPodsTable, ListPods, GetPod, GetNodes, GetFedCap}
MCRequestsAttach == {AttachPod, ListPods}
MCRequestsList == {ListPods}
MCRequestsNamed == {ListPods, GetPod}
MCRequestsFed == {GetFedLower}
MCRequestsExec == {ExecPod}
MCRequestsTable == {GetPodsTable}
MCRequestsRoot == {GetRoot, GetNodes}

MCFederatedPrefixed == {"FederatedServices"}
MCApiPrefixed == {"api", "apis"}
\* What ^localhost$, ^127\.0\.0\.1$ and ^\[::1\]$ match, as extracted hosts.
MCAcceptedHosts == {[name |-> "localhost", bracketed |-> FALSE],
                    [name |-> "127.0.0.1", bracketed |-> FALSE],
                    [name |-> "::1", bracketed |-> TRUE]}
MCFederatedTypes == {"federatedservices", "FederatedServices"}
MCAttachPrefixed == {"attach"}

-----------------------------------------------------------------------------
(***************************************************************************)
(* The path operators against the regexps they translate, over every path  *)
(* of up to four or five segments of a small alphabet, with and without a  *)
(* trailing slash.                                                         *)
(***************************************************************************)
RefPaths(words, n) == {p \o e : p \in BoundedSeq(words, n), e \in {<<>>, <<"">>}}

Lit(x) == [k |-> "lit", w |-> x]
AnyRE == [k |-> "any"]

\* .*/namespaces/([^/]*)/([^/]*)/?(.*) ; the groups are items 5, 7 and 9.
NamespacePathRE ==
  <<AnyRE, Lit("/"), Lit("namespaces"), Lit("/"), [k |-> "word"], Lit("/"),
    [k |-> "word"], [k |-> "opt", w |-> "/"], AnyRE>>

\* ^/api/.*/pods/.*/attach , unanchored at the end.
PathRejectRE ==
  <<Lit("/"), Lit("api"), Lit("/"), AnyRE, Lit("/"), Lit("pods"), Lit("/"),
    AnyRE, Lit("/"), [k |-> "pre", ws |-> AttachPrefixed], AnyRE>>

WordString(s) == IF s = "" THEN <<>> ELSE <<s>>

ClassifyAgrees(p) ==
  LET t == PathString(p)
      c == Classify(p)
  IN IF Matches(NamespacePathRE, t)
       THEN LET v == Preferred(NamespacePathRE, t)
            IN /\ WordString(c.namespace) = Group(v, t, 5)
               /\ WordString(c.type) = Group(v, t, 7)
               /\ RestString(c.name) = Group(v, t, 9)
       ELSE c = [namespace |-> "", type |-> "", name |-> <<>>]

RejectAgrees(p) == RejectedPath(p) = Matches(PathRejectRE, PathString(p))

(***************************************************************************)
(* net.SplitHostPort on a Host header string: the host before the last     *)
(* ":", or inside a leading "[...]" that the last ":" directly follows;    *)
(* an error for no ":", a ":" left in an unbracketed host, or a stray "["  *)
(* or "]".  Host names are token strings; "::1" is <<":", ":", "1">>.      *)
(***************************************************************************)
HostTokens == ("localhost" :> <<"localhost">>) @@ ("127.0.0.1" :> <<"127.0.0.1">>)
              @@ ("::1" :> <<":", ":", "1">>) @@ ("evil.example" :> <<"evil.example">>)

Bracketed(t) == <<"[">> \o t \o <<"]">>

HeaderString(h) ==
  (IF h.ipv6 THEN Bracketed(HostTokens[h.name]) ELSE HostTokens[h.name])
  \o (IF h.port THEN <<":", "8001">> ELSE <<>>)

IndexOf(s, x) == SelectInSeq(s, LAMBDA c : c = x)

SplitHostPort(s) ==
  LET i == SelectLastInSeq(s, LAMBDA c : c = ":")
      bracket == s # <<>> /\ Head(s) = "["
      end == IndexOf(s, "]")
      host == IF bracket THEN SubSeq(s, 2, end - 1) ELSE SubSeq(s, 1, i - 1)
      j == IF bracket THEN 2 ELSE 1
      k == IF bracket THEN end + 1 ELSE 1
  IN [ok |-> /\ i > 0
             /\ bracket => end > 0 /\ end + 1 = i
             /\ ~bracket => IndexOf(host, ":") = 0
             /\ IndexOf(SubSeq(s, j, Len(s)), "[") = 0
             /\ IndexOf(SubSeq(s, k, Len(s)), "]") = 0,
      host |-> host]

\* The headers the model's records stand for: IPv6 literals in brackets.
RefHeaders ==
  {h \in [name : DOMAIN HostTokens, ipv6 : BOOLEAN, port : BOOLEAN] :
     h.ipv6 = (":" \in Range(HostTokens[h.name]))}

HostAgrees(h) ==
  LET s == HeaderString(h)
      r == SplitHostPort(s)
      e == extractHost(h)
  IN (IF e.bracketed THEN Bracketed(HostTokens[e.name]) ELSE HostTokens[e.name])
       = (IF r.ok THEN r.host ELSE s)

\* The bounded inputs on which an operator and its reference disagree.
ClassifyMismatches == {p \in RefPaths({"namespaces", "x"}, 4) : ~ClassifyAgrees(p)}
RejectMismatches == {p \in RefPaths({"api", "pods", "attach", "x"}, 5) : ~RejectAgrees(p)}
HostMismatches == {h \in RefHeaders : ~HostAgrees(h)}

(***************************************************************************)
(* getNamespaceTypeNameFromPath: the segment classifier returns the three  *)
(* submatches FindStringSubmatch returns for the greedy regexp, and the    *)
(* empty triple when it does not match (a path that names "namespaces"     *)
(* twice, a trailing slash, a path too short to hold a type), on every     *)
(* bounded path and on the path of the request the handler holds.          *)
(***************************************************************************)
ClassifyMatchesRegexp ==
  ClassifyMismatches = {} /\ ClassifyAgrees(URLPath(req))

(***************************************************************************)
(* FilterServer.accept with the default --reject-paths: the segment test   *)
(* rejects exactly the paths the regexp matches.                           *)
(***************************************************************************)
RejectMatchesRegexp ==
  RejectMismatches = {} /\ RejectAgrees(URLPath(req))

(***************************************************************************)
(* extractHost: the host the filter matches is what net.SplitHostPort      *)
(* returns, or the whole header when it fails (no port), for names,        *)
(* addresses and bracketed IPv6 literals with and without a port.          *)
(***************************************************************************)
HostMatchesSplitHostPort ==
  HostMismatches = {} /\ HostAgrees(req.host)
=============================================================================
