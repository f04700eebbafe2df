----------------------------- MODULE ProxyPaths -----------------------------
(***************************************************************************)
(* Pure path operators of pkg/kubefed2/proxy/proxy_server.go: the request  *)
(* filter (FilterServer.accept), the path classifier                       *)
(* (getNamespaceTypeNameFromPath), the prefix strip (stripLeaveSlash) and  *)
(* the master-routing test (needToGetFromMaster).                          *)
(*                                                                         *)
(* A URL path is a sequence of segments: the string "/s1/s2/.../sn" is     *)
(* <<s1, ..., sn>>; a trailing slash is a last segment "" and the empty    *)
(* string "" is <<>>.  Paths reach the handler through http.ServeMux,      *)
(* which cleans them, so no segment but the last is "".  A segment is a    *)
(* string of a small alphabet; the two string-prefix tests the code makes  *)
(* on a segment are given as the sets of alphabet members that pass them.  *)
(***************************************************************************)
EXTENDS Naturals, Sequences, SequencesExt

CONSTANTS
  FederatedPrefixed,  \* segments s with strings.HasPrefix(s, "Federated")
  ApiPrefixed,        \* segments s such that "/" + s starts with "/api"
  ApiPrefix,          \* --api-prefix as segments: "/" is <<>>, "/x/" is <<"x">>
  AttachPrefixed,     \* segments s with strings.HasPrefix(s, "attach")
  AcceptedHosts       \* extracted hosts matched by the --accept-hosts regexps

\* getNamespaceTypeNameFromPath applies .*/namespaces/([^/]*)/([^/]*)/?(.*)
(***************************************************************************)
(* The literal "/namespaces/" pins a whole segment "namespaces"; the       *)
(* greedy leading wildcard makes it the last such segment    *)
(* that is followed by a namespace segment and a "/".  The third group is  *)
(* the rest of the path after the type, without its leading slash.         *)
(***************************************************************************)
\* Mutant: the first "namespaces" segment, as a lazy .*? would take.
ClassifyFirst(p) ==
  LET k == SelectInSeq([i \in 1..Len(p) |-> IF i + 2 <= Len(p) THEN p[i] ELSE ""],
                       LAMBDA s : s = "namespaces")
  IN IF k = 0
       THEN [namespace |-> "", type |-> "", name |-> <<>>]
       ELSE [namespace |-> p[k + 1], type |-> p[k + 2], name |-> SubSeq(p, k + 3, Len(p))]

Classify(p) ==
  LET k == SelectLastInSeq([i \in 1..Len(p) |-> IF i + 2 <= Len(p)
                                                  THEN p[i] ELSE ""],
                           LAMBDA s : s = "namespaces")
  IN IF k = 0
       THEN [namespace |-> "", type |-> "", name |-> <<>>]
       ELSE [namespace |-> p[k + 1], type |-> p[k + 2],
             name |-> LET rest == SubSeq(p, k + 3, Len(p))
                      IN IF rest = <<"">> THEN <<>> ELSE rest]

\* needToGetFromMaster: strings.HasPrefix(resourceType, "Federated").
needToGetFromMaster(resourceType) == resourceType \in FederatedPrefixed

(***************************************************************************)
(* stripLeaveSlash(prefix): TrimPrefix, 404 if nothing was trimmed, and a  *)
(* "/" put back in front of a non-empty remainder.  The prefix string ends *)
(* with "/" (RunProxy coerces it), so the remainder never starts with "/"  *)
(* and an empty remainder stays the empty path.  found is FALSE where the  *)
(* handler answers http.NotFound.                                          *)
(***************************************************************************)
stripLeaveSlash(p) ==
  IF Len(p) > Len(ApiPrefix) /\ IsPrefix(ApiPrefix, p)
    THEN LET rest == SubSeq(p, Len(ApiPrefix) + 1, Len(p))
         IN [found |-> TRUE, path |-> IF rest = <<"">> THEN <<>> ELSE rest]
    ELSE [found |-> FALSE, path |-> p]

\* newDynamicProxyHandler strips only when apiProxyPrefix lacks "/api".
StripsPrefix == ~(ApiPrefix # <<>> /\ ApiPrefix[1] \in ApiPrefixed)

(***************************************************************************)
(* FilterServer.accept with the default regexp sets (DefaultPathRejectRE  *)
(* and friends).  The reject-paths regexp matches when segment 1 is "api", *)
(* a segment after at least one more is "pods", and a segment at least two *)
(* further on starts with "attach".  The accept-paths regexp matches every *)
(* path; the reject-methods regexp "^$" matches only the empty method,     *)
(* which a server request never has.                                       *)
(***************************************************************************)
\* DefaultPathRejectRE == ^/api/.*/pods/.*/attach
\* Mutant: "pods" directly followed by the attach segment also rejected.
RejectedPathAdjacent(p) ==
  /\ Len(p) >= 1
  /\ p[1] = "api"
  /\ \E i \in 3..Len(p) : \E j \in 1..Len(p) :
        p[i] = "pods" /\ j >= i + 1 /\ p[j] \in AttachPrefixed

RejectedPath(p) ==
  /\ Len(p) >= 1
  /\ p[1] = "api"
  /\ \E i \in 3..Len(p) : \E j \in 1..Len(p) :
        p[i] = "pods" /\ j >= i + 2 /\ p[j] \in AttachPrefixed

(***************************************************************************)
(* A Host header is [name, ipv6, port]: a host name or address, whether it *)
(* is an IPv6 literal (written in brackets), and whether ":port" follows.  *)
(* extractHost runs net.SplitHostPort, which drops the port and the        *)
(* brackets, and keeps the header as it is when there is no port (an      *)
(* IPv6 literal then keeps its brackets).  An extracted host is            *)
(* [name, bracketed].                                                      *)
(***************************************************************************)
\* Mutant: the brackets kept when the port is split off.
extractHostKeepBrackets(header) == [name |-> header.name, bracketed |-> header.ipv6]

extractHost(header) ==
  [name |-> header.name, bracketed |-> header.ipv6 /\ ~header.port]

accept(p, host) ==
  /\ ~RejectedPath(p)
  /\ host \in AcceptedHosts
=============================================================================
