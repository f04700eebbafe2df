\* Routing and merging under the default --api-prefix "/": every request
\* kind, backend failures, and registry edits racing the handler.
CONSTANTS
  c1 = c1
  c2 = c2
  local = local
  Clusters = {c1, c2}
  Local = local
  Namespaces = {"ns"}
  Users = {u1}
  MinikubeUser = minikube
  Requests <- MCRequestsAll
  Objs <- MCObjs
  TableClusters = {c1, c2, local}
  TableCols = 2
  FilterEnabled = TRUE
  Failures = {"none", "forbidden", "transport"}
  CAs = {ca1, ca2}
  Unreadable = Unreadable
  MaxRotations = 1
  MaxEdits = 2
  FederatedTypes <- MCFederatedTypes
  FederatedPrefixed <- MCFederatedPrefixed
  ApiPrefixed <- MCApiPrefixed
  AttachPrefixed <- MCAttachPrefixed
  ApiPrefix <- PrefixRoot
  AcceptedHosts <- MCAcceptedHosts
  NoPlacement = NoPlacement
  NoCluster = NoCluster
  NoCfg = NoCfg
  NoCell = NoCell
SPECIFICATION Spec
INVARIANTS
  TypeOK
  MergedInBackendOrder
  TableColumnAdded
  ClassifyMatchesRegexp
  RejectMatchesRegexp
  HostMatchesSplitHostPort
