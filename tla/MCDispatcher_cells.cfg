\* kubectl get pods over a placement the operator edits while the request
\* is in flight: the Cluster cell of each merged row.
CONSTANTS
  c1 = c1
  c2 = c2
  local = local
  Clusters = {c1, c2}
  Local = local
  Namespaces = {"ns"}
  Users = {u1}
  MinikubeUser = minikube
  Requests <- MCRequestsTable
  Objs <- MCObjs
  TableClusters = {c1, c2, local}
  TableCols = 2
  FilterEnabled = TRUE
  Failures = {"none"}
  CAs = {ca1}
  Unreadable = Unreadable
  MaxRotations = 0
  MaxEdits = 2
  FederatedTypes <- MCFederatedTypes
  FederatedPrefixed <- MCFederatedPrefixed
  ApiPrefixed <- MCApiPrefixed
  AttachPrefixed <- MCAttachPrefixed
  ApiPrefix <- PrefixRoot
  AcceptedHosts <- MCAcceptedHosts
  NoPlacement = NoPlacement
  NoCluster = NoCluster
  NoCfg = NoCfg
  NoCell = NoCell
SPECIFICATION Spec
INVARIANTS
  ClusterCellIsSource
