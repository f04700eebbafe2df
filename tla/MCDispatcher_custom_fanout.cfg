\* A fanned-out list under --api-prefix=/custom/ with healthy backends.
CONSTANTS
  c1 = c1
  c2 = c2
  local = local
  Clusters = {c1, c2}
  Local = local
  Namespaces = {"ns"}
  Users = {u1}
  MinikubeUser = minikube
  Requests <- MCRequestsList
  Objs <- MCObjs
  TableClusters = {c1, c2, local}
  TableCols = 2
  FilterEnabled = TRUE
  Failures = {"none"}
  CAs = {ca1}
  Unreadable = Unreadable
  MaxRotations = 0
  MaxEdits = 0
  FederatedTypes <- MCFederatedTypes
  FederatedPrefixed <- MCFederatedPrefixed
  ApiPrefixed <- MCApiPrefixed
  AttachPrefixed <- MCAttachPrefixed
  ApiPrefix <- PrefixCustom
  AcceptedHosts <- MCAcceptedHosts
  NoPlacement = NoPlacement
  NoCluster = NoCluster
  NoCfg = NoCfg
  NoCell = NoCell
SPECIFICATION Spec
INVARIANTS
  FanOutReachesEveryConfig
