\* Does RunProxy announce a listener only when NewServer succeeded?
CONSTANTS
  DefaultPort = 8001
  Ports <- MCPorts
  Prefixes <- MCPrefixes
  InitialUmask = "0022"
  OwnerOnly = "0077"
  NoServer = NoServer
SPECIFICATION Spec
\* The process ends by serving forever or by exiting.
CHECK_DEADLOCK FALSE
INVARIANTS
  AnnouncedHasServer
