\* Flag validation, the mux, listeners and socket files over every flag and
\* environment combination.
CONSTANTS
  DefaultPort = 8001
  Ports <- MCPorts
  Prefixes <- MCPrefixes
  InitialUmask = "0022"
  OwnerOnly = "0077"
  NoServer = NoServer
SPECIFICATION Spec
\* The process ends by serving forever or by exiting.
CHECK_DEADLOCK FALSE
INVARIANTS
  TypeOK
PROPERTIES
  ImplementsLifecycle
