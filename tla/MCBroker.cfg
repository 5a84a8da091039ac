SPECIFICATION Spec
CONSTANTS
  None = None
  apim = apim
  iam = iam
  Product = apim
  ProofNamespace = apim
  NamespaceOrder <- MCOrder
  Served <- MCServed
  Unslashed <- MCUnslashed
  AbsoluteURIs <- MCAbsolute
  RegisteredPorts = {10425}
  Worlds <- MCWorlds
  Receipts <- MCReceipts
  Requests <- MCRequests
  Environment <- MCEnvironment
  MaxCommands = 1
  MaxAsks = 2
INVARIANTS GrantsBound SessionsLive
PROPERTIES DeniedForCause
CHECK_DEADLOCK FALSE
