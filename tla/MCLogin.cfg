SPECIFICATION Spec
CONSTANTS
  None = None
  b1 = b1
  b2 = b2
  d1 = d1
  Logins <- MCLogins
  Together <- MCTogether
  Flow <- MCFlow
  ClientOf <- MCClientOf
  ScopesOf <- MCScopesOf
  ResourceOf <- MCResourceOf
  IssuerURL = "http://127.0.0.1"
  IssuerID = None
  PortOrder <- MCPortOrder
  RegisteredPorts <- MCRegistered
  Occupied <- MCOccupied
  Deployments <- MCDeployments
  MaxSignIns <- MCMaxSignIns
INVARIANTS SessionAsAsked RefusedForCause
PROPERTIES Returns
CHECK_DEADLOCK FALSE
