SPECIFICATION Spec
CONSTANTS
  Procs = {p1, p2}
  Logins = {l1, l2}
  Issuers = {i1, i2}
  Bindings <- ByIssuer
  Strategies = {"direct", "federated", "derived"}
  MaxGen = 2
  Faults = {"crash", "keyring", "lockfile", "network", "issuer"}
  None = None
  Unreadable = Unreadable
SYMMETRY Symmetry
INVARIANTS SideReachable StoredTokenCurrent SidesOfOneLogin ConfirmedMeansDead
PROPERTIES DeletesWhatItRead
