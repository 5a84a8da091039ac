SPECIFICATION FairSpec
CONSTANTS
  Procs = {p1, p2}
  Logins = {l1}
  Issuers = {"iss", "iss2"}
  Bindings <- ManyBindings
  Strategies = {"sibling", "exchanged"}
  MaxGen = 2
  Faults = {"sideRead"}
  None = None
  Unreadable = Unreadable
INVARIANTS PresentedWhereEstablished
PROPERTIES Returns
