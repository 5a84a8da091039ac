CONSTANTS
  p1 = p1  p2 = p2
  v1 = v1  v2 = v2
  b1 = b1  b2 = b2  b3 = b3  b4 = b4
  None = None  Torn = Torn  Following = Following  Unread = Unread
  Procs = {p1, p2}
  Catalogs <- MCEither
  Ops = {"install", "launch", "remove"}
  MaxFaults = 0
SPECIFICATION Spec
SYMMETRY MCSymmetry
INVARIANTS ActivatedIsLaunchable LaunchesOnlyActivated
CHECK_DEADLOCK FALSE
