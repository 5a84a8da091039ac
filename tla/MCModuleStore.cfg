CONSTANTS
  p1 = p1  p2 = p2
  v1 = v1  v2 = v2
  b1 = b1  b2 = b2  b3 = b3  b4 = b4
  None = None  Torn = Torn  Following = Following  Unread = Unread
  Procs = {p1}
  Catalogs <- MCOne
  Ops = {"install", "pin", "update", "remove", "launch", "kill"}
  MaxFaults = 1
SPECIFICATION Spec
INVARIANTS ActivatedIsLaunchable RefusedOnlyByFault FailedInstallChangesNothing PinIsActive
CHECK_DEADLOCK FALSE
