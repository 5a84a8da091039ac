SPECIFICATION Spec
CONSTANTS
    Timeout = 2
    Askers = {"g1", "g2"}
    Codes = {"c1"}
    MaxAccessRequests = 2
    MaxRequests = 3
    MaxFrames = 3
    Pipe = 1
INVARIANTS Believed DeadlineKept SdkUnderstood
PROPERTIES Returns
CHECK_DEADLOCK FALSE
