SPECIFICATION FairSpec
CONSTANTS
  Calls = {c1, c2, c3}
  Files = {f1, f2}
  Nothing = Nothing
  Deadline = 4
  MaxHold = 3
PROPERTIES BusyMeansOvertaken Comes IsAdvisoryLock
