CONSTANTS
  p1 = p1  p2 = p2
  dev = dev
  b1 = b1  b2 = b2
  r1 = r1
  None = None
  Procs = {p1, p2}
  LoginRefs = {dev}
  SubRefs <- MCSubRefs
  Bindings = {b1, b2}
  Rests = {r1}
  Ops = {"change", "edit", "amend", "login", "create", "logout", "supersede", "kill"}
SPECIFICATION Spec
SYMMETRY MCSymmetry
INVARIANTS SessionsNamed
PROPERTIES NoChangeDiscarded FrozenStaysFrozen
CHECK_DEADLOCK FALSE
