SPECIFICATION Spec
CONSTANTS
  Tokens = {t1, t2, t3, t4}
  Clients = {c1, c2}
  None = None
PROPERTY ReplayEndsActiveSessions
SYMMETRY Symmetry
