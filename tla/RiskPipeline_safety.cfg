SPECIFICATION Spec
CONSTANTS
  r1 = r1  s1 = s1  s2 = s2  j1 = j1  j2 = j2
  Sweep = Sweep  NoReport = NoReport
  Reports = {r1}  Segments = {s1, s2}  Jobs = {j1}
  Near <- TwoSegments
  Concurrency = 1  MaxAttempts = 1  MaxStalledCount = 1  MaxChanges = 2  MaxFailures = 1
SYMMETRY Symmetry
INVARIANT TypeOK
INVARIANT Accounted
INVARIANT EveryChangeIsAnnounced
