SPECIFICATION Spec
CONSTANTS
  r1 = r1  s1 = s1  s2 = s2  j1 = j1  j2 = j2
  Sweep = Sweep  NoReport = NoReport
  Reports = {r1}  Segments = {s1}  Jobs = {j1}
  Near <- OneSegment
  Concurrency = 1  MaxAttempts = 2  MaxStalledCount = 1  MaxChanges = 1  MaxFailures = 1
INVARIANT ExpiredContributesZero
