SPECIFICATION FairSpec
CONSTANTS
  Requests = {q1, q2}
  Inputs = {i1}
  Workers = {w1}
  MaxCommits = 2
  MaxVersion = 1
INVARIANT TypeOK
INVARIANT FreshUnlessOvertaken
PROPERTY StaleResultsEnd
