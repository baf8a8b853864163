SPECIFICATION Spec
CONSTANTS
  Requests = {q1, q2}
  Inputs = {i1}
  Workers = {w1}
  MaxCommits = 2
  MaxVersion = 2
SYMMETRY Symmetry
INVARIANT OldValuesNotReturned
