SPECIFICATION FairSpec
CONSTANTS
  Tokens = {t1, t2, t3}
  Clients = {c1, c2}
  None = None
INVARIANT TypeOK
INVARIANT OneSuccessor
PROPERTY RevocationIsFinal
PROPERTY ReplayRevokesWhatItSaw
PROPERTY RefreshEnds
PROPERTY ImplementsStore
