SPECIFICATION QueuedSpec
CONSTANTS
  o = o
  a = a
  b = b
  d = d
  z = z
  None = None
  Infinity = Infinity
  Nodes <- MCNodes
  Segments <- MCSegments
  Ends <- MCEnds
  OneWay = {1, 2, 3, 6}
  Roads <- MCRoads
  Crow <- MCCrow
  Origins = {o, z}
  Destination = d
  Preferences <- MCPreferences
INVARIANT TypeOK
INVARIANT YieldsLeast
INVARIANT Optimal
INVARIANT AddsUp
INVARIANT Tradeoff
INVARIANT ExploredOnce
PROPERTY GetsOn
PROPERTY ImplementsSearch
PROPERTY Answered
