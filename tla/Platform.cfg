SPECIFICATION FairSpec
CONSTANTS
  api = api
  worker = worker
  author = author
  other = other
  report = report
  address = address
  Nobody = Nobody
  Instances = {api, worker}
  Workers = {worker}
  Image <- MCImage
  Addresses = {address}
  Users = {author, other}
  Reports = {report}
  Reporter <- MCReporter
  Handlers = {1, 2}
  Offered <- MCOffered
INVARIANT TypeOK
INVARIANT SchemaInOrder
INVARIANT RunsOnItsSchema
INVARIANT NobodyAppliesTwice
INVARIANT GaugeExact
INVARIANT NobodyWaitsOnClosedPools
PROPERTY ImplementsCommunity
PROPERTY EveryRequestEnds
PROPERTY EveryMoveEnds
