SPECIFICATION FairSpec
CONSTANTS
  page = page
  other = other
  away = away
  there = there
  back = back
  home = home
  abroad = abroad
  Nothing = Nothing
  Clients = {page, other, away}
  Page = page
  IpOf <- MCIpOf
  MaxConnections = 1
  MaxPerIp = 1
  MaxBuffered = 1
  MaxEvents = 2
  Queries = {there}
  Swapped <- MCRoundTrip
  Calls = {1}
CHECK_DEADLOCK FALSE
INVARIANT TypeOK
INVARIANT Bounded
INVARIANT NoGaps
PROPERTY VanishedAreRemoved
PROPERTY PageReturns
PROPERTY PageSettles
