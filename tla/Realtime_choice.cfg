SPECIFICATION Spec
CONSTANTS
  page = page
  other = other
  away = away
  there = there
  back = back
  home = home
  abroad = abroad
  Nothing = Nothing
  Clients = {page, other, away}
  Page = page
  IpOf <- MCIpOf
  MaxConnections = 1
  MaxPerIp = 1
  MaxBuffered = 1
  MaxEvents = 2
  Queries = {there, back}
  Swapped <- MCSwapped
  Calls = {1, 2}
CHECK_DEADLOCK FALSE
PROPERTY UserChooses
