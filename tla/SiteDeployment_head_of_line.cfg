SPECIFICATION FairSpec

CONSTANTS
  u1 = u1
  u2 = u2
  d1 = d1
  d2 = d2
  NoUser = NoUser
  Dispatchers = {d1}
  Consumer = d1
  MaxDispatchRequests = 0
  Users = {u1, u2}
  MaxDeployOrders = 2
  MaxDeployTasks = 2
  MaxDeployRequests = 2
  Overlapping = FALSE
  WipLimit = 1
  Authors = {u2}
  EarlyPosts = TRUE
  MaxFaults = 0
  MaxCrashes = 0

PROPERTIES
  WaitingIsEnough
