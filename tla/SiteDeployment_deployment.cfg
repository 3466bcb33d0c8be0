SPECIFICATION FairSpec

CONSTANTS
  u1 = u1
  u2 = u2
  d1 = d1
  d2 = d2
  NoUser = NoUser
  Dispatchers = {d1, d2}
  Consumer = d1
  MaxDispatchRequests = 1
  Users = {u1, u2}
  MaxDeployOrders = 2
  MaxDeployTasks = 4
  MaxDeployRequests = 2
  Overlapping = FALSE
  WipLimit = 2
  Authors = {u2}
  EarlyPosts = FALSE
  MaxFaults = 2
  MaxCrashes = 1

CONSTRAINTS
  AdministratorApart
  SecondFaultApart

INVARIANTS
  TypeOK
  DeploymentIsOwned
  DeployAlone

PROPERTIES
  DeployedForGood
  WaitingIsEnough
